-------------------------- MODULE KeyMirrorProofs ---------------------------
(***************************************************************************)
(* Proofs about KeyMirror for any minions, statuses, workers and threads.  *)
(***************************************************************************)
EXTENDS KeyMirror, TLAPS

LEMMA NoRequestType == NoRequest \in Request /\ NoEvent \in [busy : BOOLEAN,
                                         todo : SUBSET Key, ins : SUBSET Row]
BY DEF NoRequest, Request, NoEvent

(* have holds one row of each pair that has any. *)
LEMMA HaveRows ==
  /\ Have \subseteq rows
  /\ \A r \in rows : \E a \in Have : a.key = r.key
  /\ \A a, b \in Have : a.key = b.key => a = b
<1> DEFINE The(k) == CHOOSE r \in rows : r.key = k
<1>1. \A k \in KeysOf(rows) : The(k) \in rows /\ The(k).key = k
  BY DEF KeysOf
<1>2. Have = {The(k) : k \in KeysOf(rows)}
  BY DEF Have
<1>3. \A r \in rows : r.key \in KeysOf(rows)
  BY DEF KeysOf
<1> HIDE DEF The
<1>. QED BY <1>1, <1>2, <1>3

(* What Read and Create write into a request.                              *)
LEMMA ReadPlan ==
  ASSUME NEW q \in Request, NEW stale \in SUBSET Pk, NEW todo \in SUBSET Key,
         NEW n, n = [q EXCEPT !.stale = stale, !.todo = todo]
  PROVE  /\ n \in Request
         /\ n.kind = q.kind /\ n.wanted = q.wanted /\ n.stale = stale
         /\ n.todo = todo /\ n.ins = q.ins /\ n.drop = q.drop
<1> DEFINE a == [q EXCEPT !.stale = stale]
<1>1. a \in Request /\ n = [a EXCEPT !.todo = todo]
  BY DEF Request
<1>2. /\ a.kind = q.kind /\ a.wanted = q.wanted /\ a.stale = stale
      /\ a.ins = q.ins /\ a.drop = q.drop
  BY DEF Request
<1> HIDE DEF a
<1>. QED BY <1>1, <1>2 DEF Request

LEMMA CreateOne ==
  ASSUME NEW q \in Request, NEW key \in Key, NEW row \in Row,
         NEW n, n = [q EXCEPT !.todo = @ \ {key}, !.ins = @ \cup {row}]
  PROVE  /\ n \in Request
         /\ n.kind = q.kind /\ n.wanted = q.wanted /\ n.stale = q.stale
         /\ n.todo = q.todo \ {key} /\ n.ins = q.ins \cup {row} /\ n.drop = q.drop
<1> DEFINE a == [q EXCEPT !.todo = @ \ {key}]
<1>1. a \in Request /\ n = [a EXCEPT !.ins = @ \cup {row}]
  BY DEF Request
<1>2. /\ a.kind = q.kind /\ a.wanted = q.wanted /\ a.stale = q.stale
      /\ a.todo = q.todo \ {key} /\ a.ins = q.ins /\ a.drop = q.drop
  BY DEF Request
<1> HIDE DEF a
<1>. QED BY <1>1, <1>2 DEF Request

(* What End and Unlock write is well typed. *)
LEMMA EndType ==
  ASSUME TypeOK, NEW t \in Thread, End(t)
  PROVE  /\ pc' \in [Thread -> {"idle", "list", "read", "delete", "create", "commit"}]
         /\ req' \in [Thread -> Request]
         /\ absent' \in [Thread \cup {Returner} -> SUBSET Key]
BY NoRequestType DEF TypeOK, End

LEMMA UnlockType ==
  ASSUME TypeOK, NEW t \in Thread, Unlock(t)
  PROVE  lock' \in [Process -> Thread \cup {Nobody}]
BY DEF TypeOK, Unlock

-----------------------------------------------------------------------------
(* Every variable keeps its type.                                          *)
THEOREM TypeCorrect == Spec => []TypeOK
<1> USE KeyAssumption
<1>1. Init => TypeOK
  <2>1. Init => req \in [Thread -> Request] /\ er \in [busy : BOOLEAN,
                                         todo : SUBSET Key, ins : SUBSET Row]
    BY NoRequestType DEF Init
  <2>. QED BY <2>1 DEF Init, TypeOK
<1>2. ASSUME TypeOK, [Next]_vars
      PROVE  TypeOK'
  <2> USE <1>2 DEF TypeOK, webVars
  <2>1. ASSUME NEW t \in Thread, NEW kind \in {"sync", "refresh"}, Start(t, kind)
        PROVE  TypeOK'
    <3>1. [req[t] EXCEPT !.kind = kind] \in Request
      <4>1. req[t] \in Request
        OBVIOUS
      <4>. QED BY ONLY <4>1, kind \in {"sync", "refresh"} DEF Request
    <3>2. req' \in [Thread -> Request] /\ Home[t] \in Process
      BY <2>1, <3>1 DEF Start
    <3>3. absent' \in [Thread \cup {Returner} -> SUBSET Key]
      BY <2>1 DEF Start
    <3>. QED BY <2>1, <3>2, <3>3 DEF Start
  <2>2. ASSUME NEW t \in Thread, NEW buckets \in SUBSET Status, List(t, buckets)
        PROVE  TypeOK'
    <3>1. CASE Complete(buckets)
      <4>1. [req[t] EXCEPT !.wanted = {k \in master : k[2] \in buckets}] \in Request
        <5> DEFINE seen == {k \in master : k[2] \in buckets}
                   q == req[t]
        <5>1. q \in Request /\ seen \subseteq Key
          OBVIOUS
        <5> HIDE DEF q, seen
        <5>2. [q EXCEPT !.wanted = seen] \in Request
          BY <5>1 DEF Request
        <5>. QED BY <5>2 DEF q, seen
      <4>2. req' = [req EXCEPT ![t] =
                     [req[t] EXCEPT !.wanted = {k \in master : k[2] \in buckets}]]
        BY <2>2, <3>1 DEF List
      <4>3. req' \in [Thread -> Request]
        BY <4>1, <4>2
      <4>. QED BY <2>2, <3>1, <4>3 DEF List
    <3>2. CASE ~Complete(buckets)
      BY <2>2, <3>2, EndType, UnlockType DEF List
    <3>. QED BY <3>1, <3>2
  <2>3. ASSUME NEW t \in Thread, Read(t)
        PROVE  TypeOK'
    <3>1. PksOf(rows) \subseteq Pk /\ Have \subseteq rows
      BY HaveRows DEF PksOf, Row
    <3>2. Stale(t) \in SUBSET Pk
      BY <3>1 DEF Stale, PksOf
    <3>3. Missing(t) \in SUBSET Key
      BY DEF Missing, Request
    <3>4. [req[t] EXCEPT !.stale = Stale(t), !.todo = Missing(t)] \in Request
      <4>1. req[t] \in Request
        OBVIOUS
      <4>. QED BY ONLY <3>2, <3>3, <4>1, ReadPlan
    <3>5. req' = [req EXCEPT ![t] = [req[t] EXCEPT !.stale = Stale(t),
                                                  !.todo = Missing(t)]]
      BY <2>3 DEF Read
    <3>6. req' \in [Thread -> Request]
      BY <3>4, <3>5
    <3>. QED BY <2>3, <3>6 DEF Read
  <2>4. ASSUME NEW t \in Thread, Delete(t)
        PROVE  TypeOK'
    BY <2>4 DEF Delete
  <2>5. ASSUME NEW t \in Thread, Create(t)
        PROVE  TypeOK'
    <3> DEFINE key == CHOOSE k \in req[t].todo : TRUE
    <3>1. key \in Key
      BY <2>5 DEF Create, Request
    <3> HIDE DEF key
    <3>2. PICK pk \in Unused :
            req' = [req EXCEPT ![t].todo = @ \ {key},
                               ![t].ins = @ \cup {[pk |-> pk, key |-> key]}]
      BY <2>5 DEF Create, key
    <3>3. [pk |-> pk, key |-> key] \in Row
      BY <3>1 DEF Row, Unused
    <3>4. [req[t] EXCEPT !.todo = @ \ {key},
                         !.ins = @ \cup {[pk |-> pk, key |-> key]}] \in Request
      BY <3>1, <3>3, CreateOne
    <3>5. req' \in [Thread -> Request]
      BY <3>2, <3>4
    <3>. QED BY <2>5, <3>5 DEF Create
  <2>6. ASSUME NEW t \in Thread, Finish(t)
        PROVE  TypeOK'
    <3>1. [req[t] EXCEPT !.drop = IF req[t].kind = "sync" THEN Orphans(t) ELSE {}]
            \in Request
      BY DEF Request, Orphans
    <3>2. req' \in [Thread -> Request]
      BY <2>6, <3>1 DEF Finish
    <3>. QED BY <2>6, <3>2, UnlockType DEF Finish
  <2>7. ASSUME NEW t \in Thread, Commit(t)
        PROVE  TypeOK'
    <3>1. rows' \subseteq Row /\ schedules' \subseteq Minion
      BY <2>7 DEF Commit, Request
    <3>. QED BY <2>7, <3>1, EndType DEF Commit, Overtake
  <2>8. ASSUME NEW t \in Thread, Fail(t)
        PROVE  TypeOK'
    BY <2>8, EndType, UnlockType DEF Fail
  <2>9. ASSUME NEW p \in Process, AgeOut(p) \/ Restart(p)
        PROVE  TypeOK'
    <3>1. CASE AgeOut(p)
      BY <3>1 DEF AgeOut
    <3>2. CASE Restart(p)
      BY <3>2, NoRequestType DEF Restart
    <3>. QED BY <2>9, <3>1, <3>2
  <2>10. CASE Truncate
    BY <2>10 DEF Truncate, Overtake
  <2>11. ASSUME NEW key \in Key, Insert(key)
         PROVE  TypeOK'
    <3>1. PICK pk \in Unused :
            er' = [er EXCEPT !.todo = @ \ {key},
                             !.ins = @ \cup {[pk |-> pk, key |-> key]}]
      BY <2>11 DEF Insert
    <3>2. [pk |-> pk, key |-> key] \in Row
      BY DEF Row, Unused
    <3>3. er' \in [busy : BOOLEAN, todo : SUBSET Key, ins : SUBSET Row]
      BY <3>1, <3>2
    <3>. QED BY <2>11, <3>3 DEF Insert
  <2>12. ASSUME NEW key \in Key, Raise(key)
         PROVE  TypeOK'
    BY <2>12 DEF Raise
  <2>13. CASE CommitEvents
    BY <2>13, NoRequestType DEF CommitEvents, Overtake
  <2>14. ASSUME NEW key \in Key,
                ChangeKeys(master \cup {key}) \/ ChangeKeys(master \ {key})
         PROVE  TypeOK'
    BY <2>14 DEF ChangeKeys
  <2>15. ASSUME NEW m \in Minion, StoreSchedule(m)
         PROVE  TypeOK'
    BY <2>15 DEF StoreSchedule
  <2>16. CASE Settle
    BY <2>16 DEF Settle
  <2>17. CASE UNCHANGED vars
    BY <2>17 DEF vars
  <2>18. ASSUME NEW t \in Thread, Work(t)
         PROVE  TypeOK'
    <3>1. Status \in SUBSET Status
      OBVIOUS
    <3>. QED BY ONLY <2>2, <2>3, <2>4, <2>5, <2>6, <2>7, <2>18, <3>1 DEF Work
  <2>. QED BY ONLY <1>2, <2>1, <2>2, <2>8, <2>9, <2>10, <2>11, <2>12, <2>13,
                   <2>14, <2>15, <2>16, <2>17, <2>18 DEF Next
<1>. QED BY <1>1, <1>2, PTL DEF Spec

-----------------------------------------------------------------------------
(* Rows that are, or may become, committed: no two share a primary key.    *)
AllRows == rows \cup er.ins \cup UNION {req[t].ins : t \in Thread}
PkUnique == \A a, b \in AllRows : a.pk = b.pk => a = b

(* What a request knows.  The keys it does not want were absent since it   *)
(* began; what a sync will delete, by primary key, is of such a key; a     *)
(* refresh creates anew every key it wants; the schedules it will drop are *)
(* of minions without an accepted key among those it wants.                *)
RequestInv(t) ==
  /\ pc[t] # "idle" => Key \ master \subseteq absent[t]
  /\ pc[t] \in {"read", "delete", "create", "commit"} =>
       Key \ req[t].wanted \subseteq absent[t]
  /\ pc[t] \in {"delete", "create", "commit"} =>
       IF req[t].kind = "sync"
       THEN \A r \in AllRows : r.pk \in req[t].stale => r.key \notin req[t].wanted
       ELSE req[t].wanted \subseteq req[t].todo \cup KeysOf(req[t].ins)
  /\ pc[t] = "commit" =>
       /\ req[t].todo = {}
       /\ \A m \in req[t].drop : <<m, "accepted">> \notin req[t].wanted

(* The same of event_return: it has inserted, or will, every key that has  *)
(* been there since it began; on PostgreSQL a failure leaves nothing.      *)
EventInv ==
  /\ er.busy => /\ Key \ master \subseteq absent[Returner]
                /\ Key \ absent[Returner] \subseteq er.todo \cup KeysOf(er.ins)
  /\ ~TruncateCommits /\ ~er.busy => er.ins = {}

IInv == TypeOK /\ PkUnique /\ EventInv /\ \A t \in Thread : RequestInv(t)

(* At most one row appears at a time, and under an unused primary key.     *)
LEMMA Growth ==
  ASSUME TypeOK, [Next]_vars
  PROVE  \A a \in AllRows' \ AllRows :
           a.pk \in Unused /\ \A b \in AllRows' \ AllRows : a = b
<1> USE KeyAssumption
<1>1. ASSUME NEW t \in Thread, Create(t)
      PROVE  \E row \in Row : row.pk \in Unused /\ AllRows' \subseteq AllRows \cup {row}
  <2> DEFINE key == CHOOSE k \in req[t].todo : TRUE
  <2>1. key \in Key
    BY <1>1 DEF Create, TypeOK, Request
  <2> HIDE DEF key
  <2>2. PICK pk \in Unused :
          req' = [req EXCEPT ![t].todo = @ \ {key},
                             ![t].ins = @ \cup {[pk |-> pk, key |-> key]}]
    BY <1>1 DEF Create, key
  <2> DEFINE row == [pk |-> pk, key |-> key]
  <2>3. row \in Row /\ row.pk = pk
    BY <2>1 DEF Row, Unused
  <2>4. req'[t] = [req[t] EXCEPT !.todo = @ \ {key}, !.ins = @ \cup {row}]
        /\ \A u \in Thread \ {t} : req'[u] = req[u]
    BY <2>2 DEF TypeOK
  <2>5. req[t] \in Request
    BY DEF TypeOK
  <2> HIDE DEF row
  <2>6. req'[t].ins = req[t].ins \cup {row}
    <3> DEFINE a == [req[t] EXCEPT !.todo = @ \ {key}]
    <3>1. a \in Request /\ a.ins = req[t].ins /\ req'[t] = [a EXCEPT !.ins = @ \cup {row}]
      BY ONLY <2>4, <2>5 DEF Request
    <3> HIDE DEF a
    <3>. QED BY ONLY <3>1 DEF Request
  <2>7. \A u \in Thread : req'[u].ins \subseteq req[u].ins \cup {row}
    BY <2>4, <2>6
  <2>8. rows' = rows /\ er' = er
    BY <1>1 DEF Create
  <2>. QED BY <2>3, <2>7, <2>8 DEF AllRows
<1>2. ASSUME NEW key \in Key, Insert(key)
      PROVE  \E row \in Row : row.pk \in Unused /\ AllRows' \subseteq AllRows \cup {row}
  <2>1. PICK pk \in Unused :
          er' = [er EXCEPT !.todo = @ \ {key},
                           !.ins = @ \cup {[pk |-> pk, key |-> key]}]
    BY <1>2 DEF Insert
  <2> DEFINE row == [pk |-> pk, key |-> key]
  <2>2. row \in Row /\ row.pk = pk
    BY DEF Row, Unused
  <2>3. er'.ins = er.ins \cup {row}
    BY <2>1 DEF TypeOK
  <2>4. rows' = rows /\ req' = req
    BY <1>2 DEF Insert, webVars
  <2> HIDE DEF row
  <2>. QED BY <2>2, <2>3, <2>4 DEF AllRows
<1>3. ASSUME NEW t \in Thread, Commit(t)
      PROVE  AllRows' \subseteq AllRows
  <2>1. \A u \in Thread : req'[u].ins \subseteq req[u].ins
    BY <1>3 DEF Commit, End, NoRequest, TypeOK
  <2>2. rows' \subseteq rows \cup req[t].ins /\ er' = er
    BY <1>3 DEF Commit
  <2>. QED BY <2>1, <2>2 DEF AllRows
<1>4. ASSUME CommitEvents
      PROVE  AllRows' \subseteq AllRows
  <2>1. rows' \subseteq rows \cup er.ins /\ er'.ins = {} /\ req' = req
    BY <1>4 DEF CommitEvents, NoEvent, webVars
  <2>. QED BY <2>1 DEF AllRows
<1>5. ASSUME /\ rows' \subseteq rows /\ er'.ins \subseteq er.ins
             /\ \A u \in Thread : req'[u].ins \subseteq req[u].ins
      PROVE  AllRows' \subseteq AllRows
  BY <1>5 DEF AllRows
<1>6. ASSUME NEW t \in Thread,
             \/ \E kind \in {"sync", "refresh"} : Start(t, kind)
             \/ \E buckets \in SUBSET Status : List(t, buckets)
             \/ Read(t) \/ Delete(t) \/ Finish(t) \/ Fail(t)
      PROVE  AllRows' \subseteq AllRows
  <2>1. rows' = rows /\ er' = er
    BY <1>6 DEF Start, List, Read, Delete, Finish, Fail
  <2>2. \A u \in Thread : req'[u].ins \subseteq req[u].ins
    <3> USE DEF TypeOK, Request
    <3>1. ASSUME NEW kind \in {"sync", "refresh"}, Start(t, kind)
          PROVE  \A u \in Thread : req'[u].ins \subseteq req[u].ins
      BY <3>1 DEF Start
    <3>2. ASSUME NEW buckets \in SUBSET Status, List(t, buckets)
          PROVE  \A u \in Thread : req'[u].ins \subseteq req[u].ins
      BY <3>2 DEF List, End, NoRequest
    <3>3. CASE Read(t)
      <4>1. /\ req'[t] = [req[t] EXCEPT !.stale = Stale(t), !.todo = Missing(t)]
            /\ \A u \in Thread \ {t} : req'[u] = req[u]
        BY <3>3 DEF Read
      <4>2. req'[t].ins = req[t].ins
        BY <4>1
      <4>. QED BY <4>1, <4>2
    <3>4. CASE Delete(t) \/ Finish(t) \/ Fail(t)
      BY <3>4 DEF Delete, Finish, Fail, End, NoRequest
    <3>. QED BY <1>6, <3>1, <3>2, <3>3, <3>4
  <2>. QED BY <1>5, <2>1, <2>2
<1>7. ASSUME NEW p \in Process, AgeOut(p) \/ Restart(p)
      PROVE  AllRows' \subseteq AllRows
  BY <1>5, <1>7 DEF AgeOut, Restart, NoRequest, TypeOK
<1>8. ASSUME \/ Truncate \/ Settle \/ \E key \in Key : Raise(key)
             \/ \E key \in Key : ChangeKeys(master \cup {key}) \/ ChangeKeys(master \ {key})
             \/ \E m \in Minion : StoreSchedule(m)
             \/ UNCHANGED vars
      PROVE  AllRows' \subseteq AllRows
  BY <1>5, <1>8 DEF Truncate, Settle, Raise, ChangeKeys, StoreSchedule, vars, webVars,
                    TypeOK
<1> DEFINE Grows == \/ AllRows' \subseteq AllRows
                   \/ \E row \in Row : row.pk \in Unused /\ AllRows' \subseteq AllRows \cup {row}
<1>9. Grows
  <2>1. ASSUME NEW t \in Thread, NEW kind \in {"sync", "refresh"}, Start(t, kind)
        PROVE  Grows
    BY <1>6, <2>1
  <2>2. ASSUME NEW t \in Thread, NEW buckets \in SUBSET Status, List(t, buckets)
        PROVE  Grows
    BY <1>6, <2>2
  <2>3. ASSUME NEW t \in Thread, Fail(t)
        PROVE  Grows
    BY <1>6, <2>3
  <2>4. ASSUME NEW t \in Thread, Work(t)
        PROVE  Grows
    <3>1. Status \in SUBSET Status
      OBVIOUS
    <3>. QED BY ONLY <1>1, <1>3, <1>6, <2>4, <3>1 DEF Work
  <2>5. ASSUME NEW key \in Key, ChangeKeys(master \cup {key}) \/ ChangeKeys(master \ {key})
        PROVE  Grows
    BY <1>8, <2>5
  <2>6. ASSUME NEW key \in Key, Insert(key) \/ Raise(key)
        PROVE  Grows
    BY <1>2, <1>8, <2>6
  <2>7. ASSUME NEW p \in Process, AgeOut(p) \/ Restart(p)
        PROVE  Grows
    BY <1>7, <2>7
  <2>8. ASSUME NEW m \in Minion, StoreSchedule(m)
        PROVE  Grows
    BY <1>8, <2>8
  <2>9. CASE Truncate \/ CommitEvents \/ Settle \/ UNCHANGED vars
    BY <1>4, <1>8, <2>9
  <2> HIDE DEF Grows
  <2>. QED BY <2>1, <2>2, <2>3, <2>4, <2>5, <2>6, <2>7, <2>8, <2>9 DEF Next
<1>. QED BY <1>9

(* The conditions that make the writers right are inductive.               *)
LEMMA WritersCorrect == Spec => []IInv
<1> USE KeyAssumption
<1>1. Init => IInv
  <2>1. Init => TypeOK
    <3>1. Init => req \in [Thread -> Request] /\ er \in [busy : BOOLEAN,
                                           todo : SUBSET Key, ins : SUBSET Row]
      BY NoRequestType DEF Init
    <3>. QED BY <3>1 DEF Init, TypeOK
  <2>2. Init => AllRows = {}
    BY DEF Init, AllRows, NoRequest, NoEvent
  <2>. QED BY <2>1, <2>2 DEF Init, IInv, PkUnique, EventInv, RequestInv, NoEvent
<1>2. ASSUME IInv, TypeOK', [Next]_vars
      PROVE  IInv'
  <2>1. TypeOK /\ PkUnique /\ EventInv /\ \A t \in Thread : RequestInv(t)
    BY <1>2 DEF IInv
  <2>2. \A a \in AllRows' \ AllRows :
           a.pk \in Unused /\ \A b \in AllRows' \ AllRows : a = b
    BY <1>2, <2>1, Growth
  <2>3. /\ \A a \in AllRows : a.pk \notin Unused
        /\ \A t \in Thread : req[t].stale \cap Unused = {}
        /\ \A a \in rows : a.pk \notin Unused
    BY DEF AllRows, Unused, PksOf
  <2>4. PkUnique'
    BY <2>1, <2>2, <2>3 DEF PkUnique
  \* What a thread keeps while it, or another, does something else.
  <2>5. ASSUME NEW u \in Thread, req'[u] = req[u], pc'[u] = pc[u],
               absent[u] \subseteq absent'[u],
               pc[u] # "idle" => Key \ master' \subseteq absent'[u]
        PROVE  RequestInv(u)'
    BY <2>1, <2>2, <2>3, <2>5 DEF RequestInv
  <2>6. ASSUME NEW t \in Thread,
               /\ \A u \in Thread \ {t} : req'[u] = req[u] /\ pc'[u] = pc[u]
                                          /\ absent'[u] = absent[u]
               /\ absent'[Returner] = absent[Returner]
               /\ master' = master /\ er' = er,
               RequestInv(t)'
        PROVE  IInv'
    <3>1. \A u \in Thread \ {t} : RequestInv(u)'
      BY <2>1, <2>5, <2>6 DEF RequestInv
    <3>2. EventInv'
      BY <2>1, <2>6 DEF EventInv
    <3>. QED BY <1>2, <2>4, <2>6, <3>1, <3>2 DEF IInv
  <2>7. ASSUME NEW t \in Thread, NEW kind \in {"sync", "refresh"}, Start(t, kind)
        PROVE  IInv'
    <3>1. RequestInv(t)'
      BY <2>1, <2>7 DEF Start, RequestInv, TypeOK
    <3>. QED BY <2>1, <2>6, <2>7, <3>1 DEF Start, TypeOK
  <2>8. ASSUME NEW t \in Thread, NEW buckets \in SUBSET Status, List(t, buckets)
        PROVE  IInv'
    <3>1. CASE Complete(buckets)
      <4>0. {k \in master : k[2] \in Status} = master
        BY <2>1 DEF TypeOK, Key
      <4>1. /\ req'[t].wanted = master
            /\ pc'[t] = "read" /\ pc[t] = "list"
            /\ master' = master /\ absent' = absent
        <5>1. /\ buckets = Status
              /\ req' = [req EXCEPT ![t].wanted = {k \in master : k[2] \in buckets}]
              /\ pc' = [pc EXCEPT ![t] = "read"] /\ pc[t] = "list"
              /\ UNCHANGED <<master, absent>>
          BY <2>8, <3>1 DEF List, Complete
        <5>. QED BY <2>1, <4>0, <5>1 DEF TypeOK, Request
      <4>2. RequestInv(t)'
        BY <2>1, <4>1 DEF RequestInv
      <4>. QED BY <2>1, <2>6, <2>8, <3>1, <4>2 DEF List, TypeOK
    <3>2. CASE ~Complete(buckets)
      <4>1. RequestInv(t)'
        BY <2>1, <2>8, <3>2 DEF List, End, RequestInv, TypeOK
      <4>. QED BY <2>1, <2>6, <2>8, <3>2, <4>1 DEF List, End, TypeOK
    <3>. QED BY <3>1, <3>2
  <2>9. ASSUME NEW t \in Thread, Read(t)
        PROVE  IInv'
    <3>0. Have \subseteq rows
      BY HaveRows
    <3>1. Stale(t) \in SUBSET Pk /\ Stale(t) \subseteq PksOf(rows)
      BY <2>1, <3>0 DEF Stale, PksOf, TypeOK, Row
    <3>2. Missing(t) \in SUBSET Key
      BY <2>1 DEF Missing, TypeOK, Request
    <3>3. /\ req'[t] = [req[t] EXCEPT !.stale = Stale(t), !.todo = Missing(t)]
          /\ \A u \in Thread \ {t} : req'[u] = req[u] /\ pc'[u] = pc[u]
          /\ pc[t] = "read" /\ pc'[t] = "delete"
          /\ UNCHANGED <<master, er, absent>>
      BY <2>1, <2>9 DEF Read, TypeOK
    <3>4. req[t] \in Request
      BY <2>1 DEF TypeOK
    <3>5. /\ req'[t].kind = req[t].kind /\ req'[t].wanted = req[t].wanted
          /\ req'[t].stale = Stale(t) /\ req'[t].todo = Missing(t)
          /\ req'[t].ins = req[t].ins
      <4> DEFINE a == [req[t] EXCEPT !.stale = Stale(t)]
      <4>1. /\ a \in Request /\ req'[t] = [a EXCEPT !.todo = Missing(t)]
            /\ a.kind = req[t].kind /\ a.wanted = req[t].wanted
            /\ a.stale = Stale(t) /\ a.ins = req[t].ins
        BY ONLY <3>1, <3>3, <3>4 DEF Request
      <4> HIDE DEF a
      <4>. QED BY ONLY <4>1 DEF Request
    <3>6. \A a \in AllRows' : a.pk \in Stale(t) => a \in AllRows
      BY <2>2, <2>3, <3>1 DEF PksOf
    <3>7. req[t].kind = "sync" =>
            \A a \in AllRows : a.pk \in Stale(t) => a.key \notin req[t].wanted
      BY <2>1, <3>0 DEF Stale, PksOf, PkUnique, AllRows
    <3>8. req[t].kind \in {"sync", "refresh"}
      BY <3>4 DEF Request
    <3>9. RequestInv(t)'
      BY <2>1, <3>3, <3>5, <3>6, <3>7, <3>8 DEF RequestInv, Missing
    <3>. QED BY <2>6, <3>3, <3>9
  <2>10. ASSUME NEW t \in Thread, Delete(t)
         PROVE  IInv'
    <3>1. RequestInv(t)'
      BY <2>1, <2>2, <2>3, <2>10 DEF Delete, RequestInv, TypeOK
    <3>. QED BY <2>1, <2>6, <2>10, <3>1 DEF Delete, TypeOK
  <2>11. ASSUME NEW t \in Thread, Create(t)
         PROVE  IInv'
    <3> DEFINE key == CHOOSE k \in req[t].todo : TRUE
    <3>1. key \in Key /\ pc[t] = "create" /\ pc' = pc
          /\ UNCHANGED <<master, er, absent>>
      BY <2>1, <2>11 DEF Create, TypeOK, Request
    <3> HIDE DEF key
    <3>2. PICK pk \in Unused :
            req' = [req EXCEPT ![t].todo = @ \ {key},
                               ![t].ins = @ \cup {[pk |-> pk, key |-> key]}]
      BY <2>11 DEF Create, key
    <3> DEFINE row == [pk |-> pk, key |-> key]
    <3>3. row \in Row /\ row.key = key
      BY <3>1 DEF Row, Unused
    <3>4. /\ req'[t] = [req[t] EXCEPT !.todo = @ \ {key}, !.ins = @ \cup {row}]
          /\ \A u \in Thread \ {t} : req'[u] = req[u]
          /\ req[t] \in Request
      BY <2>1, <3>2 DEF TypeOK
    <3>5. /\ req'[t].kind = req[t].kind /\ req'[t].wanted = req[t].wanted
          /\ req'[t].stale = req[t].stale
          /\ req'[t].todo = req[t].todo \ {key} /\ req'[t].ins = req[t].ins \cup {row}
      <4> DEFINE a == [req[t] EXCEPT !.todo = @ \ {key}]
      <4>1. /\ a \in Request /\ req'[t] = [a EXCEPT !.ins = @ \cup {row}]
            /\ a.kind = req[t].kind /\ a.wanted = req[t].wanted
            /\ a.stale = req[t].stale /\ a.todo = req[t].todo \ {key}
            /\ a.ins = req[t].ins
        BY ONLY <3>4 DEF Request
      <4> HIDE DEF a
      <4>. QED BY ONLY <4>1 DEF Request
    <3> HIDE DEF row
    <3>6. RequestInv(t)'
      BY <2>1, <2>2, <2>3, <3>1, <3>3, <3>5 DEF RequestInv, KeysOf
    <3>. QED BY <2>6, <3>1, <3>4, <3>6
  <2>12. ASSUME NEW t \in Thread, Finish(t)
         PROVE  IInv'
    <3>1. /\ req'[t].kind = req[t].kind /\ req'[t].wanted = req[t].wanted
          /\ req'[t].stale = req[t].stale /\ req[t].todo = {} /\ req'[t].todo = {}
          /\ req'[t].ins = req[t].ins /\ req'[t].drop \subseteq Orphans(t)
          /\ pc[t] = "create" /\ pc'[t] = "commit"
          /\ UNCHANGED <<master, er, absent>>
      BY <2>1, <2>12 DEF Finish, TypeOK, Request
    <3>2. \A m \in Orphans(t) : <<m, "accepted">> \notin req[t].wanted
      BY <2>1 DEF Orphans, AcceptedIn, TypeOK
    <3>3. RequestInv(t)'
      BY <2>1, <2>2, <2>3, <3>1, <3>2 DEF RequestInv
    <3>. QED BY <2>1, <2>6, <2>12, <3>1, <3>3 DEF Finish, TypeOK
  <2>13. ASSUME NEW t \in Thread, Commit(t) \/ Fail(t)
         PROVE  IInv'
    <3>1. RequestInv(t)'
      BY <2>1, <2>13 DEF Commit, Fail, End, RequestInv, TypeOK
    <3>. QED BY <2>1, <2>6, <2>13, <3>1 DEF Commit, Fail, End, TypeOK
  \* The rest concerns no thread, or all of a worker's.
  <2>14. ASSUME NEW p \in Process, AgeOut(p)
         PROVE  IInv'
    <3>1. UNCHANGED <<master, er, req, pc, absent>>
      BY <2>14 DEF AgeOut
    <3>2. \A u \in Thread : RequestInv(u)'
      BY <2>1, <2>5, <3>1 DEF RequestInv
    <3>. QED BY <1>2, <2>1, <2>4, <3>1, <3>2 DEF IInv, EventInv
  <2>15. ASSUME NEW p \in Process, Restart(p)
         PROVE  IInv'
    <3>1. ASSUME NEW u \in Thread
          PROVE  RequestInv(u)'
      <4>1. CASE Home[u] = p
        BY <2>15, <4>1 DEF Restart, RequestInv
      <4>2. CASE Home[u] # p
        <5>1. req'[u] = req[u] /\ pc'[u] = pc[u] /\ absent'[u] = absent[u]
              /\ master' = master
          BY <2>1, <2>15, <4>2 DEF Restart, TypeOK
        <5>. QED BY <2>1, <2>5, <5>1 DEF RequestInv
      <4>. QED BY <4>1, <4>2
    <3>2. EventInv'
      BY <2>1, <2>15 DEF Restart, EventInv
    <3>. QED BY <1>2, <2>4, <3>1, <3>2 DEF IInv
  <2>16. ASSUME /\ UNCHANGED <<req, pc, master>>
                /\ \A u \in Thread : absent'[u] = absent[u]
         PROVE  \A u \in Thread : RequestInv(u)'
    BY <2>1, <2>5, <2>16 DEF RequestInv
  <2>17. CASE Truncate
    <3>1. \A u \in Thread : RequestInv(u)'
      BY <2>1, <2>16, <2>17 DEF Truncate, webVars, TypeOK
    <3>2. EventInv'
      BY <2>1, <2>17 DEF Truncate, EventInv, TypeOK
    <3>. QED BY <1>2, <2>4, <3>1, <3>2 DEF IInv
  <2>18. ASSUME NEW key \in Key, Insert(key)
         PROVE  IInv'
    <3>1. \A u \in Thread : RequestInv(u)'
      BY <2>1, <2>16, <2>18 DEF Insert, webVars
    <3>2. PICK pk \in Unused :
            er' = [er EXCEPT !.todo = @ \ {key},
                             !.ins = @ \cup {[pk |-> pk, key |-> key]}]
      BY <2>18 DEF Insert
    <3> DEFINE row == [pk |-> pk, key |-> key]
    <3>3. /\ er'.busy = er.busy /\ er'.todo = er.todo \ {key}
          /\ er'.ins = er.ins \cup {row} /\ row.key = key
      BY <2>1, <3>2 DEF TypeOK
    <3> HIDE DEF row
    <3>4. er.busy /\ UNCHANGED <<master, absent>>
      BY <2>18 DEF Insert
    <3>5. EventInv'
      BY <2>1, <3>3, <3>4 DEF EventInv, KeysOf
    <3>. QED BY <1>2, <2>4, <3>1, <3>5 DEF IInv
  <2>19. ASSUME NEW key \in Key, Raise(key)
         PROVE  IInv'
    <3>1. \A u \in Thread : RequestInv(u)'
      BY <2>1, <2>16, <2>19 DEF Raise, webVars, TypeOK
    <3>2. EventInv'
      BY <2>1, <2>19 DEF Raise, EventInv
    <3>. QED BY <1>2, <2>4, <3>1, <3>2 DEF IInv
  <2>20. CASE CommitEvents
    <3>1. \A u \in Thread : RequestInv(u)'
      BY <2>1, <2>16, <2>20 DEF CommitEvents, webVars, TypeOK
    <3>2. EventInv'
      BY <2>1, <2>20 DEF CommitEvents, EventInv, NoEvent
    <3>. QED BY <1>2, <2>4, <3>1, <3>2 DEF IInv
  <2>21. ASSUME NEW keys \in SUBSET Key, ChangeKeys(keys)
         PROVE  IInv'
    <3>1. ASSUME NEW u \in Thread
          PROVE  RequestInv(u)'
      <4>1. UNCHANGED <<req, pc>> /\ master' = keys
        BY <2>21 DEF ChangeKeys, webVars
      <4>2. CASE pc[u] = "idle"
        BY <4>1, <4>2 DEF RequestInv
      <4>3. CASE pc[u] # "idle"
        <5>1. absent'[u] = absent[u] \cup (master \ keys)
          BY <2>1, <2>21, <4>3 DEF ChangeKeys, Working, TypeOK
        <5>2. Key \ master' \subseteq absent'[u]
          BY <2>1, <4>1, <4>3, <5>1 DEF RequestInv
        <5>. QED BY <2>5, <4>1, <5>1, <5>2
      <4>. QED BY <4>2, <4>3
    <3>2. EventInv'
      BY <2>1, <2>21 DEF ChangeKeys, Working, EventInv, TypeOK
    <3>. QED BY <1>2, <2>4, <3>1, <3>2 DEF IInv
  <2>22. ASSUME Settle \/ UNCHANGED vars \/ \E m \in Minion : StoreSchedule(m)
         PROVE  IInv'
    <3>1. UNCHANGED <<master, er, req, pc, absent>>
      BY <2>22 DEF Settle, StoreSchedule, vars, webVars
    <3>2. \A u \in Thread : RequestInv(u)'
      BY <2>16, <3>1
    <3>. QED BY <1>2, <2>1, <2>4, <3>1, <3>2 DEF IInv, EventInv
  <2>23. ASSUME NEW t \in Thread, Work(t)
         PROVE  IInv'
    <3>1. Status \in SUBSET Status
      OBVIOUS
    <3>. QED BY ONLY <2>8, <2>9, <2>10, <2>11, <2>12, <2>13, <2>23, <3>1 DEF Work
  <2>24. ASSUME NEW key \in Key, ChangeKeys(master \cup {key}) \/ ChangeKeys(master \ {key})
         PROVE  IInv'
    BY <2>1, <2>21, <2>24 DEF TypeOK
  <2>25. ASSUME NEW m \in Minion, StoreSchedule(m)
         PROVE  IInv'
    BY <2>22, <2>25
  <2>. QED BY ONLY <1>2, <2>7, <2>8, <2>13, <2>14, <2>15, <2>17, <2>18, <2>19,
                   <2>20, <2>22, <2>23, <2>24, <2>25 DEF Next
<1>. QED BY <1>1, <1>2, TypeCorrect, PTL DEF Spec

-----------------------------------------------------------------------------
(* Steps that are not the end of a transaction leave what is committed;    *)
(* on MySQL, but for TRUNCATE.                                             *)
LEMMA Commits ==
  ASSUME TypeOK, [Next]_vars,
         ~(\E t \in Thread : Commit(t)), ~CommitEvents
  PROVE  /\ rows' = rows \/ (TruncateCommits /\ Truncate)
         /\ schedules \subseteq schedules'
<1> DEFINE Same == /\ rows' = rows \/ (TruncateCommits /\ Truncate)
                   /\ schedules \subseteq schedules'
<1>1. ASSUME NEW t \in Thread, NEW kind \in {"sync", "refresh"}, Start(t, kind)
      PROVE  Same
  BY <1>1 DEF Start
<1>2. ASSUME NEW t \in Thread, NEW buckets \in SUBSET Status, List(t, buckets)
      PROVE  Same
  BY <1>2 DEF List
<1>3. ASSUME NEW t \in Thread, Work(t)
      PROVE  Same
  BY <1>3 DEF Work, List, Read, Delete, Create, Finish
<1>4. ASSUME NEW t \in Thread, Fail(t)
      PROVE  Same
  BY <1>4 DEF Fail
<1>5. ASSUME NEW p \in Process, AgeOut(p) \/ Restart(p)
      PROVE  Same
  BY <1>5 DEF AgeOut, Restart
<1>6. ASSUME Truncate \/ Settle \/ UNCHANGED vars
      PROVE  Same
  BY <1>6 DEF Truncate, Settle, vars
<1>7. ASSUME NEW key \in Key, Insert(key) \/ Raise(key)
      PROVE  Same
  BY <1>7 DEF Insert, Raise
<1>8. ASSUME NEW key \in Key, ChangeKeys(master \cup {key}) \/ ChangeKeys(master \ {key})
      PROVE  Same
  BY <1>8 DEF ChangeKeys
<1>9. ASSUME NEW m \in Minion, StoreSchedule(m)
      PROVE  Same
  BY <1>9 DEF StoreSchedule
<1> HIDE DEF Same
<1>10. Same
  BY <1>1, <1>2, <1>3, <1>4, <1>5, <1>6, <1>7, <1>8, <1>9 DEF Next
<1>. QED BY <1>10 DEF Same

(* A key leaves salt_keys only by the hand of a writer that worked while   *)
(* the master lacked it, or by MySQL's TRUNCATE - for any number of        *)
(* workers, threads and kinds of request, whatever part of the key list    *)
(* the master answers with, and whoever fails (sync_keys, get_keys,        *)
(* event_return).                                                          *)
THEOREM PresentCorrect == Spec => PresentKeysStay
<1> USE KeyAssumption
<1> DEFINE Excused ==
      \/ \A k \in KeysOf(rows) \ KeysOf(rows') :
           \E a \in Thread \cup {Returner} : Ends(a) /\ k \in absent[a]
      \/ TruncateCommits /\ Truncate
<1>1. ASSUME IInv, [Next]_vars
      PROVE  [Excused]_vars
  <2>1. TypeOK /\ PkUnique /\ EventInv /\ \A t \in Thread : RequestInv(t)
    BY <1>1 DEF IInv
  <2>2. ASSUME NEW t \in Thread, Commit(t)
        PROVE  Excused
    <3>1. Ends(t)
      BY <2>1, <2>2 DEF Commit, End, Ends, TypeOK
    <3>2. /\ rows' = {r \in rows : r.pk \notin req[t].stale} \cup req[t].ins
          /\ pc[t] = "commit"
      BY <2>2 DEF Commit
    <3>3. KeysOf(rows) \subseteq Key
      BY <2>1 DEF TypeOK, KeysOf, Row
    <3>4. KeysOf(rows) \ KeysOf(rows') \subseteq Key \ req[t].wanted
      <4>1. CASE req[t].kind = "sync"
        BY <2>1, <3>2, <3>3, <4>1 DEF RequestInv, AllRows, KeysOf
      <4>2. CASE req[t].kind # "sync"
        <5>1. req[t].wanted \subseteq KeysOf(req[t].ins)
          BY <2>1, <3>2, <4>2 DEF RequestInv
        <5>. QED BY <3>2, <3>3, <5>1 DEF KeysOf
      <4>. QED BY <4>1, <4>2
    <3>5. Key \ req[t].wanted \subseteq absent[t]
      BY <2>1, <3>2 DEF RequestInv
    <3>. QED BY <3>1, <3>4, <3>5
  <2>3. CASE CommitEvents
    <3>1. CASE TruncateCommits
      <4>1. rows \subseteq rows'
        BY <2>3, <3>1 DEF CommitEvents
      <4>. QED BY <4>1 DEF KeysOf
    <3>2. CASE ~TruncateCommits
      <4>1. er.busy /\ er.todo = {} /\ rows' = er.ins /\ ~er'.busy
        BY <2>1, <2>3, <3>2 DEF CommitEvents, EventInv, NoEvent
      <4>2. Ends(Returner)
        BY <4>1 DEF Ends
      <4>3. KeysOf(rows) \subseteq Key
        BY <2>1 DEF TypeOK, KeysOf, Row
      <4>4. KeysOf(rows) \ KeysOf(rows') \subseteq absent[Returner]
        BY <2>1, <4>1, <4>3 DEF EventInv
      <4>. QED BY <4>2, <4>4
    <3>. QED BY <3>1, <3>2
  <2>4. CASE ~(\E t \in Thread : Commit(t)) /\ ~CommitEvents
    <3>1. rows' = rows \/ (TruncateCommits /\ Truncate)
      BY <1>1, <2>1, <2>4, Commits
    <3>. QED BY <3>1 DEF KeysOf
  <2>. QED BY <2>2, <2>3, <2>4
<1>2. Spec => [][Excused]_vars
  BY <1>1, WritersCorrect, PTL DEF Spec
<1>. QED BY <1>2 DEF PresentKeysStay

(* A minion loses its schedules only to a sync that worked while it had no *)
(* accepted key, on both databases (sync_keys).                            *)
THEOREM SchedulesCorrect == Spec => LiveSchedulesStay
<1> USE KeyAssumption
<1> DEFINE Excused ==
      \A m \in schedules \ schedules' :
        \E t \in Thread : Ends(t) /\ <<m, "accepted">> \in absent[t]
<1>1. ASSUME IInv, [Next]_vars
      PROVE  [Excused]_vars
  <2>1. TypeOK /\ \A t \in Thread : RequestInv(t)
    BY <1>1 DEF IInv
  <2>2. ASSUME NEW t \in Thread, Commit(t)
        PROVE  Excused
    <3>1. Ends(t)
      BY <2>1, <2>2 DEF Commit, End, Ends, TypeOK
    <3>2. schedules \ schedules' \subseteq req[t].drop /\ pc[t] = "commit"
      BY <2>2 DEF Commit
    <3>3. \A m \in schedules : <<m, "accepted">> \in Key
      BY <2>1 DEF TypeOK, Key
    <3>. QED BY <2>1, <3>1, <3>2, <3>3 DEF RequestInv
  <2>3. CASE CommitEvents
    BY <2>3 DEF CommitEvents
  <2>4. CASE ~(\E t \in Thread : Commit(t)) /\ ~CommitEvents
    BY <1>1, <2>1, <2>4, Commits
  <2>. QED BY <2>2, <2>3, <2>4
<1>2. Spec => [][Excused]_vars
  BY <1>1, WritersCorrect, PTL DEF Spec
<1>. QED BY <1>2 DEF LiveSchedulesStay

-----------------------------------------------------------------------------
(* What a writer that nobody has overtaken makes of the table.             *)
AtTheTable == {"delete", "create", "commit"}

Once(ins, todo) ==
  /\ \A a, b \in ins : a.key = b.key => a = b
  /\ \A a \in ins : a.key \notin todo

(* The plan still fits the committed rows: a sync deletes a row of each    *)
(* key it does not want, and creates those it wants that have none; a      *)
(* refresh deletes every row.                                              *)
Current(t) ==
  IF req[t].kind = "sync"
  THEN /\ \A r \in Have : r.key \notin req[t].wanted => r.pk \in req[t].stale
       /\ req[t].wanted \subseteq KeysOf(rows) \cup req[t].todo \cup KeysOf(req[t].ins)
       /\ \A r \in rows : r.key \notin req[t].todo \cup KeysOf(req[t].ins)
  ELSE PksOf(rows) \subseteq req[t].stale

PlanInv(t) ==
  /\ pc[t] \notin AtTheTable => req[t].ins = {}
  /\ pc[t] \in AtTheTable =>
       /\ Once(req[t].ins, req[t].todo)
       /\ req[t].todo \cup KeysOf(req[t].ins) \subseteq req[t].wanted
       /\ t \notin overtaken => Current(t)

(* event_return creates each key once, on MySQL in the table it emptied.   *)
RefillInv ==
  /\ Once(er.ins, er.todo)
  /\ TruncateCommits /\ (er.busy \/ er.ins # {}) /\ Returner \notin overtaken => rows = {}

CopyInv == RefillInv /\ \A t \in Thread : PlanInv(t)

(* Holding a list, and which. *)
Holding == {"read", "delete", "create", "commit"}
SeenIsThis ==
  /\ \A t \in Thread :
       Seen[t] = IF pc[t] \in Holding THEN {req[t].wanted} ELSE {}
  /\ Seen[Returner] = IF er.busy \/ er.ins # {} THEN {er.todo \cup KeysOf(er.ins)} ELSE {}

LEMMA SeenIs == SeenIsThis /\ SeenIsThis'
BY KeyAssumption DEF Seen, SeenIsThis, Holding

(* Whoever changes the committed rows overtakes the others.                *)
LEMMA Overtaken ==
  ASSUME NEW a \in Thread \cup {Returner}, Overtake(a)
  PROVE  /\ \A u \in Thread \ {a} : /\ u \in overtaken => u \in overtaken'
                                    /\ pc[u] \in AtTheTable /\ rows' # rows => u \in overtaken'
         /\ a # Returner => /\ Returner \in overtaken => Returner \in overtaken'
                            /\ (er.busy \/ er.ins # {}) /\ rows' # rows
                                 => Returner \in overtaken'
         /\ a \notin overtaken'
<1>1. \A u \in Thread : pc[u] \in AtTheTable => Seen[u] # {}
  BY SeenIs DEF SeenIsThis, Holding, AtTheTable
<1>2. er.busy \/ er.ins # {} => Seen[Returner] # {}
  BY SeenIs DEF SeenIsThis
<1>. QED BY <1>1, <1>2 DEF Overtake

LEMMA CopyCorrect == Spec => []CopyInv
<1> USE KeyAssumption
<1>1. Init => CopyInv
  BY DEF Init, CopyInv, RefillInv, PlanInv, Once, AtTheTable, NoRequest, NoEvent
<1>2. ASSUME IInv, CopyInv, [Next]_vars
      PROVE  CopyInv'
  <2>1. /\ TypeOK /\ PkUnique /\ EventInv /\ RefillInv
        /\ \A t \in Thread : RequestInv(t) /\ PlanInv(t)
    BY <1>2 DEF IInv, CopyInv
  \* What a writer keeps while it does nothing.
  <2>2. ASSUME NEW u \in Thread, pc'[u] = pc[u], req'[u] = req[u], rows' = rows,
               u \in overtaken => u \in overtaken'
        PROVE  PlanInv(u)'
    <3>1. Have' = Have
      BY <2>2 DEF Have, KeysOf
    <3>. QED BY <2>1, <2>2, <3>1 DEF PlanInv, Current
  <2>3. ASSUME er' = er, rows' = rows, Returner \in overtaken => Returner \in overtaken'
        PROVE  RefillInv'
    BY <2>1, <2>3 DEF RefillInv
  <2>4. ASSUME NEW u \in Thread, pc'[u] = pc[u], req'[u] = req[u],
               NEW a \in (Thread \cup {Returner}) \ {u}, Overtake(a)
        PROVE  PlanInv(u)'
    <3>1. CASE rows' = rows
      BY <2>2, <2>4, <3>1, Overtaken
    <3>2. CASE rows' # rows
      <4>1. pc[u] \in AtTheTable => u \in overtaken'
        BY <2>4, <3>2, Overtaken
      <4>. QED BY <2>1, <2>4, <4>1 DEF PlanInv
    <3>. QED BY <3>1, <3>2
  \* One thread moves, and writes nothing yet.
  <2>5. ASSUME NEW t \in Thread, rows' = rows, er' = er, PlanInv(t)',
               \A u \in Thread \ {t} : pc'[u] = pc[u] /\ req'[u] = req[u],
               overtaken \ {t} \subseteq overtaken'
        PROVE  CopyInv'
    <3>1. \A u \in Thread \ {t} : PlanInv(u)'
      BY <2>2, <2>5
    <3>2. RefillInv'
      BY <2>3, <2>5
    <3>. QED BY <2>5, <3>1, <3>2 DEF CopyInv
  <2>6. ASSUME NEW t \in Thread, End(t), rows' = rows, er' = er,
               overtaken \ {t} \subseteq overtaken'
        PROVE  CopyInv'
    <3>1. /\ pc'[t] = "idle" /\ req'[t].ins = {}
          /\ \A u \in Thread \ {t} : pc'[u] = pc[u] /\ req'[u] = req[u]
      BY <2>1, <2>6 DEF End, TypeOK, NoRequest
    <3>2. PlanInv(t)'
      BY <3>1 DEF PlanInv, AtTheTable
    <3>. QED BY <2>5, <2>6, <3>1, <3>2
  <2>7. ASSUME NEW t \in Thread, NEW kind \in {"sync", "refresh"}, Start(t, kind)
        PROVE  CopyInv'
    <3>1. /\ rows' = rows /\ er' = er /\ overtaken' = overtaken
          /\ pc[t] = "idle" /\ pc'[t] = "list" /\ req'[t].ins = req[t].ins
          /\ \A u \in Thread \ {t} : pc'[u] = pc[u] /\ req'[u] = req[u]
      BY <2>1, <2>7 DEF Start, TypeOK, Request
    <3>2. PlanInv(t)'
      BY <2>1, <3>1 DEF PlanInv, AtTheTable
    <3>. QED BY <2>5, <3>1, <3>2
  <2>8. ASSUME NEW t \in Thread, NEW buckets \in SUBSET Status, List(t, buckets)
        PROVE  CopyInv'
    <3>1. rows' = rows /\ er' = er /\ overtaken' = overtaken \ {t}
      BY <2>8 DEF List
    <3>2. CASE Complete(buckets)
      <4>1. /\ pc[t] = "list" /\ pc'[t] = "read" /\ req'[t].ins = req[t].ins
            /\ \A u \in Thread \ {t} : pc'[u] = pc[u] /\ req'[u] = req[u]
        BY <2>1, <2>8, <3>2 DEF List, TypeOK, Request
      <4>2. PlanInv(t)'
        BY <2>1, <4>1 DEF PlanInv, AtTheTable
      <4>. QED BY <2>5, <3>1, <4>1, <4>2
    <3>3. CASE ~Complete(buckets)
      BY <2>6, <2>8, <3>1, <3>3 DEF List
    <3>. QED BY <3>2, <3>3
  <2>9. ASSUME NEW t \in Thread, Read(t)
        PROVE  CopyInv'
    <3>1. /\ req'[t] = [req[t] EXCEPT !.stale = Stale(t), !.todo = Missing(t)]
          /\ \A u \in Thread \ {t} : pc'[u] = pc[u] /\ req'[u] = req[u]
          /\ pc[t] = "read" /\ pc'[t] = "delete"
          /\ UNCHANGED <<rows, er, overtaken>>
      BY <2>1, <2>9 DEF Read, TypeOK
    <3>2. req[t] \in Request /\ req[t].ins = {} /\ rows \subseteq Row
      BY <2>1, <3>1 DEF TypeOK, PlanInv, AtTheTable
    <3>3. Have \subseteq rows
      BY HaveRows
    <3>4. Stale(t) \in SUBSET Pk /\ Missing(t) \in SUBSET Key
      BY <3>2, <3>3 DEF Stale, Missing, PksOf, Row, Request
    <3>5. /\ req'[t].kind = req[t].kind /\ req'[t].wanted = req[t].wanted
          /\ req'[t].stale = Stale(t) /\ req'[t].todo = Missing(t) /\ req'[t].ins = {}
      <4> DEFINE q == req[t]
                 n == req'[t]
                 stale == Stale(t)
                 todo == Missing(t)
      <4>1. /\ q \in Request /\ q.ins = {} /\ stale \in SUBSET Pk /\ todo \in SUBSET Key
            /\ n = [q EXCEPT !.stale = stale, !.todo = todo]
        BY ONLY <3>1, <3>2, <3>4
      <4> HIDE DEF q, n, stale, todo
      <4>2. n.kind = q.kind /\ n.wanted = q.wanted /\ n.stale = stale /\ n.todo = todo
            /\ n.ins = {}
        <5> DEFINE a == [q EXCEPT !.stale = stale]
        <5>1. a \in Request /\ n = [a EXCEPT !.todo = todo]
          BY ONLY <4>1 DEF Request
        <5>2. a.kind = q.kind /\ a.wanted = q.wanted /\ a.stale = stale /\ a.ins = q.ins
          BY ONLY <4>1 DEF Request
        <5> HIDE DEF a
        <5>. QED BY ONLY <4>1, <5>1, <5>2 DEF Request
      <4>. QED BY ONLY <4>2 DEF q, n, stale, todo
    <3>6. KeysOf(Have) = KeysOf(rows) /\ KeysOf({}) = {} /\ Have' = Have
      <4>1. Have' = Have
        BY <3>1 DEF Have, KeysOf
      <4>2. KeysOf(Have) = KeysOf(rows) /\ KeysOf({}) = {}
        BY HaveRows DEF KeysOf
      <4>. QED BY <4>1, <4>2
    <3>7. Missing(t) \subseteq req[t].wanted
      BY DEF Missing
    <3>8. Current(t)'
      <4>1. CASE req[t].kind = "sync"
        <5>1. Missing(t) = req[t].wanted \ KeysOf(rows)
          BY <3>6, <4>1 DEF Missing
        <5>2. \A r \in rows : r.key \notin Missing(t)
          BY <5>1 DEF KeysOf
        <5>3. \A r \in Have : r.key \notin req[t].wanted => r.pk \in Stale(t)
          BY <4>1 DEF Stale, PksOf
        <5>. QED BY ONLY <3>1, <3>5, <3>6, <4>1, <5>1, <5>2, <5>3 DEF Current, KeysOf
      <4>2. CASE req[t].kind # "sync"
        <5>1. Stale(t) = PksOf(rows)
          BY <3>2, <4>2 DEF Stale, Request
        <5>. QED BY ONLY <3>1, <3>5, <4>2, <5>1 DEF Current, PksOf
      <4>. QED BY <4>1, <4>2
    <3>9. PlanInv(t)'
      BY ONLY <3>1, <3>5, <3>6, <3>7, <3>8 DEF PlanInv, Once, AtTheTable
    <3>. QED BY <2>5, <3>1, <3>9
  <2>10. ASSUME NEW t \in Thread, Delete(t)
         PROVE  CopyInv'
    <3>1. /\ pc[t] = "delete" /\ pc'[t] = "create"
          /\ \A u \in Thread \ {t} : pc'[u] = pc[u]
          /\ UNCHANGED <<rows, er, req, overtaken>>
      BY <2>1, <2>10 DEF Delete, TypeOK
    <3>2. Have' = Have
      BY <3>1 DEF Have, KeysOf
    <3>3. PlanInv(t)'
      BY <2>1, <3>1, <3>2 DEF PlanInv, Current, AtTheTable
    <3>. QED BY <2>5, <3>1, <3>3
  <2>11. ASSUME NEW t \in Thread, Create(t)
         PROVE  CopyInv'
    <3> DEFINE key == CHOOSE k \in req[t].todo : TRUE
    <3>1. /\ key \in req[t].todo /\ key \in Key /\ pc[t] = "create" /\ pc' = pc
          /\ UNCHANGED <<rows, er, overtaken>>
      BY <2>1, <2>11 DEF Create, TypeOK, Request
    <3> HIDE DEF key
    <3>2. PICK pk \in Unused :
            req' = [req EXCEPT ![t].todo = @ \ {key},
                               ![t].ins = @ \cup {[pk |-> pk, key |-> key]}]
      BY <2>11 DEF Create, key
    <3> DEFINE row == [pk |-> pk, key |-> key]
    <3>3. row \in Row /\ row.key = key
      BY <3>1 DEF Row, Unused
    <3>4. /\ req'[t] = [req[t] EXCEPT !.todo = @ \ {key}, !.ins = @ \cup {row}]
          /\ \A u \in Thread \ {t} : req'[u] = req[u]
          /\ req[t] \in Request
      BY <2>1, <3>2 DEF TypeOK
    <3> HIDE DEF row
    <3>5. /\ req'[t].kind = req[t].kind /\ req'[t].wanted = req[t].wanted
          /\ req'[t].stale = req[t].stale
          /\ req'[t].todo = req[t].todo \ {key} /\ req'[t].ins = req[t].ins \cup {row}
      <4> DEFINE q == req[t]
                 n == req'[t]
      <4>1. /\ q \in Request /\ key \in Key /\ row \in Row
            /\ n = [q EXCEPT !.todo = @ \ {key}, !.ins = @ \cup {row}]
        BY ONLY <3>1, <3>3, <3>4
      <4> HIDE DEF q, n
      <4>2. /\ n.kind = q.kind /\ n.wanted = q.wanted /\ n.stale = q.stale
            /\ n.todo = q.todo \ {key} /\ n.ins = q.ins \cup {row}
        <5> DEFINE a == [q EXCEPT !.todo = @ \ {key}]
        <5>1. a \in Request /\ n = [a EXCEPT !.ins = @ \cup {row}]
          BY ONLY <4>1 DEF Request
        <5>2. /\ a.kind = q.kind /\ a.wanted = q.wanted /\ a.stale = q.stale
              /\ a.todo = q.todo \ {key} /\ a.ins = q.ins
          BY ONLY <4>1 DEF Request
        <5> HIDE DEF a
        <5>. QED BY ONLY <5>1, <5>2 DEF Request
      <4>. QED BY ONLY <4>2 DEF q, n
    <3>6. req'[t].todo \cup KeysOf(req'[t].ins) = req[t].todo \cup KeysOf(req[t].ins)
      BY ONLY <3>1, <3>3, <3>5 DEF KeysOf
    <3>7. Once(req[t].ins, req[t].todo) => Once(req'[t].ins, req'[t].todo)
      BY ONLY <3>1, <3>3, <3>5 DEF Once
    <3>8. Have' = Have /\ KeysOf(rows') = KeysOf(rows) /\ PksOf(rows') = PksOf(rows)
      BY <3>1 DEF Have, KeysOf, PksOf
    <3>9. Current(t) => Current(t)'
      BY ONLY <3>1, <3>5, <3>6, <3>8 DEF Current
    <3>10. PlanInv(t)'
      BY <2>1, <3>1, <3>5, <3>6, <3>7, <3>9 DEF PlanInv, AtTheTable
    <3>. QED BY <2>5, <3>1, <3>4, <3>10
  <2>12. ASSUME NEW t \in Thread, Finish(t)
         PROVE  CopyInv'
    <3>1. /\ req'[t].kind = req[t].kind /\ req'[t].wanted = req[t].wanted
          /\ req'[t].stale = req[t].stale
          /\ req'[t].todo = req[t].todo /\ req'[t].ins = req[t].ins
          /\ \A u \in Thread \ {t} : req'[u] = req[u] /\ pc'[u] = pc[u]
          /\ pc[t] = "create" /\ pc'[t] = "commit"
          /\ UNCHANGED <<rows, er, overtaken>>
      BY <2>1, <2>12 DEF Finish, TypeOK, Request
    <3>2. Have' = Have /\ KeysOf(rows') = KeysOf(rows) /\ PksOf(rows') = PksOf(rows)
      BY <3>1 DEF Have, KeysOf, PksOf
    <3>3. Current(t) => Current(t)'
      BY ONLY <3>1, <3>2 DEF Current
    <3>4. PlanInv(t)'
      BY <2>1, <3>1, <3>3 DEF PlanInv, AtTheTable
    <3>. QED BY <2>5, <3>1, <3>4
  <2>13. ASSUME NEW t \in Thread, Commit(t)
         PROVE  CopyInv'
    <3>1. /\ pc'[t] = "idle" /\ req'[t].ins = {} /\ er' = er
          /\ \A u \in Thread \ {t} : pc'[u] = pc[u] /\ req'[u] = req[u]
      BY <2>1, <2>13 DEF Commit, End, TypeOK, NoRequest
    <3>2. Overtake(t)
      BY <2>13 DEF Commit
    <3>3. PlanInv(t)'
      BY <3>1 DEF PlanInv, AtTheTable
    <3>4. \A u \in Thread \ {t} : PlanInv(u)'
      BY <2>4, <3>1, <3>2
    <3>5. RefillInv'
      BY <2>1, <3>1, <3>2, Overtaken DEF RefillInv
    <3>. QED BY <3>3, <3>4, <3>5 DEF CopyInv
  <2>14. ASSUME NEW t \in Thread, Fail(t)
         PROVE  CopyInv'
    BY <2>6, <2>14 DEF Fail
  <2>15. ASSUME NEW p \in Process, AgeOut(p)
         PROVE  CopyInv'
    <3>1. UNCHANGED <<rows, er, pc, req, overtaken>>
      BY <2>15 DEF AgeOut
    <3>. QED BY <2>2, <2>3, <3>1 DEF CopyInv
  <2>16. ASSUME NEW p \in Process, Restart(p)
         PROVE  CopyInv'
    <3>1. /\ UNCHANGED <<rows, er>>
          /\ overtaken' = overtaken \ {t \in Thread : Home[t] = p}
      BY <2>16 DEF Restart
    <3>2. ASSUME NEW u \in Thread, Home[u] = p
          PROVE  PlanInv(u)'
      BY <2>16, <3>2 DEF Restart, PlanInv, AtTheTable, NoRequest
    <3>3. ASSUME NEW u \in Thread, Home[u] # p
          PROVE  PlanInv(u)'
      <4>1. pc'[u] = pc[u] /\ req'[u] = req[u]
        BY <2>16, <3>3 DEF Restart
      <4>. QED BY <2>2, <3>1, <3>3, <4>1
    <3>4. RefillInv'
      BY <2>3, <3>1
    <3>. QED BY <3>2, <3>3, <3>4 DEF CopyInv
  <2>17. ASSUME UNCHANGED <<pc, req>>, Overtake(Returner), RefillInv'
         PROVE  CopyInv'
    <3>1. \A u \in Thread : Returner \in (Thread \cup {Returner}) \ {u}
      OBVIOUS
    <3>2. \A u \in Thread : PlanInv(u)'
      BY <2>4, <2>17, <3>1
    <3>. QED BY <2>17, <3>2 DEF CopyInv
  <2>18. ASSUME UNCHANGED <<pc, req, rows>>, overtaken \ {Returner} \subseteq overtaken',
                RefillInv'
         PROVE  CopyInv'
    BY <2>2, <2>18 DEF CopyInv
  <2>19. CASE Truncate
    <3>1. /\ UNCHANGED <<pc, req>> /\ Overtake(Returner) /\ er'.ins = {}
          /\ TruncateCommits => rows' = {}
      BY <2>19 DEF Truncate, webVars
    <3>2. RefillInv'
      BY <3>1 DEF RefillInv, Once
    <3>. QED BY <2>17, <3>1, <3>2
  <2>20. ASSUME NEW key \in Key, Insert(key)
         PROVE  CopyInv'
    <3>1. PICK pk \in Unused :
            er' = [er EXCEPT !.todo = @ \ {key},
                             !.ins = @ \cup {[pk |-> pk, key |-> key]}]
      BY <2>20 DEF Insert
    <3> DEFINE row == [pk |-> pk, key |-> key]
    <3>2. /\ er'.busy = er.busy /\ er'.todo = er.todo \ {key}
          /\ er'.ins = er.ins \cup {row} /\ row.key = key
      BY <2>1, <3>1 DEF TypeOK
    <3> HIDE DEF row
    <3>3. er.busy /\ key \in er.todo /\ UNCHANGED <<rows, pc, req, overtaken>>
      BY <2>20 DEF Insert, webVars
    <3>4. RefillInv'
      BY <2>1, <3>2, <3>3 DEF RefillInv, Once
    <3>. QED BY <2>18, <3>3, <3>4
  <2>21. ASSUME NEW key \in Key, Raise(key)
         PROVE  CopyInv'
    <3>1. /\ UNCHANGED <<rows, pc, req>> /\ er.busy
          /\ ~er'.busy /\ er'.todo = {} /\ (er'.ins = {} \/ er'.ins = er.ins)
          /\ overtaken' = IF er'.ins = {} THEN overtaken \ {Returner} ELSE overtaken
      BY <2>21 DEF Raise, webVars
    <3>2. RefillInv'
      BY <2>1, <3>1 DEF RefillInv, Once
    <3>. QED BY <2>18, <3>1, <3>2
  <2>22. CASE CommitEvents
    <3>1. UNCHANGED <<pc, req>> /\ Overtake(Returner) /\ ~er'.busy /\ er'.ins = {}
      BY <2>22 DEF CommitEvents, NoEvent, webVars
    <3>2. RefillInv'
      BY <3>1 DEF RefillInv, Once
    <3>. QED BY <2>17, <3>1, <3>2
  <2>23. ASSUME UNCHANGED <<rows, er, pc, req, overtaken>>
         PROVE  CopyInv'
    BY <2>2, <2>3, <2>23 DEF CopyInv
  <2>24. ASSUME NEW key \in Key, ChangeKeys(master \cup {key}) \/ ChangeKeys(master \ {key})
         PROVE  CopyInv'
    BY <2>23, <2>24 DEF ChangeKeys, webVars
  <2>25. ASSUME NEW m \in Minion, StoreSchedule(m)
         PROVE  CopyInv'
    BY <2>23, <2>25 DEF StoreSchedule, webVars
  <2>26. CASE Settle \/ UNCHANGED vars
    BY <2>23, <2>26 DEF Settle, vars, webVars
  <2>27. ASSUME NEW t \in Thread, Work(t)
         PROVE  CopyInv'
    <3>1. Status \in SUBSET Status
      OBVIOUS
    <3>. QED BY ONLY <2>8, <2>9, <2>10, <2>11, <2>12, <2>13, <2>27, <3>1 DEF Work
  <2>. QED BY ONLY <1>2, <2>7, <2>8, <2>14, <2>15, <2>16, <2>19, <2>20, <2>21, <2>22,
                   <2>24, <2>25, <2>26, <2>27 DEF Next
<1>. QED BY <1>1, <1>2, WritersCorrect, PTL DEF Spec

-----------------------------------------------------------------------------
(* After the listing, a request keeps to what it saw. *)
LEMMA WantedStays ==
  ASSUME TypeOK, NEW t \in Thread, Read(t) \/ Delete(t) \/ Create(t) \/ Finish(t)
  PROVE  req'[t].wanted = req[t].wanted
<1>1. CASE Read(t)
  BY <1>1 DEF Read, TypeOK, Request
<1>2. CASE Delete(t)
  BY <1>2 DEF Delete
<1>3. CASE Create(t)
  <2>1. PICK todo, ins : req' = [req EXCEPT ![t].todo = todo, ![t].ins = ins]
    BY <1>3 DEF Create
  <2>2. req \in [Thread -> Request]
    BY DEF TypeOK
  <2> DEFINE q == req[t]
             n == [[q EXCEPT !.todo = todo] EXCEPT !.ins = ins]
  <2>3. req'[t] = n
    BY <2>1, <2>2
  <2>4. n.wanted = q.wanted
    <3>1. q \in Request
      BY <2>2
    <3> HIDE DEF q
    <3>. QED BY <3>1 DEF Request
  <2>. QED BY <2>3, <2>4
<1>4. CASE Finish(t)
  BY <1>4 DEF Finish, TypeOK, Request
<1>. QED BY <1>1, <1>2, <1>3, <1>4

(* The steps of KeyCopy, told from what becomes of the lists held. *)
Writers == Thread \cup {Returner}
OnlyOf(W) == \A a \in Writers \ W : Seen'[a] = Seen[a]
CopyStep == Copy!Next \/ UNCHANGED Copy!vars

LEMMA SeenWhole == /\ Seen = [a \in Writers |-> Seen[a]]
                   /\ Seen' = [a \in Writers |-> Seen'[a]]
BY KeyAssumption DEF Seen, Writers

LEMMA ChangeStep ==
  ASSUME master' \subseteq Key, rows' = rows, overtaken' = overtaken, OnlyOf({})
  PROVE  CopyStep
<1>1. Seen' = Seen
  BY SeenWhole DEF OnlyOf
<1>. QED BY <1>1 DEF CopyStep, Copy!Next, Copy!Change

LEMMA LookStep ==
  ASSUME NEW a \in Writers, Seen[a] = {}, Seen'[a] = {master}, OnlyOf({a}),
         rows' = rows, master' = master, overtaken' = overtaken \ {a}
  PROVE  CopyStep
<1>1. Seen' = [Seen EXCEPT ![a] = {master}]
  BY SeenWhole DEF OnlyOf
<1>. QED BY <1>1 DEF CopyStep, Copy!Next, Copy!Look, Writers

LEMMA WipeStep ==
  ASSUME TruncateCommits, NEW a \in Writers, Seen'[a] = {master}, OnlyOf({a}),
         rows' = {}, master' = master, Overtake(a)
  PROVE  CopyStep
<1>1. Seen' = [Seen EXCEPT ![a] = {master}]
  BY SeenWhole DEF OnlyOf
<1>2. Copy!Overtake(a)
  BY DEF Overtake, Copy!Overtake
<1>. QED BY <1>1, <1>2 DEF CopyStep, Copy!Next, Copy!Wipe, Writers

(* What it takes to publish a list, of the rows that go and come.          *)
Publishes(a, list, old, new) ==
  /\ Seen[a] = {list} /\ Seen'[a] = {} /\ OnlyOf({a}) /\ master' = master /\ Overtake(a)
  /\ old \subseteq rows /\ rows' = (rows \ old) \cup new
  /\ \A r \in new : r.key \in list
  /\ \/ \A r \in old : r.key \notin list
     \/ \A k \in list : \E r \in new : r.key = k
  /\ a \notin overtaken =>
       /\ \A k \in list : \E r \in rows' : r.key = k
       /\ \A p, q \in new : p.key = q.key => p = q
       /\ \A p \in new, q \in rows \ old : p.key # q.key
       /\ \A r \in rows : r.key \notin list => \E q \in old : q.key = r.key

LEMMA PublishStep ==
  ASSUME NEW a \in Writers, NEW list \in SUBSET Key, NEW old, NEW new,
         Publishes(a, list, old, new)
  PROVE  CopyStep
<1> USE DEF Publishes
<1>1. Seen' = [Seen EXCEPT ![a] = {}]
  BY SeenWhole DEF OnlyOf
<1>2. Copy!Overtake(a)
  BY DEF Overtake, Copy!Overtake
<1>3. \A k \in list : Copy!Kept(k)
  BY DEF Copy!Kept, Copy!Of
<1>4. \A k \in list : a \notin overtaken => Copy!Listed(k)
  <2> SUFFICES ASSUME NEW k \in list, a \notin overtaken
               PROVE  Copy!Listed(k)
    OBVIOUS
  <2>1. Copy!Of(rows', k) # {}
    BY DEF Copy!Of
  <2>2. CASE \E r \in rows \ old : r.key = k
    <3>1. Copy!Of(rows', k) \subseteq Copy!Of(rows, k)
      BY <2>2 DEF Copy!Of
    <3>. QED BY <2>1, <3>1 DEF Copy!Listed
  <2>3. CASE ~\E r \in rows \ old : r.key = k
    <3>1. \A p, q \in Copy!Of(rows', k) : p = q
      BY <2>3 DEF Copy!Of
    <3>. QED BY <2>1, <3>1 DEF Copy!Listed
  <2>. QED BY <2>2, <2>3
<1>5. \A k \in Key \ list : Copy!NotAdded(k)
  BY DEF Copy!NotAdded, Copy!Of
<1>6. \A k \in Key \ list : a \notin overtaken => Copy!Fewer(k)
  <2> SUFFICES ASSUME NEW k \in Key \ list, a \notin overtaken
               PROVE  Copy!Fewer(k)
    OBVIOUS
  <2>1. CASE ~\E r \in rows : r.key = k
    BY <2>1 DEF Copy!Fewer, Copy!Of
  <2>2. CASE \E r \in rows : r.key = k
    <3>1. PICK q \in old : q.key = k
      BY <2>2
    <3>2. q \in Copy!Of(rows, k) /\ q \notin Copy!Of(rows', k)
      BY <3>1 DEF Copy!Of
    <3>. QED BY <3>2 DEF Copy!Fewer
  <2>. QED BY <2>1, <2>2
<1>7. list \in Seen[a]
  OBVIOUS
<1>8. Copy!Publish(a)
  BY ONLY <1>1, <1>2, <1>3, <1>4, <1>5, <1>6, <1>7, master' = master DEF Copy!Publish
<1>. QED BY <1>8 DEF CopyStep, Copy!Next, Writers

LEMMA GiveUpStep ==
  ASSUME NEW W \in SUBSET Writers, \A a \in W : Seen'[a] = {}, OnlyOf(W),
         rows' = rows, master' = master, overtaken' = overtaken \ W
  PROVE  CopyStep
<1>1. Seen' = [a \in Writers |-> IF a \in W THEN {} ELSE Seen[a]]
  BY SeenWhole DEF OnlyOf
<1>. QED BY <1>1 DEF CopyStep, Copy!Next, Copy!GiveUp, Writers

LEMMA ForgetStep ==
  ASSUME TruncateCommits, NEW a \in Writers, NEW list \in SUBSET Key, NEW whole,
         list \subseteq whole, Seen[a] = {whole}, Seen'[a] = {list}, OnlyOf({a}),
         rows' = rows, master' = master, overtaken' = overtaken
  PROVE  CopyStep
<1>1. Seen' = [Seen EXCEPT ![a] = {list}]
  BY SeenWhole DEF OnlyOf
<1>2. Copy!Forget(a, list)
  BY <1>1 DEF Copy!Forget
<1>. QED BY <1>2 DEF CopyStep, Copy!Next, Writers

(* KeyMirror implements KeyCopy, on both databases and for any number of   *)
(* workers, threads, minions and statuses that sync and refresh in any     *)
(* order: no writer drops a key it has seen or adds one that it has not,   *)
(* and one that was not overtaken makes the table have the list it saw     *)
(* (sync_keys, get_keys, event_return).                                    *)
THEOREM MirrorIsCopy == Spec => CopiesTheList
<1> USE KeyAssumption
<1>1. Init => Copy!Init
  <2> SUFFICES ASSUME Init PROVE Copy!Init
    OBVIOUS
  <2>1. rows = {} /\ master \in SUBSET Key /\ overtaken = {}
    BY DEF Init
  <2>2. \A a \in Writers : Seen[a] = {}
    BY SeenIs DEF SeenIsThis, Holding, Init, NoEvent, Writers
  <2>3. Seen = [a \in Writers |-> {}]
    BY <2>2, SeenWhole
  <2>. QED BY <2>1, <2>3 DEF Copy!Init, Writers
<1>2. ASSUME IInv, TypeOK', CopyInv, [Next]_vars
      PROVE  CopyStep
  <2>1. /\ TypeOK /\ PkUnique /\ EventInv /\ RefillInv
        /\ \A t \in Thread : RequestInv(t) /\ PlanInv(t)
        /\ master \subseteq Key /\ master' \subseteq Key /\ rows \subseteq Row
    BY <1>2 DEF IInv, CopyInv, TypeOK
  <2>2. /\ \A t \in Thread :
             /\ Seen[t] = IF pc[t] \in Holding THEN {req[t].wanted} ELSE {}
             /\ Seen'[t] = IF pc'[t] \in Holding THEN {req'[t].wanted} ELSE {}
        /\ Seen[Returner] = IF er.busy \/ er.ins # {}
                            THEN {er.todo \cup KeysOf(er.ins)} ELSE {}
        /\ Seen'[Returner] = IF er'.busy \/ er'.ins # {}
                             THEN {er'.todo \cup KeysOf(er'.ins)} ELSE {}
    BY SeenIs DEF SeenIsThis
  \* One thread moves; or none does.
  <2>3. ASSUME NEW t \in Thread, er' = er,
               \A u \in Thread \ {t} : pc'[u] = pc[u] /\ req'[u] = req[u]
        PROVE  OnlyOf({t})
    BY <2>2, <2>3 DEF OnlyOf, Writers
  <2>4. ASSUME NEW t \in Thread, er' = er, rows' = rows, master' = master,
               overtaken' = overtaken,
               \A u \in Thread \ {t} : pc'[u] = pc[u] /\ req'[u] = req[u],
               Seen'[t] = Seen[t]
        PROVE  CopyStep
    <3>1. OnlyOf({})
      BY <2>3, <2>4 DEF OnlyOf
    <3>. QED BY <2>1, <2>4, <3>1, ChangeStep
  <2>5. ASSUME UNCHANGED <<pc, req>>
        PROVE  OnlyOf({Returner})
    BY <2>2, <2>5 DEF OnlyOf, Writers
  <2>6. ASSUME UNCHANGED <<rows, pc, req, er, overtaken>>
        PROVE  CopyStep
    <3>1. OnlyOf({})
      BY <2>2, <2>6 DEF OnlyOf, Writers
    <3>. QED BY <2>1, <2>6, <3>1, ChangeStep
  <2>7. ASSUME NEW t \in Thread, NEW kind \in {"sync", "refresh"}, Start(t, kind)
        PROVE  CopyStep
    <3>1. /\ er' = er /\ rows' = rows /\ master' = master /\ overtaken' = overtaken
          /\ pc[t] = "idle" /\ pc'[t] = "list"
          /\ \A u \in Thread \ {t} : pc'[u] = pc[u] /\ req'[u] = req[u]
      BY <2>1, <2>7 DEF Start, TypeOK
    <3>. QED BY <2>2, <2>4, <3>1 DEF Holding
  \* A roll-back.
  <2>8. ASSUME NEW t \in Thread, End(t), er' = er, rows' = rows, master' = master,
               overtaken' = overtaken \ {t}
        PROVE  CopyStep
    <3>1. /\ pc'[t] = "idle"
          /\ \A u \in Thread \ {t} : pc'[u] = pc[u] /\ req'[u] = req[u]
      BY <2>1, <2>8 DEF End, TypeOK
    <3>2. OnlyOf({t}) /\ Seen'[t] = {} /\ {t} \in SUBSET Writers
      BY <2>2, <2>3, <2>8, <3>1 DEF Writers, Holding
    <3>. QED BY <2>8, <3>2, GiveUpStep
  <2>9. ASSUME NEW t \in Thread, NEW buckets \in SUBSET Status, List(t, buckets)
        PROVE  CopyStep
    <3>1. CASE Complete(buckets)
      <4>1. {k \in master : k[2] \in Status} = master
        BY <2>1 DEF Key
      <4>2. /\ er' = er /\ rows' = rows /\ master' = master /\ overtaken' = overtaken \ {t}
            /\ pc[t] = "list" /\ pc'[t] = "read"
            /\ req'[t].wanted = {k \in master : k[2] \in buckets}
            /\ buckets = Status
            /\ \A u \in Thread \ {t} : pc'[u] = pc[u] /\ req'[u] = req[u]
        BY <2>1, <2>9, <3>1 DEF List, Complete, TypeOK, Request
      <4>3. req'[t].wanted = master
        BY ONLY <4>1, <4>2
      <4>4. Seen[t] = {}
        BY <2>2, <4>2 DEF Holding
      <4>5. Seen'[t] = {master}
        BY <2>2, <4>2, <4>3 DEF Holding
      <4>6. OnlyOf({t}) /\ t \in Writers
        BY <2>3, <4>2 DEF Writers
      <4>. QED BY ONLY <4>2, <4>4, <4>5, <4>6, LookStep
    <3>2. CASE ~Complete(buckets)
      BY <2>8, <2>9, <3>2 DEF List
    <3>. QED BY <3>1, <3>2
  <2>10. ASSUME NEW t \in Thread, Read(t) \/ Delete(t) \/ Create(t) \/ Finish(t)
         PROVE  CopyStep
    <3>1. /\ er' = er /\ rows' = rows /\ master' = master /\ overtaken' = overtaken
          /\ \A u \in Thread \ {t} : pc'[u] = pc[u] /\ req'[u] = req[u]
          /\ pc[t] \in {"read", "delete", "create"}
          /\ pc'[t] \in {"delete", "create", "commit"}
      BY <2>1, <2>10 DEF Read, Delete, Create, Finish, TypeOK
    <3>2. req'[t].wanted = req[t].wanted
      BY <1>2, <2>1, <2>10, WantedStays
    <3>3. Seen'[t] = Seen[t]
      BY <2>2, <3>1, <3>2 DEF Holding
    <3>. QED BY <2>4, <3>1, <3>3
  <2>11. ASSUME NEW t \in Thread, Commit(t)
         PROVE  CopyStep
    <3>1. /\ er' = er /\ master' = master /\ pc[t] = "commit" /\ pc'[t] = "idle"
          /\ rows' = {r \in rows : r.pk \notin req[t].stale} \cup req[t].ins
          /\ \A u \in Thread \ {t} : pc'[u] = pc[u] /\ req'[u] = req[u]
      BY <2>1, <2>11 DEF Commit, End, TypeOK
    <3> DEFINE old == {r \in rows : r.pk \in req[t].stale}
               new == req[t].ins
               list == req[t].wanted
    <3>2. /\ Overtake(t) /\ t \in Writers /\ list \in SUBSET Key
          /\ old \subseteq rows /\ rows' = (rows \ old) \cup new
      BY <2>1, <2>11, <3>1 DEF Commit, TypeOK, Request, Writers
    <3>3. Seen[t] = {list} /\ Seen'[t] = {} /\ OnlyOf({t})
      BY <2>2, <2>3, <3>1 DEF Holding
    <3>4. /\ Once(new, {}) /\ req[t].todo = {} /\ KeysOf(new) \subseteq list
          /\ t \notin overtaken => Current(t)
      BY <2>1, <3>1 DEF PlanInv, RequestInv, AtTheTable, Once
    <3>5. CASE req[t].kind = "sync"
      <4>1. \A r \in old : r.key \notin list
        BY <2>1, <3>1, <3>5 DEF RequestInv, AllRows
      <4>2. ASSUME t \notin overtaken
            PROVE  /\ list \subseteq KeysOf(rows) \cup KeysOf(new)
                   /\ \A r \in rows : r.key \notin KeysOf(new)
                   /\ \A r \in Have : r.key \notin list => r.pk \in req[t].stale
        BY <3>4, <3>5, <4>2 DEF Current
      <4>3. ASSUME t \notin overtaken
            PROVE  \A r \in rows : r.key \notin list => \E q \in old : q.key = r.key
        BY <4>2, <4>3, HaveRows
      <4>4. ASSUME t \notin overtaken
            PROVE  /\ \A k \in list : \E r \in rows' : r.key = k
                   /\ \A p \in new, q \in rows \ old : p.key # q.key
        BY <3>2, <4>1, <4>2, <4>4 DEF KeysOf
      <4> HIDE DEF old, new, list
      <4>5. (\A r \in new : r.key \in list) /\ \A p, q \in new : p.key = q.key => p = q
        BY <3>4 DEF KeysOf, Once
      <4>6. t \notin overtaken =>
              /\ \A k \in list : \E r \in rows' : r.key = k
              /\ \A p, q \in new : p.key = q.key => p = q
              /\ \A p \in new, q \in rows \ old : p.key # q.key
              /\ \A r \in rows : r.key \notin list => \E q \in old : q.key = r.key
        BY ONLY <4>3, <4>4, <4>5
      <4>7. \/ \A r \in old : r.key \notin list
            \/ \A k \in list : \E r \in new : r.key = k
        BY ONLY <4>1
      <4>8. Publishes(t, list, old, new)
        BY ONLY <3>1, <3>2, <3>3, <4>5, <4>6, <4>7 DEF Publishes
      <4>. QED BY ONLY <3>2, <4>8, PublishStep
    <3>6. CASE req[t].kind # "sync"
      <4>1. \A k \in list : \E r \in new : r.key = k
        BY <2>1, <3>1, <3>4, <3>6 DEF RequestInv, KeysOf
      <4>2. ASSUME t \notin overtaken
            PROVE  old = rows
        BY <3>4, <3>6, <4>2 DEF Current, PksOf
      <4> HIDE DEF old, new, list
      <4>3. (\A r \in new : r.key \in list) /\ \A p, q \in new : p.key = q.key => p = q
        BY <3>4 DEF KeysOf, Once
      <4>4. t \notin overtaken =>
              /\ \A k \in list : \E r \in rows' : r.key = k
              /\ \A p \in new, q \in rows \ old : p.key # q.key
              /\ \A r \in rows : r.key \notin list => \E q \in old : q.key = r.key
        BY <3>2, <4>1, <4>2
      <4>5. t \notin overtaken => \A p, q \in new : p.key = q.key => p = q
        BY <4>3
      <4>6. Publishes(t, list, old, new)
        BY ONLY <3>1, <3>2, <3>3, <4>1, <4>3, <4>4, <4>5 DEF Publishes
      <4>. QED BY ONLY <3>2, <4>6, PublishStep
    <3>. QED BY <3>5, <3>6
  <2>12. ASSUME NEW t \in Thread, Fail(t)
         PROVE  CopyStep
    BY <2>8, <2>12 DEF Fail
  <2>13. ASSUME NEW p \in Process, AgeOut(p)
         PROVE  CopyStep
    BY <2>6, <2>13 DEF AgeOut
  <2>14. ASSUME NEW p \in Process, Restart(p)
         PROVE  CopyStep
    <3> DEFINE W == {t \in Thread : Home[t] = p}
    <3>1. /\ er' = er /\ rows' = rows /\ master' = master /\ overtaken' = overtaken \ W
          /\ \A t \in W : pc'[t] = "idle"
          /\ \A t \in Thread \ W : pc'[t] = pc[t] /\ req'[t] = req[t]
      BY <2>14 DEF Restart
    <3>2. W \in SUBSET Writers /\ W \subseteq Thread
      BY DEF Writers
    <3> HIDE DEF W
    <3>3. \A a \in W : Seen'[a] = {}
      BY <2>2, <3>1, <3>2 DEF Holding
    <3>4. ASSUME NEW t \in Thread \ W
          PROVE  Seen'[t] = Seen[t]
      <4>1. pc'[t] = pc[t] /\ req'[t].wanted = req[t].wanted /\ t \in Thread
        BY ONLY <3>1
      <4>. QED BY ONLY <2>2, <4>1
    <3>5. Seen'[Returner] = Seen[Returner]
      BY <2>2, <3>1
    <3>6. OnlyOf(W)
      BY ONLY <3>4, <3>5 DEF OnlyOf, Writers
    <3>. QED BY <3>1, <3>2, <3>3, <3>6, GiveUpStep
  \* event_return.
  <2>15. CASE Truncate
    <3>1. /\ UNCHANGED <<master, pc, req>> /\ ~er.busy
          /\ er'.busy /\ er'.todo = master /\ er'.ins = {} /\ Overtake(Returner)
          /\ rows' = IF TruncateCommits THEN {} ELSE rows
      BY <2>15 DEF Truncate, webVars
    <3>2. er'.todo \cup KeysOf(er'.ins) = master
      BY <3>1 DEF KeysOf
    <3>3. Seen'[Returner] = {master} /\ OnlyOf({Returner}) /\ Returner \in Writers
      BY <2>2, <2>5, <3>1, <3>2 DEF Writers
    <3>4. CASE TruncateCommits
      BY <3>1, <3>3, <3>4, WipeStep
    <3>5. CASE ~TruncateCommits
      <4>1. Seen[Returner] = {} /\ rows' = rows /\ overtaken' = overtaken \ {Returner}
        BY <2>1, <2>2, <3>1, <3>5 DEF EventInv, Overtake
      <4>. QED BY <3>1, <3>3, <4>1, LookStep
    <3>. QED BY <3>4, <3>5
  <2>16. ASSUME NEW key \in Key, Insert(key)
         PROVE  CopyStep
    <3>1. PICK pk \in Unused :
            er' = [er EXCEPT !.todo = @ \ {key},
                             !.ins = @ \cup {[pk |-> pk, key |-> key]}]
      BY <2>16 DEF Insert
    <3> DEFINE row == [pk |-> pk, key |-> key]
    <3>2. /\ er'.busy = er.busy /\ er'.todo = er.todo \ {key}
          /\ er'.ins = er.ins \cup {row} /\ row.key = key
      BY <2>1, <3>1 DEF TypeOK
    <3> HIDE DEF row
    <3>3. /\ er.busy /\ key \in er.todo /\ UNCHANGED <<rows, master, pc, req, overtaken>>
      BY <2>16 DEF Insert, webVars
    <3>4. er'.todo \cup KeysOf(er'.ins) = er.todo \cup KeysOf(er.ins)
      BY <3>2, <3>3 DEF KeysOf
    <3>5. Seen'[Returner] = Seen[Returner]
      BY <2>2, <3>2, <3>3, <3>4
    <3>6. OnlyOf({})
      BY <2>5, <3>3, <3>5 DEF OnlyOf
    <3>. QED BY <2>1, <3>3, <3>6, ChangeStep
  <2>17. ASSUME NEW key \in Key, Raise(key)
         PROVE  CopyStep
    <3>1. /\ UNCHANGED <<rows, master, pc, req>> /\ er.busy /\ ~er'.busy /\ er'.todo = {}
          /\ er'.ins = IF TruncateCommits THEN er.ins ELSE {}
          /\ overtaken' = IF er'.ins = {} THEN overtaken \ {Returner} ELSE overtaken
      BY <2>17 DEF Raise, webVars
    <3>2. OnlyOf({Returner}) /\ Returner \in Writers
      BY <2>5, <3>1 DEF Writers
    <3>3. CASE er'.ins = {}
      <4>1. Seen'[Returner] = {} /\ {Returner} \in SUBSET Writers
        BY <2>2, <3>1, <3>2, <3>3
      <4>. QED BY <3>1, <3>2, <3>3, <4>1, GiveUpStep
    <3>4. CASE er'.ins # {}
      <4>1. TruncateCommits /\ er'.ins = er.ins /\ overtaken' = overtaken
        BY <3>1, <3>4
      <4>2. /\ Seen[Returner] = {er.todo \cup KeysOf(er.ins)}
            /\ Seen'[Returner] = {KeysOf(er.ins)}
        BY <2>2, <3>1, <3>4, <4>1
      <4>3. KeysOf(er.ins) \in SUBSET Key
        BY <2>1 DEF TypeOK, KeysOf, Row
      <4>. QED BY <3>1, <3>2, <4>1, <4>2, <4>3, ForgetStep
    <3>. QED BY <3>3, <3>4
  <2>18. CASE CommitEvents
    <3> DEFINE old == IF TruncateCommits THEN {} ELSE rows
               new == er.ins
               list == KeysOf(er.ins)
    <3>1. /\ UNCHANGED <<master, pc, req>> /\ er.todo = {} /\ er' = NoEvent
          /\ er.busy \/ er.ins # {}
          /\ rows' = (rows \ old) \cup new /\ Overtake(Returner)
      BY <2>18 DEF CommitEvents, webVars
    <3>2. list \in SUBSET Key /\ old \subseteq rows /\ Once(new, {})
      BY <2>1 DEF TypeOK, KeysOf, Row, RefillInv, Once
    <3>3. /\ Seen[Returner] = {list} /\ Seen'[Returner] = {}
          /\ OnlyOf({Returner}) /\ Returner \in Writers
      BY <2>2, <2>5, <3>1 DEF NoEvent, Writers
    <3>4. \/ \A r \in old : r.key \notin list
          \/ \A k \in list : \E r \in new : r.key = k
      BY DEF KeysOf
    <3>5. /\ \A k \in list : \E r \in rows' : r.key = k
          /\ \A r \in new : r.key \in list
      BY <3>1 DEF KeysOf
    <3>6. \A p, q \in new : p.key = q.key => p = q
      BY <3>2 DEF Once
    <3>7. Returner \notin overtaken => rows \ old = {}
      BY <2>1, <3>1 DEF RefillInv
    <3> HIDE DEF old, new, list
    <3>8. Returner \notin overtaken =>
            /\ \A k \in list : \E r \in rows' : r.key = k
            /\ \A p, q \in new : p.key = q.key => p = q
            /\ \A p \in new, q \in rows \ old : p.key # q.key
            /\ \A r \in rows : r.key \notin list => \E q \in old : q.key = r.key
      BY <3>2, <3>5, <3>6, <3>7
    <3>9. Publishes(Returner, list, old, new)
      BY ONLY <3>1, <3>2, <3>3, <3>4, <3>5, <3>8 DEF Publishes
    <3>. QED BY ONLY <3>2, <3>3, <3>9, PublishStep
  <2>19. ASSUME NEW key \in Key, ChangeKeys(master \cup {key}) \/ ChangeKeys(master \ {key})
         PROVE  CopyStep
    BY <2>6, <2>19 DEF ChangeKeys, webVars
  <2>20. ASSUME NEW m \in Minion, StoreSchedule(m)
         PROVE  CopyStep
    BY <2>6, <2>20 DEF StoreSchedule, webVars
  <2>21. CASE Settle \/ UNCHANGED vars
    BY <2>6, <2>21 DEF Settle, vars, webVars
  <2>22. ASSUME NEW t \in Thread, Work(t)
         PROVE  CopyStep
    <3>1. Status \in SUBSET Status
      OBVIOUS
    <3>. QED BY ONLY <2>9, <2>10, <2>11, <2>22, <3>1 DEF Work
  <2>. QED BY ONLY <1>2, <2>7, <2>9, <2>12, <2>13, <2>14, <2>15, <2>16, <2>17, <2>18,
                   <2>19, <2>20, <2>21, <2>22 DEF Next
<1>3. IInv /\ TypeOK' /\ CopyInv /\ [Next]_vars => [Copy!Next]_(Copy!vars)
  BY <1>2 DEF CopyStep
<1>. QED BY <1>1, <1>3, TypeCorrect, WritersCorrect, CopyCorrect, PTL
         DEF Spec, CopiesTheList, Copy!Spec
=============================================================================
