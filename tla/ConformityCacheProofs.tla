----------------------- MODULE ConformityCacheProofs ------------------------
(***************************************************************************)
(* Proofs about ConformityCache for any minions, readers, number of state  *)
(* runs and search depth.                                                  *)
(***************************************************************************)
EXTENDS ConformityCache, WellFoundedInduction, TLAPS

(* A non-empty set of run ids has a newest one.                            *)
LEMMA MaxExists ==
  ASSUME NEW S \in SUBSET Jid, S # {}
  PROVE  Max(S) \in S /\ \A y \in S : Max(S) >= y
<1> USE ConformityAssumption
<1> DEFINE Below == {n \in Nat : \A y \in S : y <= n}
<1>1. MaxJid \in Below
  BY DEF Jid
<1>2. PICK n \in Below : \A k \in Below : ~(k < n)
  <2>1. IsWellFoundedOn(OpToRel(<, Nat), Nat)
    BY NatLessThanWellFounded
  <2>2. \E n \in Below : \A k \in Below : ~(<<k, n>> \in OpToRel(<, Nat))
    BY <1>1, <2>1, WFMin
  <2>. QED BY <2>2 DEF OpToRel
<1>3. n \in S
  <2>1. SUFFICES ASSUME n \notin S
                 PROVE  FALSE
    OBVIOUS
  <2>2. PICK s \in S : TRUE
    OBVIOUS
  <2>3. n \in Nat /\ n >= 1 /\ \A y \in S : y <= n - 1
    BY <2>1, <2>2 DEF Jid
  <2>4. n - 1 \in Below
    BY <2>3
  <2>. QED BY <1>2, <2>3, <2>4
<1>4. \E x \in S : \A y \in S : x >= y
  BY <1>3 DEF Jid
<1>. QED BY <1>4 DEF Max

(* An id that is at least every id of a set it is in is the set's newest.  *)
LEMMA MaxIs ==
  ASSUME NEW S \in SUBSET Jid, NEW j \in S, \A y \in S : j >= y
  PROVE  Max(S) = j
<1>1. Max(S) \in S /\ Max(S) >= j
  BY MaxExists
<1>2. j >= Max(S) /\ Max(S) \in Jid /\ j \in Jid
  BY <1>1
<1>3. \A a, b \in Jid : a >= b /\ b >= a => a = b
  BY ConformityAssumption DEF Jid
<1>. QED BY <1>1, <1>2, <1>3

LEMMA NewestType ==
  ASSUME NEW S \in SUBSET Jid
  PROVE  Newest(S) \in 0..MaxJid /\ (Newest(S) = 0 \/ Newest(S) \in S)
<1>1. CASE S = {}
  BY <1>1, ConformityAssumption DEF Newest
<1>2. CASE S # {}
  <2>1. Max(S) \in S
    BY <1>2, MaxExists
  <2>2. Max(S) \in Jid /\ Newest(S) = Max(S)
    BY <1>2, <2>1 DEF Newest
  <2>. QED BY <2>1, <2>2, ConformityAssumption DEF Jid
<1>. QED BY <1>1, <1>2

-----------------------------------------------------------------------------
(* Every variable keeps its type.                                          *)
THEOREM TypeCorrect == Spec => []TypeOK
<1> USE ConformityAssumption
<1>0. NoJob \in Job
  BY DEF NoJob, Job, Verdict
<1>1. Init => TypeOK
  BY <1>0 DEF Init, TypeOK, Jid
<1>2. ASSUME TypeOK, [Next]_vars
      PROVE  TypeOK'
  <2> USE <1>2 DEF TypeOK, masterVars
  <2>1. ASSUME NEW m \in Minion, Publish(m)
        PROVE  TypeOK'
    BY <2>1 DEF Publish, Jid
  <2>2. ASSUME NEW m \in Minion, NEW j \in Jid, NEW kind \in Kind,
               Land(m, j, kind)
        PROVE  TypeOK'
    <3>1. runs' \in [Minion -> [Jid -> [kind : Kind, at : Nat] \cup {Absent}]]
      BY <2>2 DEF Land
    <3>2. disturbed' \in [Minion -> BOOLEAN]
      BY <2>2 DEF Land
    <3>. QED BY <2>2, <3>1, <3>2 DEF Land
  <2>3. ASSUME NEW m \in Minion, NEW cutoff \in 2..(MaxJid + 1),
               Prune(m, cutoff)
        PROVE  TypeOK'
    <3>1. runs' \in [Minion -> [Jid -> [kind : Kind, at : Nat] \cup {Absent}]]
      BY <2>3 DEF Prune
    <3>. QED BY <2>3, <3>1 DEF Prune
  <2>4. ASSUME NEW m \in Minion, Lose(m)
        PROVE  TypeOK'
    BY <2>4 DEF Lose
  <2>5. ASSUME NEW r \in Reader, NEW m \in Minion, ListRuns(r, m)
        PROVE  TypeOK'
    <3>1. Newest(Landed(runs[m])) \in 0..MaxJid
      BY NewestType DEF Landed
    <3>2. Window(Landed(runs[m])) \in SUBSET Jid
      BY DEF Window, Landed
    <3>. QED BY <2>5, <3>1, <3>2 DEF ListRuns, Job, Verdict
  <2>6. ASSUME NEW r \in Reader, ReadEntry(r) \/ ScanEnd(r)
        PROVE  TypeOK'
    BY <1>0, <2>6 DEF ReadEntry, ScanEnd
  <2>7. ASSUME NEW r \in Reader, ScanRow(r)
        PROVE  TypeOK'
    <3>1. Max(job[r].left) \in Jid
      BY <2>7, MaxExists DEF ScanRow, Job
    <3>2. /\ Max(job[r].left) \in 0..MaxJid
          /\ \A kind \in {"pass", "fail"} : VerdictOf(kind) \in Verdict
      BY <3>1 DEF Jid, VerdictOf, Verdict
    <3>3. job' \in [Reader -> Job]
      <4> DEFINE j == Max(job[r].left)
                 v == VerdictOf(runs[job[r].minion][j].kind)
      <4>0. j \in 0..MaxJid
        BY <3>2
      <4>1. job[r] \in Job
        OBVIOUS
      <4>2. CASE runs[job[r].minion][j].kind \in {"pass", "fail"}
        <5>0. v \in Verdict
          BY <3>2, <4>2
        <5>1. job' = [job EXCEPT ![r] = [job[r] EXCEPT !.verdict = v, !.from = j]]
          BY <2>7, <4>2 DEF ScanRow, Real
        <5> HIDE DEF j, v
        <5>2. [job[r] EXCEPT !.verdict = v, !.from = j] \in Job
          BY <4>0, <4>1, <5>0 DEF Job
        <5>. QED BY <5>1, <5>2
      <4>3. CASE runs[job[r].minion][j].kind \notin {"pass", "fail"}
        <5>1. \/ job' = [job EXCEPT ![r] = [job[r] EXCEPT !.left = @ \ {j}]]
              \/ job' = [job EXCEPT ![r] = NoJob]
          BY <2>7, <4>3 DEF ScanRow
        <5> HIDE DEF j, v
        <5>2. [job[r] EXCEPT !.left = @ \ {j}] \in Job
          BY <4>1 DEF Job
        <5>. QED BY <1>0, <5>1, <5>2
      <4>. QED BY <4>2, <4>3
    <3>. QED BY <2>7, <3>3 DEF ScanRow
  <2>8. ASSUME NEW r \in Reader, Store(r)
        PROVE  TypeOK'
    BY <1>0, <2>8 DEF Store, Job, Entry
  <2>9. CASE UNCHANGED vars
    BY <2>9 DEF vars
  <2>. QED
    BY <2>1, <2>2, <2>3, <2>4, <2>5, <2>6, <2>7, <2>8, <2>9 DEF Next, Step
<1>. QED BY <1>1, <1>2, PTL DEF Spec
-----------------------------------------------------------------------------
(* EntryIsCurrent is not inductive alone.  Ids that are still out have not *)
(* been seen by anybody: so a run that lands as the newest one outdates    *)
(* every entry and every reader made before.                               *)
IdsKnown ==
  /\ \A m \in Minion : \A j \in published[m] :
       j < nextJid /\ runs[m][j] = Absent
  /\ \A m \in Minion : \A j \in Landed(runs[m]) : j < nextJid
  /\ \A m \in Minion : cache[m] # NoEntry =>
       cache[m].source < nextJid /\ cache[m].source \notin published[m]
  /\ \A r \in Reader : pc[r] # "idle" =>
       /\ job[r].newest < nextJid
       /\ job[r].newest \notin published[job[r].minion]

(* And a reader that listed the runs as they still are holds, at each      *)
(* stage of its work, what leads to the verdict they give.                 *)
AgreesWith(r, rows) ==
  /\ pc[r] = "entry" => job[r].left = Window(Landed(rows))
  /\ pc[r] = "scan" => Judge(rows, job[r].left) = CurrentVerdict(rows)
  /\ pc[r] = "store" =>
       [verdict |-> job[r].verdict, from |-> job[r].from] =
         CurrentVerdict(rows)

ReaderIsCurrent(r) ==
  LET m == job[r].minion IN
  /\ pc[r] \in {"entry", "scan"} =>
       job[r].verdict = "unknown" /\ job[r].from = 0
  /\ /\ pc[r] # "idle"
     /\ job[r].newest = Newest(Landed(runs[m]))
     /\ ~disturbed[m]
     => AgreesWith(r, runs[m])

EntryOf(m) ==
  /\ cache[m] # NoEntry
  /\ cache[m].source = Newest(Landed(runs[m]))
  /\ ~disturbed[m]
  => [verdict |-> cache[m].verdict, from |-> cache[m].from] =
       CurrentVerdict(runs[m])

IInv == IdsKnown /\ (\A r \in Reader : ReaderIsCurrent(r)) /\ EntryIsCurrent

(* Passing over a run that is no real highstate does not change what the   *)
(* rest of the window says (compute_last_highstate).                       *)
LEMMA SkipKeepsVerdict ==
  ASSUME NEW rows, NEW S \in SUBSET Jid, NEW j \in S,
         rows[j].kind \notin Real
  PROVE  Judge(rows, S \ {j}) = Judge(rows, S)
<1>1. {i \in S \ {j} : rows[i].kind \in Real}
        = {i \in S : rows[i].kind \in Real}
  OBVIOUS
<1>. QED BY <1>1 DEF Judge

(* The newest run of the window, if it is a real highstate, decides.       *)
LEMMA NewestRealDecides ==
  ASSUME NEW rows, NEW S \in SUBSET Jid, S # {},
         rows[Max(S)].kind \in Real
  PROVE  Judge(rows, S) =
           [verdict |-> VerdictOf(rows[Max(S)].kind), from |-> Max(S)]
<1> DEFINE real == {i \in S : rows[i].kind \in Real}
<1>1. Max(S) \in S /\ \A y \in S : Max(S) >= y
  BY MaxExists
<1>2. Max(S) \in real /\ real \in SUBSET Jid /\ \A y \in real : Max(S) >= y
  BY <1>1
<1>3. Max(real) = Max(S)
  BY <1>2, MaxIs
<1>. QED BY <1>2, <1>3 DEF Judge

(* A run that lands as the newest one becomes the newest id.               *)
LEMMA LandsNewest ==
  ASSUME NEW S \in SUBSET Jid, NEW j \in Jid, \A i \in S : ~(i > j)
  PROVE  Newest(S \cup {j}) = j
<1>1. \A a, b \in Jid : ~(a > b) => b >= a
  BY ConformityAssumption DEF Jid
<1>2. j >= j
  BY ConformityAssumption DEF Jid
<1>3. \A y \in S \cup {j} : j >= y
  BY <1>1, <1>2
<1>4. Max(S \cup {j}) = j
  BY <1>3, MaxIs
<1>. QED BY <1>4 DEF Newest

(* Every step keeps what has been seen apart from what is still out.       *)
LEMMA IdsStayKnown ==
  ASSUME TypeOK, IdsKnown, [Next]_vars
  PROVE  IdsKnown'
<1> USE ConformityAssumption DEF masterVars
<1>0. /\ nextJid \in Nat /\ nextJid >= 1
      /\ \A m \in Minion : published[m] \subseteq Jid
      /\ \A m \in Minion : Landed(runs[m]) \subseteq Jid
      /\ 0 \notin Jid /\ Jid \subseteq Nat
  BY DEF TypeOK, Jid, Landed
<1>1. ASSUME NEW m \in Minion, Publish(m)
      PROVE  IdsKnown'
  <2>1. /\ nextJid \in Jid /\ nextJid' = nextJid + 1
        /\ published' = [published EXCEPT ![m] = @ \cup {nextJid}]
        /\ UNCHANGED <<runs, cache, pc, job>>
    BY <1>1 DEF Publish
  <2>2. \A n \in Minion : runs[n][nextJid] = Absent
    BY <1>0, <2>1 DEF IdsKnown, Landed
  <2>3. \A n \in Minion : published'[n] \subseteq published[n] \cup {nextJid}
    BY <2>1 DEF TypeOK
  <2>4. \A x \in Nat : x < nextJid => x < nextJid + 1 /\ x # nextJid
    BY <1>0
  <2>5. \A n \in Minion : \A j \in published'[n] :
          j < nextJid' /\ runs'[n][j] = Absent
    <3> SUFFICES ASSUME NEW n \in Minion, NEW j \in published'[n]
                 PROVE  j < nextJid + 1 /\ runs[n][j] = Absent
      BY <2>1
    <3>1. CASE j = nextJid
      BY <1>0, <2>2, <3>1
    <3>2. CASE j \in published[n]
      <4>1. j < nextJid /\ runs[n][j] = Absent
        BY <3>2 DEF IdsKnown
      <4>2. j \in Nat
        BY <1>0, <3>2
      <4>. QED BY <2>4, <4>1, <4>2
    <3>. QED BY <2>3, <3>1, <3>2
  <2>6. \A n \in Minion : \A j \in Landed(runs'[n]) : j < nextJid'
    BY <1>0, <2>1, <2>4 DEF IdsKnown
  <2>7. \A n \in Minion : cache'[n] # NoEntry =>
          cache'[n].source < nextJid' /\ cache'[n].source \notin published'[n]
    <3> SUFFICES ASSUME NEW n \in Minion, cache[n] # NoEntry
                 PROVE  /\ cache[n].source < nextJid + 1
                        /\ cache[n].source \notin published'[n]
      BY <2>1
    <3>1. cache[n].source \in Nat
      BY DEF TypeOK, Entry
    <3>. QED BY <2>3, <2>4, <3>1 DEF IdsKnown
  <2>8. \A r \in Reader : pc'[r] # "idle" =>
          /\ job'[r].newest < nextJid'
          /\ job'[r].newest \notin published'[job'[r].minion]
    <3> SUFFICES ASSUME NEW r \in Reader, pc[r] # "idle"
                 PROVE  /\ job[r].newest < nextJid + 1
                        /\ job[r].newest \notin published'[job[r].minion]
      BY <2>1
    <3>1. job[r].newest \in Nat /\ job[r].minion \in Minion
      BY DEF TypeOK, Job
    <3>. QED BY <2>3, <2>4, <3>1 DEF IdsKnown
  <2>. QED BY <2>5, <2>6, <2>7, <2>8 DEF IdsKnown
<1>2. ASSUME UNCHANGED <<nextJid, cache, pc, job>>,
             NEW m \in Minion, NEW j \in Jid, NEW row,
             runs' = [runs EXCEPT ![m] = row],
             published' = [published EXCEPT ![m] = @ \ {j}],
             Landed(row) \subseteq Landed(runs[m]) \cup {j},
             j < nextJid
      PROVE  IdsKnown'
  <2>1. \A n \in Minion : published'[n] \subseteq published[n]
    BY <1>2 DEF TypeOK
  <2>2. \A n \in Minion : \A i \in Landed(runs'[n]) :
          i \in Landed(runs[n]) \/ (n = m /\ i = j)
    BY <1>2 DEF TypeOK
  <2>3. \A n \in Minion : \A i \in published'[n] :
          i < nextJid' /\ runs'[n][i] = Absent
    <3> SUFFICES ASSUME NEW n \in Minion, NEW i \in published'[n]
                 PROVE  i < nextJid' /\ runs'[n][i] = Absent
      OBVIOUS
    <3>1. i < nextJid /\ runs[n][i] = Absent /\ i \in Jid
      BY <1>0, <2>1 DEF IdsKnown
    <3>2. i \notin Landed(runs[n]) /\ ~(n = m /\ i = j)
      BY <1>2, <3>1 DEF Landed, TypeOK
    <3>3. i \notin Landed(runs'[n])
      BY <2>2, <3>2
    <3>. QED BY <1>2, <3>1, <3>3 DEF Landed
  <2>. QED BY <1>2, <2>1, <2>2, <2>3 DEF IdsKnown, TypeOK, Job
<1>3. ASSUME NEW m \in Minion, NEW j \in Jid, NEW kind \in Kind,
             Land(m, j, kind)
      PROVE  IdsKnown'
  <2> DEFINE row == [runs[m] EXCEPT ![j] = [kind |-> kind, at |-> landings[m] + 1]]
  <2>1. Landed(row) \subseteq Landed(runs[m]) \cup {j}
    BY DEF Landed, TypeOK
  <2>2. runs' = [runs EXCEPT ![m] = row]
    BY <1>3 DEF Land
  <2>3. j < nextJid
    BY <1>3 DEF Land, IdsKnown
  <2> HIDE DEF row
  <2>. QED BY <1>2, <1>3, <2>1, <2>2, <2>3 DEF Land
<1>4. ASSUME NEW m \in Minion, NEW cutoff \in 2..(MaxJid + 1),
             Prune(m, cutoff)
      PROVE  IdsKnown'
  <2>1. /\ UNCHANGED <<nextJid, published, cache, pc, job>>
        /\ \A n \in Minion, i \in Jid :
             runs'[n][i] = runs[n][i] \/ runs'[n][i] = Absent
    BY <1>4 DEF Prune, TypeOK
  <2>2. \A n \in Minion : Landed(runs'[n]) \subseteq Landed(runs[n])
    BY <2>1 DEF Landed
  <2>3. \A n \in Minion : \A i \in published'[n] :
          i < nextJid' /\ runs'[n][i] = Absent
    BY <1>0, <2>1 DEF IdsKnown
  <2>. QED BY <2>1, <2>2, <2>3 DEF IdsKnown
<1>5. ASSUME NEW r \in Reader, NEW m \in Minion, ListRuns(r, m)
      PROVE  IdsKnown'
  <2> DEFINE newest == Newest(Landed(runs[m]))
  <2>1. newest = 0 \/ newest \in Landed(runs[m])
    BY <1>0, NewestType
  <2>2. newest < nextJid /\ newest \notin published[m]
    <3>1. CASE newest = 0
      <4>1. 0 < nextJid /\ 0 \notin published[m]
        BY <1>0
      <4>. QED BY <3>1, <4>1
    <3>2. CASE newest \in Landed(runs[m])
      BY <3>2 DEF IdsKnown, Landed
    <3>. QED BY <2>1, <3>1, <3>2
  <2>3. /\ UNCHANGED <<nextJid, published, runs, cache>>
        /\ job'[r].newest = newest /\ job'[r].minion = m
        /\ \A q \in Reader : q # r => job'[q] = job[q] /\ pc'[q] = pc[q]
    BY <1>5 DEF ListRuns, TypeOK
  <2> HIDE DEF newest
  <2>. QED BY <2>2, <2>3 DEF IdsKnown
<1>6. ASSUME NEW r \in Reader, ReadEntry(r) \/ ScanRow(r) \/ ScanEnd(r)
      PROVE  IdsKnown'
  <2>1. /\ UNCHANGED <<nextJid, published, runs, cache>>
        /\ \A q \in Reader : pc'[q] # "idle" =>
             /\ pc[q] # "idle"
             /\ job'[q].newest = job[q].newest
             /\ job'[q].minion = job[q].minion
    <3>1. CASE ReadEntry(r)
      BY <3>1 DEF ReadEntry, TypeOK
    <3>2. CASE ScanEnd(r)
      BY <3>2 DEF ScanEnd, TypeOK
    <3>3. CASE ScanRow(r)
      <4>1. /\ UNCHANGED <<nextJid, published, runs, cache>>
            /\ pc[r] = "scan"
            /\ \A q \in Reader : q # r => job'[q] = job[q] /\ pc'[q] = pc[q]
        BY <3>3 DEF ScanRow, TypeOK
      <4>2. job[r] \in Job
        BY DEF TypeOK
      <4>3. \/ pc'[r] = "idle"
            \/ job'[r].newest = job[r].newest /\ job'[r].minion = job[r].minion
        <5> DEFINE j == Max(job[r].left)
                   v == VerdictOf(runs[job[r].minion][j].kind)
        <5>1. \/ job'[r] = [job[r] EXCEPT !.verdict = v, !.from = j]
              \/ job'[r] = [job[r] EXCEPT !.left = @ \ {j}]
              \/ pc'[r] = "idle"
          BY <3>3 DEF ScanRow, TypeOK
        <5> HIDE DEF j, v
        <5>. QED BY <4>2, <5>1 DEF Job
      <4>. QED BY <4>1, <4>3
    <3>. QED BY <1>6, <3>1, <3>2, <3>3
  <2>. QED BY <2>1 DEF IdsKnown
<1>7. ASSUME NEW r \in Reader, Store(r)
      PROVE  IdsKnown'
  <2>1. /\ UNCHANGED <<nextJid, published, runs>>
        /\ pc[r] = "store"
        /\ \A m \in Minion :
             \/ cache'[m] = cache[m]
             \/ m = job[r].minion /\ cache'[m].source = job[r].newest
        /\ \A q \in Reader : pc'[q] # "idle" =>
             pc[q] # "idle" /\ job'[q] = job[q]
    BY <1>7 DEF Store, TypeOK
  <2>. QED BY <2>1 DEF IdsKnown
<1>8. ASSUME NEW m \in Minion, Lose(m)
      PROVE  IdsKnown'
  BY <1>8 DEF Lose, IdsKnown, TypeOK
<1>9. CASE UNCHANGED vars
  BY <1>9 DEF vars, IdsKnown
<1>. QED BY <1>1, <1>3, <1>4, <1>5, <1>6, <1>7, <1>8, <1>9 DEF Next, Step

(* A landing or a pruning touches one minion.  Either it counts as a       *)
(* disturbance, or the run that landed is the newest and nobody who read   *)
(* or stored anything before had seen its id.                              *)
LEMMA MasterKeepsCurrent ==
  ASSUME TypeOK, IInv, UNCHANGED <<cache, pc, job>>,
         NEW m \in Minion,
         \A n \in Minion : n # m =>
           runs'[n] = runs[n] /\ disturbed'[n] = disturbed[n],
         disturbed'[m] \/ Newest(Landed(runs'[m])) \in published[m]
  PROVE  (\A r \in Reader : ReaderIsCurrent(r)') /\ EntryIsCurrent'
<1>1. ASSUME NEW r \in Reader
      PROVE  ReaderIsCurrent(r)'
  <2>1. job[r].minion \in Minion
    BY DEF TypeOK, Job
  <2>2. CASE job[r].minion = m
    <3>1. pc[r] # "idle" => job[r].newest \notin published[m]
      BY <2>2 DEF IInv, IdsKnown
    <3>. QED BY <2>2, <3>1 DEF IInv, ReaderIsCurrent
  <2>3. CASE job[r].minion # m
    BY <2>1, <2>3 DEF IInv, ReaderIsCurrent, AgreesWith
  <2>. QED BY <2>2, <2>3
<1>2. ASSUME NEW n \in Minion
      PROVE  EntryOf(n)'
  <2>1. CASE n = m
    BY <2>1 DEF IInv, IdsKnown, EntryOf
  <2>2. CASE n # m
    BY <2>2 DEF IInv, EntryIsCurrent, EntryOf
  <2>. QED BY <2>1, <2>2
<1>. QED BY <1>1, <1>2 DEF EntryIsCurrent, EntryOf

(* A reader's own step keeps it on the way to the verdict its runs give.   *)
LEMMA ReaderStaysCurrent ==
  ASSUME TypeOK, IInv, NEW r \in Reader,
         ReadEntry(r) \/ ScanRow(r) \/ ScanEnd(r) \/ Store(r)
  PROVE  ReaderIsCurrent(r)'
<1> DEFINE m == job[r].minion
<1>0. job[r] \in Job /\ m \in Minion /\ job[r].left \in SUBSET Jid
  BY DEF TypeOK, Job
<1>1. CASE ReadEntry(r)
  <2>1. UNCHANGED <<runs, disturbed>> /\ pc[r] = "entry"
    BY <1>1 DEF ReadEntry, masterVars
  <2>2. \/ pc'[r] = "idle"
        \/ pc'[r] = "scan" /\ job'[r] = job[r]
    BY <1>1 DEF ReadEntry, TypeOK
  <2>. QED BY <2>1, <2>2
       DEF IInv, ReaderIsCurrent, AgreesWith, CurrentVerdict
<1>2. CASE ScanEnd(r)
  <2>1. /\ UNCHANGED <<runs, disturbed, job>>
        /\ pc[r] = "scan" /\ pc'[r] = "store" /\ job[r].left = {}
    BY <1>2 DEF ScanEnd, masterVars, TypeOK
  <2>2. Judge(runs[m], {}) = [verdict |-> "unknown", from |-> 0]
    BY DEF Judge
  <2>. QED BY <2>1, <2>2 DEF IInv, ReaderIsCurrent, AgreesWith
<1>3. CASE ScanRow(r)
  <2> DEFINE rows == runs[m]
             j == Max(job[r].left)
             v == VerdictOf(rows[j].kind)
  <2>1. /\ UNCHANGED <<runs, disturbed>>
        /\ pc[r] = "scan" /\ job[r].left # {}
    BY <1>3 DEF ScanRow, masterVars
  <2>2. CASE rows[j].kind \in {"pass", "fail"}
    <3>1. /\ job'[r] = [job[r] EXCEPT !.verdict = v, !.from = j]
          /\ pc'[r] = "store"
      BY <1>3, <2>2 DEF ScanRow, Real, TypeOK
    <3>0. rows[j].kind \in Real
      BY <2>2 DEF Real
    <3>2. Judge(rows, job[r].left) = [verdict |-> v, from |-> j]
      BY <1>0, <2>1, <3>0, NewestRealDecides
    <3> HIDE DEF j, v, m
    <3>3. /\ job'[r].verdict = v /\ job'[r].from = j
          /\ job'[r].newest = job[r].newest /\ job'[r].minion = job[r].minion
      BY <1>0, <3>1 DEF Job
    <3>. QED BY <2>1, <3>1, <3>2, <3>3
         DEF IInv, ReaderIsCurrent, AgreesWith, m
  <2>3. CASE rows[j].kind \notin Real
    <3>1. /\ job'[r] = [job[r] EXCEPT !.left = @ \ {j}]
          /\ pc'[r] = pc[r]
      BY <1>3, <2>3 DEF ScanRow, Real, TypeOK
    <3>2. j \in job[r].left
      BY <1>0, <2>1, MaxExists
    <3>3. Judge(rows, job[r].left \ {j}) = Judge(rows, job[r].left)
      BY <1>0, <2>3, <3>2, SkipKeepsVerdict
    <3> HIDE DEF j, v, m
    <3>4. /\ job'[r].left = job[r].left \ {j}
          /\ job'[r].verdict = job[r].verdict /\ job'[r].from = job[r].from
          /\ job'[r].newest = job[r].newest /\ job'[r].minion = job[r].minion
      BY <1>0, <3>1 DEF Job
    <3>. QED BY <2>1, <3>1, <3>3, <3>4
         DEF IInv, ReaderIsCurrent, AgreesWith, m
  <2>4. CASE rows[j].kind = "text"
    <3>1. pc'[r] = "idle"
      BY <1>3, <2>4 DEF ScanRow, Real, TypeOK
    <3>. QED BY <3>1 DEF ReaderIsCurrent
  <2>. QED BY <2>2, <2>3, <2>4 DEF Real
<1>4. CASE Store(r)
  BY <1>4 DEF Store, ReaderIsCurrent, AgreesWith, TypeOK
<1>. QED BY <1>1, <1>2, <1>3, <1>4

(* Every step of a reader: it leaves the other readers as they were, and   *)
(* what it stores is what the runs it listed say.                          *)
LEMMA ReaderKeepsCurrent ==
  ASSUME TypeOK, IInv, NEW r \in Reader,
         Step(r) \/ \E m \in Minion : ListRuns(r, m)
  PROVE  (\A q \in Reader : ReaderIsCurrent(q)') /\ EntryIsCurrent'
<1>0. /\ UNCHANGED masterVars
      /\ \A q \in Reader : q # r => pc'[q] = pc[q] /\ job'[q] = job[q]
  BY DEF Step, ReadEntry, ScanRow, ScanEnd, Store, ListRuns, TypeOK
<1>1. UNCHANGED <<runs, disturbed>>
  BY <1>0 DEF masterVars
<1>2. ASSUME NEW q \in Reader, q # r
      PROVE  ReaderIsCurrent(q)'
  BY <1>0, <1>1, <1>2 DEF IInv, ReaderIsCurrent, AgreesWith
<1>3. ReaderIsCurrent(r)'
  <2>1. CASE Step(r)
    BY <2>1, ReaderStaysCurrent DEF Step
  <2>2. ASSUME NEW m \in Minion, ListRuns(r, m)
        PROVE  ReaderIsCurrent(r)'
    <3>1. /\ pc'[r] = "entry"
          /\ job'[r].minion = m /\ job'[r].left = Window(Landed(runs[m]))
          /\ job'[r].verdict = "unknown" /\ job'[r].from = 0
      BY <2>2 DEF ListRuns, TypeOK
    <3>. QED BY <1>1, <3>1 DEF ReaderIsCurrent, AgreesWith
  <2>. QED BY <2>1, <2>2
<1>4. EntryIsCurrent'
  <2>1. CASE UNCHANGED cache
    BY <1>1, <2>1 DEF IInv, EntryIsCurrent
  <2>2. CASE Store(r)
    <3> DEFINE m == job[r].minion
    <3>1. /\ pc[r] = "store"
          /\ cache'[m].source = job[r].newest
          /\ cache'[m].verdict = job[r].verdict
          /\ cache'[m].from = job[r].from
          /\ \A n \in Minion : n # m => cache'[n] = cache[n]
      BY <2>2 DEF Store, TypeOK, Job
    <3>2. /\ job[r].newest = Newest(Landed(runs[m]))
          /\ ~disturbed[m]
          => [verdict |-> job[r].verdict, from |-> job[r].from] =
               CurrentVerdict(runs[m])
      BY <3>1 DEF IInv, ReaderIsCurrent, AgreesWith
    <3>3. ASSUME NEW n \in Minion
          PROVE  EntryOf(n)'
      <4>1. CASE n = m
        BY <1>1, <3>1, <3>2, <4>1 DEF EntryOf
      <4>2. CASE n # m
        BY <1>1, <3>1, <4>2 DEF IInv, EntryIsCurrent, EntryOf
      <4>. QED BY <4>1, <4>2
    <3>. QED BY <3>3 DEF EntryIsCurrent, EntryOf
  <2>. QED BY <2>1, <2>2 DEF Step, ReadEntry, ScanRow, ScanEnd, ListRuns
<1>. QED BY <1>2, <1>3, <1>4

(* However readers race, an entry stamped with the newest run holds the    *)
(* verdict a computation from scratch would give, unless an older run      *)
(* landed or one was pruned since (conformity_entry_for).                  *)
THEOREM EntryCorrect == Spec => []EntryIsCurrent
<1> USE ConformityAssumption
<1>1. Init => IInv
  BY DEF Init, IInv, IdsKnown, ReaderIsCurrent, AgreesWith, EntryIsCurrent,
         Landed, NoJob
<1>2. ASSUME TypeOK, IInv, [Next]_vars
      PROVE  IInv'
  <2>1. IdsKnown'
    BY <1>2, IdsStayKnown DEF IInv
  <2>2. ASSUME NEW m \in Minion, Publish(m)
        PROVE  (\A r \in Reader : ReaderIsCurrent(r)') /\ EntryIsCurrent'
    BY <1>2, <2>2
    DEF Publish, IInv, ReaderIsCurrent, AgreesWith, EntryIsCurrent
  <2>3. ASSUME NEW m \in Minion, Lose(m)
        PROVE  (\A r \in Reader : ReaderIsCurrent(r)') /\ EntryIsCurrent'
    <3>1. /\ UNCHANGED <<runs, disturbed, pc, job>>
          /\ \A n \in Minion : cache'[n] = NoEntry \/ cache'[n] = cache[n]
      BY <1>2, <2>3 DEF Lose, masterVars, TypeOK
    <3>. QED BY <1>2, <3>1
         DEF IInv, ReaderIsCurrent, AgreesWith, EntryIsCurrent
  <2>4. ASSUME NEW m \in Minion, NEW j \in Jid, NEW kind \in Kind,
               Land(m, j, kind)
        PROVE  (\A r \in Reader : ReaderIsCurrent(r)') /\ EntryIsCurrent'
    <3>1. /\ UNCHANGED <<cache, pc, job>>
          /\ j \in published[m]
          /\ \A n \in Minion : n # m =>
               runs'[n] = runs[n] /\ disturbed'[n] = disturbed[n]
      BY <1>2, <2>4 DEF Land, TypeOK
    <3>2. disturbed'[m] <=> \E i \in Landed(runs[m]) : i > j
      BY <1>2, <2>4 DEF Land, TypeOK
    <3>3. Landed(runs'[m]) = Landed(runs[m]) \cup {j}
      <4>1. /\ runs'[m] \in [Jid -> [kind : Kind, at : Nat] \cup {Absent}]
            /\ runs'[m][j] = [kind |-> kind, at |-> landings[m] + 1]
            /\ \A i \in Jid : i # j => runs'[m][i] = runs[m][i]
        BY <1>2, <2>4 DEF Land, TypeOK
      <4>2. [kind |-> kind, at |-> landings[m] + 1].kind # "absent"
        BY DEF Kind
      <4>3. runs'[m][j] # Absent
        BY <4>1, <4>2 DEF Absent
      <4>. QED BY <4>1, <4>3 DEF Landed
    <3>4. disturbed'[m] \/ Newest(Landed(runs'[m])) \in published[m]
      <4> DEFINE S == Landed(runs[m])
      <4>1. S \in SUBSET Jid
        BY DEF Landed
      <4>2. CASE disturbed'[m]
        BY <4>2
      <4>3. CASE ~disturbed'[m]
        <5>1. \A i \in S : ~(i > j)
          BY <3>2, <4>3
        <5> HIDE DEF S
        <5>2. Newest(S \cup {j}) = j
          BY <4>1, <5>1, LandsNewest
        <5>. QED BY <3>1, <3>3, <5>2 DEF S
      <4>. QED BY <4>2, <4>3
    <3>. QED BY <1>2, <3>1, <3>4, MasterKeepsCurrent
  <2>5. ASSUME NEW m \in Minion, NEW cutoff \in 2..(MaxJid + 1),
               Prune(m, cutoff)
        PROVE  (\A r \in Reader : ReaderIsCurrent(r)') /\ EntryIsCurrent'
    <3>1. /\ UNCHANGED <<cache, pc, job>>
          /\ disturbed'[m]
          /\ \A n \in Minion : n # m =>
               runs'[n] = runs[n] /\ disturbed'[n] = disturbed[n]
      BY <1>2, <2>5 DEF Prune, TypeOK
    <3>. QED BY <1>2, <3>1, MasterKeepsCurrent
  <2>6. ASSUME NEW q \in Reader, Step(q) \/ \E m \in Minion : ListRuns(q, m)
        PROVE  (\A r \in Reader : ReaderIsCurrent(r)') /\ EntryIsCurrent'
    BY <1>2, <2>6, ReaderKeepsCurrent
  <2>7. ASSUME UNCHANGED vars
        PROVE  (\A r \in Reader : ReaderIsCurrent(r)') /\ EntryIsCurrent'
    <3>1. UNCHANGED <<runs, disturbed, cache, pc, job>>
      BY <2>7 DEF vars, masterVars
    <3>. QED BY <1>2, <3>1
         DEF IInv, ReaderIsCurrent, AgreesWith, EntryIsCurrent
  <2>. QED
    BY <1>2, <2>1, <2>2, <2>3, <2>4, <2>5, <2>6, <2>7 DEF Next, IInv
<1>3. IInv => EntryIsCurrent
  BY DEF IInv
<1>. QED BY <1>1, <1>2, <1>3, TypeCorrect, PTL DEF Spec
-----------------------------------------------------------------------------
(* A verdict names a run that has landed, and whose id is therefore never  *)
(* out again: nothing can come back under it and say something else.       *)
Said(m, from, verdict) ==
  from # 0 =>
    /\ from \in Jid /\ from < nextJid /\ from \notin published[m]
    /\ \/ runs[m][from] = Absent
       \/ runs[m][from].kind \in Real /\ verdict = VerdictOf(runs[m][from].kind)

Sourced ==
  /\ \A m \in Minion : cache[m] # NoEntry => Said(m, cache[m].from, cache[m].verdict)
  /\ \A r \in Reader : pc[r] # "idle" => Said(job[r].minion, job[r].from, job[r].verdict)

(* What was said stays said while runs are published, land and are pruned. *)
LEMMA MasterKeepsSaid ==
  ASSUME TypeOK, IdsKnown, NEW n \in Minion, NEW from \in 0..MaxJid, NEW verdict,
         Said(n, from, verdict),
         \/ \E m \in Minion : Publish(m)
         \/ \E m \in Minion, j \in Jid, kind \in Kind : Land(m, j, kind)
         \/ \E m \in Minion, cutoff \in 2..(MaxJid + 1) : Prune(m, cutoff)
  PROVE  Said(n, from, verdict)'
<1> USE ConformityAssumption
<1> SUFFICES ASSUME from # 0 PROVE Said(n, from, verdict)'
  BY DEF Said
<1>0. /\ nextJid \in Nat /\ from \in Nat /\ from \in Jid
      /\ from < nextJid /\ from \notin published[n]
      /\ \/ runs[n][from] = Absent
         \/ runs[n][from].kind \in Real /\ verdict = VerdictOf(runs[n][from].kind)
  BY DEF TypeOK, Said
<1>1. ASSUME NEW m \in Minion, Publish(m)
      PROVE  Said(n, from, verdict)'
  <2>1. nextJid' = nextJid + 1 /\ runs' = runs
    BY <1>1 DEF Publish
  <2>2. published'[n] \subseteq published[n] \cup {nextJid}
    BY <1>1 DEF Publish, TypeOK
  <2>3. from < nextJid' /\ from \notin published'[n]
    BY <1>0, <2>1, <2>2
  <2> QED
    BY <1>0, <2>1, <2>3 DEF Said
<1>2. ASSUME NEW m \in Minion, NEW j \in Jid, NEW kind \in Kind, Land(m, j, kind)
      PROVE  Said(n, from, verdict)'
  <2>1. nextJid' = nextJid /\ published'[n] \subseteq published[n]
    BY <1>2 DEF Land, TypeOK
  <2>2. runs'[n][from] = runs[n][from]
    BY <1>0, <1>2 DEF Land, TypeOK
  <2> QED
    BY <1>0, <2>1, <2>2 DEF Said
<1>3. ASSUME NEW m \in Minion, NEW cutoff \in 2..(MaxJid + 1), Prune(m, cutoff)
      PROVE  Said(n, from, verdict)'
  <2>1. nextJid' = nextJid /\ published' = published
    BY <1>3 DEF Prune
  <2>2. runs'[n][from] = runs[n][from] \/ runs'[n][from] = Absent
    BY <1>0, <1>3 DEF Prune, TypeOK
  <2> QED
    BY <1>0, <2>1, <2>2 DEF Said
<1> QED
  BY <1>1, <1>2, <1>3

(* The row a scan stops at has landed, so its id is not out any more.      *)
LEMMA ScanFindsSource ==
  ASSUME TypeOK, IdsKnown, Sourced, NEW r \in Reader, ScanRow(r)
  PROVE  /\ UNCHANGED <<nextJid, published, runs, cache>>
         /\ \/ pc'[r] = "idle"
            \/ Said(job'[r].minion, job'[r].from, job'[r].verdict)
<1> USE ConformityAssumption
<1> DEFINE m == job[r].minion
           j == Max(job[r].left)
           v == VerdictOf(runs[m][j].kind)
<1>0. job[r] \in Job /\ m \in Minion /\ job[r].left \in SUBSET Jid
  BY DEF TypeOK, Job
<1>1. UNCHANGED <<nextJid, published, runs, cache>> /\ pc[r] = "scan" /\ j \in Jid
  BY <1>0, MaxExists DEF ScanRow, masterVars
<1>2. CASE runs[m][j].kind \in {"pass", "fail"}
  <2>1. runs[m][j] # Absent
    BY <1>2 DEF Absent
  <2>2. j < nextJid /\ j \notin published[m]
    BY <1>0, <1>1, <2>1 DEF IdsKnown, Landed
  <2>3. Said(m, j, v)
    BY <1>1, <1>2, <2>2 DEF Said, Real
  <2>4. job'[r] = [job[r] EXCEPT !.verdict = v, !.from = j]
    BY <1>2 DEF ScanRow, Real, TypeOK
  <2> HIDE DEF v, j, m
  <2>5. job'[r].minion = job[r].minion /\ job'[r].from = j /\ job'[r].verdict = v
    BY <1>0, <2>4 DEF Job
  <2> QED
    BY <1>1, <2>3, <2>5 DEF m
<1>3. CASE runs[m][j].kind \notin Real
  <2>1. job'[r] = [job[r] EXCEPT !.left = @ \ {j}]
    BY <1>3 DEF ScanRow, Real, TypeOK
  <2> HIDE DEF j
  <2>2. /\ job'[r].minion = job[r].minion /\ job'[r].from = job[r].from
        /\ job'[r].verdict = job[r].verdict
    BY <1>0, <2>1 DEF Job
  <2> QED
    BY <1>1, <2>2 DEF Sourced
<1>4. CASE runs[m][j].kind = "text"
  <2>1. pc'[r] = "idle"
    BY <1>4 DEF ScanRow, Real, TypeOK
  <2> QED
    BY <1>1, <2>1
<1> QED
  BY <1>2, <1>3, <1>4 DEF Real

(* A verdict in the cache is what the run it names said, for any number of *)
(* readers that raced to store it, unless that run has been pruned since   *)
(* (conformity_entry_for, compute_last_highstate).                         *)
THEOREM SourceCorrect == Spec => []VerdictHasSource
<1> USE ConformityAssumption
<1>1. Init => IdsKnown /\ Sourced
  BY DEF Init, IdsKnown, Sourced, Landed
<1>2. ASSUME TypeOK, IdsKnown, Sourced, [Next]_vars
      PROVE  Sourced'
  <2>0. /\ \A m \in Minion : cache[m] # NoEntry => cache[m].from \in 0..MaxJid
        /\ \A r \in Reader : job[r].minion \in Minion /\ job[r].from \in 0..MaxJid
    BY <1>2 DEF TypeOK, Entry, Job
  <2>1. ASSUME \/ \E m \in Minion : Publish(m)
               \/ \E m \in Minion, j \in Jid, kind \in Kind : Land(m, j, kind)
               \/ \E m \in Minion, cutoff \in 2..(MaxJid + 1) : Prune(m, cutoff)
        PROVE  Sourced'
    <3>1. UNCHANGED <<cache, pc, job>>
      BY <2>1 DEF Publish, Land, Prune
    <3>2. \A m \in Minion : cache[m] # NoEntry =>
            Said(m, cache[m].from, cache[m].verdict)'
      <4> SUFFICES ASSUME NEW m \in Minion, cache[m] # NoEntry
                   PROVE  Said(m, cache[m].from, cache[m].verdict)'
        OBVIOUS
      <4> DEFINE f == cache[m].from
                 v == cache[m].verdict
      <4>1. f \in 0..MaxJid /\ Said(m, f, v) /\ f' = f /\ v' = v
        BY <1>2, <2>0, <3>1 DEF Sourced
      <4> HIDE DEF f, v
      <4>2. \A g \in 0..MaxJid, w \in {v} : Said(m, g, w) => Said(m, g, w)'
        BY <1>2, <2>1, MasterKeepsSaid
      <4>3. Said(m, f, v)'
        BY <4>1, <4>2 DEF Said
      <4> QED
        BY <4>3 DEF f, v
    <3>3. \A r \in Reader : pc[r] # "idle" =>
            Said(job[r].minion, job[r].from, job[r].verdict)'
      <4> SUFFICES ASSUME NEW r \in Reader, pc[r] # "idle"
                   PROVE  Said(job[r].minion, job[r].from, job[r].verdict)'
        OBVIOUS
      <4> DEFINE f == job[r].from
                 v == job[r].verdict
                 m == job[r].minion
      <4>1. m \in Minion /\ f \in 0..MaxJid /\ Said(m, f, v) /\ f' = f /\ v' = v /\ m' = m
        BY <1>2, <2>0, <3>1 DEF Sourced
      <4> HIDE DEF f, v, m
      <4>2. \A n \in Minion, g \in 0..MaxJid, w \in {v} : Said(n, g, w) => Said(n, g, w)'
        BY <1>2, <2>1, MasterKeepsSaid
      <4>3. Said(m, f, v)'
        BY <4>1, <4>2 DEF Said
      <4> QED
        BY <4>3 DEF f, v, m
    <3> QED
      BY <3>1, <3>2, <3>3 DEF Sourced
  <2>2. ASSUME NEW m \in Minion, Lose(m)
        PROVE  Sourced'
    <3>1. /\ UNCHANGED <<nextJid, published, runs, pc, job>>
          /\ \A n \in Minion : cache'[n] = NoEntry \/ cache'[n] = cache[n]
      BY <1>2, <2>2 DEF Lose, masterVars, TypeOK
    <3> QED
      BY <1>2, <3>1 DEF Sourced, Said
  <2>3. ASSUME NEW r \in Reader, NEW m \in Minion, ListRuns(r, m)
        PROVE  Sourced'
    <3>1. /\ UNCHANGED <<nextJid, published, runs, cache>>
          /\ job'[r].from = 0
          /\ \A q \in Reader : q # r => pc'[q] = pc[q] /\ job'[q] = job[q]
      BY <1>2, <2>3 DEF ListRuns, masterVars, TypeOK
    <3> QED
      BY <1>2, <3>1 DEF Sourced, Said
  <2>4. ASSUME NEW r \in Reader, ReadEntry(r) \/ ScanEnd(r)
        PROVE  Sourced'
    <3>1. /\ UNCHANGED <<nextJid, published, runs, cache>>
          /\ \A q \in Reader : pc'[q] # "idle" => pc[q] # "idle" /\ job'[q] = job[q]
      BY <1>2, <2>4 DEF ReadEntry, ScanEnd, masterVars, TypeOK
    <3> QED
      BY <1>2, <3>1 DEF Sourced, Said
  <2>5. ASSUME NEW r \in Reader, ScanRow(r)
        PROVE  Sourced'
    <3>1. /\ UNCHANGED <<nextJid, published, runs, cache>>
          /\ \/ pc'[r] = "idle"
             \/ Said(job'[r].minion, job'[r].from, job'[r].verdict)
      BY <1>2, <2>5, ScanFindsSource
    <3>2. \A q \in Reader : q # r => pc'[q] = pc[q] /\ job'[q] = job[q]
      BY <1>2, <2>5 DEF ScanRow, TypeOK
    <3> QED
      BY <1>2, <3>1, <3>2 DEF Sourced, Said
  <2>6. ASSUME NEW r \in Reader, Store(r)
        PROVE  Sourced'
    <3>1. /\ UNCHANGED <<nextJid, published, runs>> /\ pc[r] = "store"
          /\ \A m \in Minion :
               \/ cache'[m] = cache[m]
               \/ /\ m = job[r].minion
                  /\ cache'[m].from = job[r].from /\ cache'[m].verdict = job[r].verdict
          /\ \A q \in Reader : pc'[q] # "idle" => pc[q] # "idle" /\ job'[q] = job[q]
      BY <1>2, <2>6 DEF Store, masterVars, TypeOK
    <3> QED
      BY <1>2, <3>1 DEF Sourced, Said
  <2>7. CASE UNCHANGED vars
    BY <1>2, <2>7 DEF vars, masterVars, Sourced, Said
  <2> QED
    BY <1>2, <2>1, <2>2, <2>3, <2>4, <2>5, <2>6, <2>7 DEF Next, Step
<1>3. ASSUME TypeOK, IdsKnown, [Next]_vars
      PROVE  IdsKnown'
  BY <1>3, IdsStayKnown
<1>4. Sourced => VerdictHasSource
  BY DEF Sourced, Said, VerdictHasSource
<1> QED
  BY <1>1, <1>2, <1>3, <1>4, TypeCorrect, PTL DEF Spec
=============================================================================
