--------------------------- MODULE RequestsProofs ----------------------------
(***************************************************************************)
(* Proofs about Requests for any threads, minions, kinds of request and    *)
(* bounds, and any state of the mirrors in which a key names one row.      *)
(***************************************************************************)
EXTENDS Requests, TLAPS

(* What a request asks next is a source that it may ask.                   *)
LEMMA Sources ==
  ASSUME NEW s \in Queue, s # <<>>
  PROVE  /\ Head(s) \in Kind \cup {"cache"}
         /\ Len(s) > 1 => /\ Tail(s) \in Queue /\ Tail(s) # <<>>
                          /\ s # <<"delete">> /\ s # <<"forget">>
                          /\ Head(Tail(s)) \in {"fleet", "cache"}
                          /\ Tail(s) # <<"delete">> /\ Tail(s) # <<"forget">>
                          /\ Tail(s) # <<"enable">>
<1>1. CASE \E k \in Kind : s = <<k>>
  BY <1>1
<1>2. CASE s = <<"cache">>
  BY <1>2
<1>3. CASE s = <<"fleet", "cache">>
  <2>1. Tail(s) = <<"cache">>
    BY <1>3
  <2>. QED BY <1>3, <2>1 DEF Queue, Kind, InventoryKinds
<1>4. CASE s = <<"cache", "fleet", "cache">>
  <2>1. Tail(s) = <<"fleet", "cache">>
    BY <1>4
  <2>. QED BY <1>4, <2>1 DEF Queue, RefreshMinionsFleet
<1>. QED BY <1>1, <1>2, <1>3, <1>4 DEF Queue, RefreshMinionsFleet, RefreshMinionsCached

LEMMA SourcesOfType == \A k \in Kind : SourcesOf(k) \in Queue /\ SourcesOf(k) # <<>>
BY DEF SourcesOf, Queue, RefreshMinionsFleet, RefreshMinionsCached

LEMMA IdleType == Idle \in Transaction
<1>1. "settings" \in Kind /\ [token |-> 0, settings |-> 0, permissions |-> 0] \in Settings
  BY RequestsAssumption DEF Kind, LocalKinds, Settings
<1>. QED BY <1>1 DEF Idle, NoRequest, Transaction, Queue

(* The row as it was loaded, with one column changed, is still a row.      *)
LEMMA LoadedType ==
  ASSUME NEW y \in Settings
  PROVE  /\ \A s \in {0, 1} : [y EXCEPT !.settings = s] \in Settings
         /\ \A p \in {0, 1} : [y EXCEPT !.permissions = p] \in Settings
         /\ \A i \in 0..MaxToken : [y EXCEPT !.token = i] \in Settings
BY DEF Settings

(* An action that changes only the request of t, to a well-typed one.      *)
LEMMA OneType ==
  ASSUME TypeOK, NEW t \in Thread, NEW x \in Transaction, NEW step \in Steps,
         tx' = [tx EXCEPT ![t] = x], pc' = [pc EXCEPT ![t] = step], Unchanged
  PROVE  TypeOK'
<1>1. settings' \in Settings /\ issued' \in 1..MaxToken /\ begun' \in 0..MaxRequests
      /\ rows' \subseteq Row /\ \A r, s \in rows' : r.pk = s.pk => r = s
  BY DEF TypeOK, Unchanged
<1>2. pc' \in [Thread -> Steps] /\ tx' \in [Thread -> Transaction]
  BY DEF TypeOK
<1>. QED BY <1>1, <1>2 DEF TypeOK

LEMMA EndType ==
  ASSUME TypeOK, NEW t \in Thread, End(t), Unchanged
  PROVE  TypeOK'
BY OneType, IdleType DEF End, Goto, Steps

LEMMA FinishSteps ==
  ASSUME NEW t \in Thread, Finish(t)
  PROVE  \E step \in {"audit", "commit"} : pc' = [pc EXCEPT ![t] = step]
BY DEF Finish, Goto

(* The request goes on to a step with the transaction as it was.           *)
LEMMA SameType ==
  ASSUME TypeOK, NEW t \in Thread, tx' = tx, NEW step \in Steps, Goto(t, step), Unchanged
  PROVE  TypeOK'
<1>1. tx[t] \in Transaction /\ tx' = [tx EXCEPT ![t] = tx[t]]
  BY DEF TypeOK
<1>. QED BY <1>1, OneType DEF Goto

LEMMA ContinueSteps ==
  ASSUME NEW t \in Thread, Continue(t)
  PROVE  \E step \in {"pick", "get", "audit", "commit"} : pc' = [pc EXCEPT ![t] = step]
BY FinishSteps DEF Continue, Goto

LEMMA NextSourceType ==
  ASSUME TypeOK, NEW t \in Thread, NextSource(t), Unchanged, tx[t].sources # <<>>
  PROVE  TypeOK'
<1>1. CASE Len(tx[t].sources) > 1
  <2>1. tx[t].sources \in Queue /\ tx[t] \in Transaction
    BY DEF TypeOK, Transaction
  <2>2. Tail(tx[t].sources) \in Queue
    BY <1>1, <2>1, Sources
  <2>3. [tx[t] EXCEPT !.sources = Tail(@)] \in Transaction
    BY <2>1, <2>2 DEF Transaction
  <2>4. tx' = [tx EXCEPT ![t] = [tx[t] EXCEPT !.sources = Tail(@)]]
    BY <1>1 DEF NextSource, TypeOK
  <2>. QED BY <1>1, <2>3, <2>4, OneType DEF NextSource, Goto, Steps
<1>2. CASE ~(Len(tx[t].sources) > 1)
  BY <1>2, SameType DEF NextSource, Steps
<1>. QED BY <1>1, <1>2

LEMMA SaltApiErrorType ==
  ASSUME TypeOK, NEW t \in Thread, SaltApiError(t), Unchanged, tx[t].sources # <<>>
  PROVE  TypeOK'
BY NextSourceType, SameType DEF SaltApiError, Steps

LEMMA HeardType ==
  ASSUME TypeOK, NEW t \in Thread, NEW A \in SUBSET tx[t].target, NEW T \in SUBSET Pair,
         Heard(t, A, T), Unchanged, tx[t].sources # <<>>
  PROVE  TypeOK'
<1>1. CASE A = {}
  <2>1. CASE NextSource(t)
    BY <2>1, NextSourceType
  <2>2. CASE Continue(t) /\ UNCHANGED tx
    BY <2>2, ContinueSteps, SameType DEF Goto, Steps
  <2>. QED BY <1>1, <2>1, <2>2 DEF Heard, NoAnswer
<1>2. CASE A # {}
  <2>1. tx[t] \in Transaction /\ A \subseteq Minion
    BY DEF TypeOK, Transaction
  <2>2. [tx[t] EXCEPT !.answered = A, !.told = T, !.todo = A] \in Transaction
    BY <2>1 DEF Transaction
  <2>3. tx' = [tx EXCEPT ![t] = [tx[t] EXCEPT !.answered = A, !.told = T, !.todo = A]]
    BY <1>2 DEF Heard, TypeOK
  <2>. QED BY <1>2, <2>2, <2>3, OneType DEF Heard, Goto, Steps
<1>. QED BY <1>1, <1>2

-----------------------------------------------------------------------------
(* The actions keep the types.  A request that is not idle has sources.      *)
HasSources == \A t \in Thread : pc[t] # "idle" => tx[t].sources # <<>>

LEMMA BeginType ==
  ASSUME TypeOK, NEW t \in Thread, NEW k \in Kinds, NEW m \in Minion, Begin(t, k, m)
  PROVE  TypeOK'
<1>. DEFINE x == [NoRequest(k) EXCEPT
                    !.target = IF k \in ManageKinds \cup {"one", "forget"} THEN {m} ELSE Minion,
                    !.todo = IF k = "forget" THEN {m} ELSE {},
                    !.sources = SourcesOf(k)]
<1>1. k \in Kind /\ [token |-> 0, settings |-> 0, permissions |-> 0] \in Settings
  BY RequestsAssumption DEF Settings
<1>2. NoRequest(k) \in Transaction
  BY <1>1 DEF NoRequest, Transaction, Queue
<1>3. x \in Transaction
  BY <1>1, <1>2, SourcesOfType DEF Transaction
<1>4. tx' = [tx EXCEPT ![t] = x]
  BY DEF Begin
<1>. HIDE DEF x
<1>5. tx' \in [Thread -> Transaction]
  BY <1>3, <1>4 DEF TypeOK
<1>6. pc' \in [Thread -> Steps]
  BY DEF TypeOK, Begin, Goto, Steps
<1>7. begun' \in 0..MaxRequests
  BY RequestsAssumption DEF TypeOK, Begin
<1>. QED BY <1>5, <1>6, <1>7 DEF TypeOK, Begin

LEMMA SettingsTypes ==
  ASSUME TypeOK, NEW t \in Thread,
         Load(t) \/ PatchSettings(t) \/ SaveUserSettings(t) \/ ManageToken(t)
  PROVE  TypeOK'
<1>0. tx[t] \in Transaction /\ tx[t].loaded \in Settings /\ settings \in Settings
  BY DEF TypeOK, Transaction
<1>1. CASE Load(t)
  <2>1. [tx[t] EXCEPT !.loaded = settings] \in Transaction
    BY <1>0 DEF Transaction
  <2>2. tx' = [tx EXCEPT ![t] = [tx[t] EXCEPT !.loaded = settings]]
    BY <1>1 DEF Load, TypeOK
  <2>. QED BY <1>1, <2>1, <2>2, OneType DEF Load, Goto, Steps
<1>2. CASE PatchSettings(t)
  <2>1. PICK s \in {0, 1} : tx' = [tx EXCEPT ![t].columns = Column,
                                             ![t].loaded = [@ EXCEPT !.settings = s]]
    BY <1>2 DEF PatchSettings
  <2>. DEFINE y == [tx[t].loaded EXCEPT !.settings = s]
  <2>2. y \in Settings
    BY <1>0, LoadedType
  <2>3. tx' = [tx EXCEPT ![t] = [tx[t] EXCEPT !.columns = Column, !.loaded = y]]
    BY <2>1 DEF TypeOK
  <2>. HIDE DEF y
  <2>4. [tx[t] EXCEPT !.columns = Column, !.loaded = y] \in Transaction
    BY <1>0, <2>2 DEF Transaction
  <2>5. \E step \in Steps : pc' = [pc EXCEPT ![t] = step]
    BY <1>2, FinishSteps DEF PatchSettings, Steps
  <2>. QED BY <1>2, <2>3, <2>4, <2>5, OneType DEF PatchSettings
<1>3. CASE SaveUserSettings(t)
  <2>1. [tx[t] EXCEPT !.columns = Column] \in Transaction
    BY <1>0 DEF Transaction
  <2>2. tx' = [tx EXCEPT ![t] = [tx[t] EXCEPT !.columns = Column]]
    BY <1>3 DEF SaveUserSettings, TypeOK
  <2>3. \E step \in Steps : pc' = [pc EXCEPT ![t] = step]
    BY <1>3, FinishSteps DEF SaveUserSettings, Steps
  <2>. QED BY <1>3, <2>1, <2>2, <2>3, OneType DEF SaveUserSettings
<1>4. CASE ManageToken(t)
  <2>1. PICK i \in 0..MaxToken :
          tx' = [tx EXCEPT ![t].columns = Column, ![t].loaded = [@ EXCEPT !.token = i]]
    BY <1>4, RequestsAssumption DEF ManageToken, TypeOK, Revoked
  <2>. DEFINE y == [tx[t].loaded EXCEPT !.token = i]
  <2>2. y \in Settings
    BY <1>0, LoadedType
  <2>3. tx' = [tx EXCEPT ![t] = [tx[t] EXCEPT !.columns = Column, !.loaded = y]]
    BY <2>1 DEF TypeOK
  <2>. HIDE DEF y
  <2>4. [tx[t] EXCEPT !.columns = Column, !.loaded = y] \in Transaction
    BY <1>0, <2>2 DEF Transaction
  <2>5. \E step \in Steps : pc' = [pc EXCEPT ![t] = step]
    BY <1>4, FinishSteps DEF ManageToken, Steps
  <2>6. tx' \in [Thread -> Transaction] /\ pc' \in [Thread -> Steps]
    BY <2>3, <2>4, <2>5 DEF TypeOK
  <2>7. issued' \in 1..MaxToken
    BY <1>4, RequestsAssumption DEF ManageToken, TypeOK
  <2>. QED BY <1>4, <2>6, <2>7 DEF ManageToken, TypeOK
<1>. QED BY <1>1, <1>2, <1>3, <1>4

LEMMA ConnectType ==
  ASSUME TypeOK, HasSources, NEW t \in Thread, ApiConnect(t)
  PROVE  TypeOK'
<1>0. tx[t] \in Transaction /\ tx[t].loaded \in Settings
  BY DEF TypeOK, Transaction
<1>1. ASSUME NEW p \in {0, 1}, Goto(t, "ask"),
             tx' = [tx EXCEPT ![t].columns = ChangedColumns(t, p),
                              ![t].loaded = [@ EXCEPT !.permissions = p]]
      PROVE  TypeOK'
  <2>. DEFINE y == [tx[t].loaded EXCEPT !.permissions = p]
              c == ChangedColumns(t, p)
  <2>1. y \in Settings
    BY <1>0, LoadedType
  <2>2. c \in SUBSET Column
    BY <1>0 DEF ChangedColumns, Transaction, Column
  <2>3. tx' = [tx EXCEPT ![t] = [tx[t] EXCEPT !.columns = c, !.loaded = y]]
    BY <1>1 DEF TypeOK
  <2>. HIDE DEF y, c
  <2>4. [tx[t] EXCEPT !.columns = c, !.loaded = y] \in Transaction
    BY <1>0, <2>1, <2>2 DEF Transaction
  <2>. QED BY <1>1, <2>3, <2>4, OneType DEF ApiConnect, Goto, Steps
<1>2. CASE SaltApiError(t)
  BY <1>2, SaltApiErrorType DEF ApiConnect, HasSources
<1>. QED BY <1>1, <1>2 DEF ApiConnect

LEMMA AskTypes ==
  ASSUME TypeOK, HasSources, NEW t \in Thread,
         AskInventory(t) \/ RefreshMinion(t) \/ RefreshSchedules(t) \/ RefreshBeacons(t)
  PROVE  TypeOK'
<1>1. tx[t].sources # <<>> /\ Unchanged
  BY DEF AskInventory, RefreshMinion, RefreshSchedules, RefreshBeacons, Asking, HasSources
<1>2. tx[t].target \subseteq Minion
  BY DEF TypeOK, Transaction
<1>3. CASE SaltApiError(t)
  BY <1>1, <1>3, SaltApiErrorType
<1>4. CASE ~SaltApiError(t)
  <2>1. PICK A \in SUBSET tx[t].target, T \in SUBSET Pair : Heard(t, A, T)
    <3>1. CASE AskInventory(t)
      <4>1. PICK A \in SUBSET tx[t].target : Heard(t, A, A \X {"grains"})
        BY <1>4, <3>1 DEF AskInventory
      <4>2. A \X {"grains"} \in SUBSET Pair
        BY <1>2 DEF Pair, Item
      <4>. QED BY <4>1, <4>2
    <3>2. CASE RefreshMinion(t)
      <4>1. Heard(t, tx[t].target, tx[t].target \X {"grains"})
        BY <1>4, <3>2 DEF RefreshMinion
      <4>2. tx[t].target \X {"grains"} \in SUBSET Pair
        BY <1>2 DEF Pair, Item
      <4>. QED BY <4>1, <4>2
    <3>3. CASE RefreshSchedules(t)
      <4>1. PICK A \in SUBSET tx[t].target :
              \E S \in SUBSET A : Heard(t, A, S \X {"schedule"})
        BY <1>4, <3>3 DEF RefreshSchedules, Mappings
      <4>2. PICK S \in SUBSET A : Heard(t, A, S \X {"schedule"})
        BY <4>1
      <4>3. S \X {"schedule"} \in SUBSET Pair
        BY <1>2 DEF Pair, Item
      <4>. QED BY <4>2, <4>3
    <3>4. CASE RefreshBeacons(t)
      <4>1. PICK A \in SUBSET tx[t].target :
              \E S \in SUBSET A : Heard(t, A, S \X {"beacon"})
        BY <1>4, <3>4 DEF RefreshBeacons, Mappings
      <4>2. PICK S \in SUBSET A : Heard(t, A, S \X {"beacon"})
        BY <4>1
      <4>3. S \X {"beacon"} \in SUBSET Pair
        BY <1>2 DEF Pair, Item
      <4>. QED BY <4>2, <4>3
    <3>. QED BY <3>1, <3>2, <3>3, <3>4
  <2>. QED BY <1>1, <2>1, HeardType
<1>. QED BY <1>3, <1>4

LEMMA FinishSameType ==
  ASSUME TypeOK, NEW t \in Thread, Finish(t), tx' = tx, Unchanged
  PROVE  TypeOK'
BY FinishSteps, SameType DEF Goto, Steps

LEMMA ManageTypes ==
  ASSUME TypeOK, HasSources, NEW t \in Thread,
         ManageKey(t) \/ ManageSchedules(t) \/ ManageBeacons(t)
  PROVE  TypeOK'
<1>0. tx[t] \in Transaction /\ Unchanged /\ tx[t].sources # <<>> /\ tx[t].target \subseteq Minion
  BY DEF TypeOK, Transaction, ManageKey, ManageSchedules, ManageBeacons, HasSources, Asking
<1>1. CASE ManageKey(t)
  BY <1>1, FinishSameType, SameType DEF ManageKey, Steps
<1>2. CASE SaltApiError(t)
  BY <1>0, <1>2, SaltApiErrorType
<1>3. CASE Finish(t) /\ UNCHANGED tx
  BY <1>0, <1>3, FinishSameType
<1>4. CASE /\ tx' = [tx EXCEPT ![t].answered = @ \cup tx[t].target, ![t].todo = tx[t].target]
           /\ Goto(t, "pick")
  <2>. DEFINE x == [tx[t] EXCEPT !.answered = @ \cup tx[t].target, !.todo = tx[t].target]
  <2>1. x \in Transaction
    BY <1>0 DEF Transaction
  <2>2. tx' = [tx EXCEPT ![t] = x]
    BY <1>4 DEF TypeOK
  <2>. QED BY <1>0, <1>4, <2>1, <2>2, OneType DEF Goto, Steps
<1>5. CASE /\ tx' = [tx EXCEPT ![t].answered = tx[t].target,
                               ![t].told = tx[t].target \X {"schedule"}]
           /\ Goto(t, "get")
  <2>. DEFINE T == tx[t].target \X {"schedule"}
  <2>1. T \in SUBSET Pair
    BY <1>0 DEF Pair, Item
  <2>2. tx' = [tx EXCEPT ![t] = [tx[t] EXCEPT !.answered = tx[t].target, !.told = T]]
    BY <1>5 DEF TypeOK
  <2>. HIDE DEF T
  <2>3. [tx[t] EXCEPT !.answered = tx[t].target, !.told = T] \in Transaction
    BY <1>0, <2>1 DEF Transaction
  <2>. QED BY <1>0, <1>5, <2>2, <2>3, OneType DEF Goto, Steps
<1>6. CASE tx' = [tx EXCEPT ![t].sources = <<"beacons">>] /\ Goto(t, "connect")
  <2>1. [tx[t] EXCEPT !.sources = <<"beacons">>] \in Transaction
    BY <1>0 DEF Transaction, Queue, Kind
  <2>2. tx' = [tx EXCEPT ![t] = [tx[t] EXCEPT !.sources = <<"beacons">>]]
    BY <1>6 DEF TypeOK
  <2>. QED BY <1>0, <1>6, <2>1, <2>2, OneType DEF Goto, Steps
<1>. QED BY <1>1, <1>2, <1>3, <1>4, <1>5, <1>6 DEF ManageSchedules, ManageBeacons

(* What a transaction sees are rows, and their keys are keys.              *)
LEMMA VisibleRows ==
  ASSUME TypeOK, NEW t \in Thread
  PROVE  /\ Visible(t) \subseteq Row
         /\ \A R \in SUBSET Visible(t) : PksOf(R) \subseteq Pk
         /\ Found(t) \subseteq Visible(t)
         /\ \A pairs : RowsAbout(t, pairs) \subseteq Visible(t)
         /\ NextPk \subseteq Pk
<1>1. Visible(t) \subseteq Row
  BY DEF TypeOK, Visible, Transaction
<1>2. NextPk \subseteq Pk
  BY DEF NextPk, Unused
<1>. QED BY <1>1, <1>2 DEF PksOf, Row, Found, RowsAbout

LEMMA PickType ==
  ASSUME TypeOK, NEW t \in Thread, NEW m \in Minion, Pick(t, m)
  PROVE  TypeOK'
<1>0. tx[t] \in Transaction
  BY DEF TypeOK
<1>. DEFINE a == PksOf(RowsAbout(t, {<<m, Table(Source(t))>>}))
            d == tx[t].todo \ {m}
<1>1. a \in SUBSET Pk /\ d \in SUBSET Minion
  BY <1>0, VisibleRows DEF Transaction
<1>2. tx' = [tx EXCEPT ![t] = [tx[t] EXCEPT !.todo = d, !.target = {m}, !.aim = a]]
  BY DEF Pick, TypeOK
<1>. HIDE DEF a, d
<1>3. [tx[t] EXCEPT !.todo = d, !.target = {m}, !.aim = a] \in Transaction
  BY <1>0, <1>1 DEF Transaction
<1>. QED BY <1>2, <1>3, OneType DEF Pick, Goto, Steps

(* What a transaction is after it has deleted the rows R.                  *)
LEMMA DeleteType ==
  ASSUME TypeOK, NEW t \in Thread, NEW R \in SUBSET Visible(t)
  PROVE  Delete(t, R) \in Transaction
<1>1. tx[t] \in Transaction /\ PksOf(R) \subseteq Pk
  BY VisibleRows DEF TypeOK
<1>. QED BY <1>1 DEF Delete, Transaction

LEMMA WriteTypes ==
  ASSUME TypeOK, HasSources, NEW t \in Thread,
         \/ Replace(t) \/ UpdateOrCreate(t) \/ DeleteSchedule(t) \/ DestroyMinion(t)
         \/ GetSchedule(t) \/ SaveSchedule(t)
  PROVE  TypeOK'
<1>0. tx[t] \in Transaction /\ Found(t) \subseteq Visible(t) /\ NextPk \subseteq Pk /\ Unchanged
      /\ tx[t].target \subseteq Minion /\ tx[t].told \subseteq Pair /\ tx[t].aim \subseteq Pk
      /\ Delete(t, Found(t)) \in Transaction
  BY VisibleRows, DeleteType DEF TypeOK, Transaction, Replace, UpdateOrCreate,
     DeleteSchedule, DestroyMinion, GetSchedule, SaveSchedule
<1>1. CASE Replace(t)
  <2>. DEFINE told == tx[t].told \cap (tx[t].target \X {Table(Source(t))})
              new == [pk : NextPk, of : told]
              D == Delete(t, Found(t))
              x == [D EXCEPT !.inserted = @ \cup new]
  <2>1. new \subseteq Row
    BY <1>0 DEF Row
  <2>. HIDE DEF new
  <2>2. D \in Transaction
    BY <1>0
  <2>. HIDE DEF D
  <2>3. x \in Transaction
    BY <2>1, <2>2 DEF Transaction
  <2>4. tx' = [tx EXCEPT ![t] = x]
    BY <1>1 DEF Replace, new, D
  <2>5. \E step \in Steps : pc' = [pc EXCEPT ![t] = step]
    BY <1>1, ContinueSteps DEF Replace, Steps
  <2>. QED BY <1>0, <2>3, <2>4, <2>5, OneType
<1>2. CASE UpdateOrCreate(t)
  <2>1. CASE Continue(t) /\ tx' = [tx EXCEPT ![t].inserted = @ \cup
                          [pk : NextPk, of : tx[t].target \X {"grains"}], ![t].aim = {}]
    <3>. DEFINE new == [pk : NextPk, of : tx[t].target \X {"grains"}]
    <3>1. new \subseteq Row
      BY <1>0 DEF Row, Pair, Item
    <3>2. tx' = [tx EXCEPT ![t] = [tx[t] EXCEPT !.inserted = @ \cup new, !.aim = {}]]
      BY <2>1 DEF TypeOK
    <3>. HIDE DEF new
    <3>3. [tx[t] EXCEPT !.inserted = @ \cup new, !.aim = {}] \in Transaction
      BY <1>0, <3>1 DEF Transaction
    <3>4. \E step \in Steps : pc' = [pc EXCEPT ![t] = step]
      BY <2>1, ContinueSteps DEF Steps
    <3>. QED BY <1>0, <3>2, <3>3, <3>4, OneType
  <2>2. CASE Continue(t) /\ tx' = [tx EXCEPT ![t].held = @ \cup tx[t].aim, ![t].aim = {}]
    <3>1. tx' = [tx EXCEPT ![t] = [tx[t] EXCEPT !.held = @ \cup tx[t].aim, !.aim = {}]]
      BY <2>2 DEF TypeOK
    <3>2. [tx[t] EXCEPT !.held = @ \cup tx[t].aim, !.aim = {}] \in Transaction
      BY <1>0 DEF Transaction
    <3>. QED BY <1>0, <2>2, <3>1, <3>2, OneType, ContinueSteps DEF Steps
  <2>3. CASE End(t)
    BY <1>0, <2>3, EndType
  <2>. QED BY <1>2, <2>1, <2>2, <2>3 DEF UpdateOrCreate
<1>3. CASE DeleteSchedule(t) \/ DestroyMinion(t)
  <2>1. CASE End(t)
    BY <1>0, <2>1, EndType
  <2>2. CASE tx' = [tx EXCEPT ![t] = Delete(t, Found(t))] /\ Finish(t)
    BY <1>0, <2>2, OneType, FinishSteps DEF Steps
  <2>. QED BY <1>3, <2>1, <2>2 DEF DeleteSchedule, DestroyMinion
<1>4. CASE GetSchedule(t)
  <2>. DEFINE a == PksOf(RowsAbout(t, tx[t].target \X {"schedule"}))
  <2>1. CASE tx' = [tx EXCEPT ![t].sources = <<"schedules">>, ![t].again = TRUE]
             /\ Goto(t, "connect")
    <3>1. tx' = [tx EXCEPT ![t] = [tx[t] EXCEPT !.sources = <<"schedules">>, !.again = TRUE]]
      BY <2>1 DEF TypeOK
    <3>2. [tx[t] EXCEPT !.sources = <<"schedules">>, !.again = TRUE] \in Transaction
      BY <1>0 DEF Transaction, Queue, Kind
    <3>. QED BY <1>0, <2>1, <3>1, <3>2, OneType DEF Goto, Steps
  <2>2. CASE Goto(t, "commit") /\ UNCHANGED tx
    BY <1>0, <2>2, SameType DEF Steps
  <2>3. CASE tx' = [tx EXCEPT ![t].sources = <<"enable">>, ![t].aim = a] /\ Goto(t, "write")
    <3>1. a \in SUBSET Pk
      BY VisibleRows
    <3>2. tx' = [tx EXCEPT ![t] = [tx[t] EXCEPT !.sources = <<"enable">>, !.aim = a]]
      BY <2>3 DEF TypeOK
    <3>. HIDE DEF a
    <3>3. [tx[t] EXCEPT !.sources = <<"enable">>, !.aim = a] \in Transaction
      BY <1>0, <3>1 DEF Transaction, Queue, Kind, ManageKinds
    <3>. QED BY <1>0, <2>3, <3>2, <3>3, OneType DEF Goto, Steps
  <2>4. CASE End(t)
    BY <1>0, <2>4, EndType
  <2>. QED BY <1>4, <2>1, <2>2, <2>3, <2>4 DEF GetSchedule
<1>5. CASE SaveSchedule(t)
  <2>. DEFINE new == [pk : tx[t].aim, of : tx[t].target \X {"schedule"}]
  <2>1. new \subseteq Row
    BY <1>0 DEF Row, Pair, Item
  <2>2. CASE tx' = [tx EXCEPT ![t].held = @ \cup tx[t].aim, ![t].aim = {}]
    <3>1. tx' = [tx EXCEPT ![t] = [tx[t] EXCEPT !.held = @ \cup tx[t].aim, !.aim = {}]]
      BY <2>2 DEF TypeOK
    <3>2. [tx[t] EXCEPT !.held = @ \cup tx[t].aim, !.aim = {}] \in Transaction
      BY <1>0 DEF Transaction
    <3>. QED BY <1>0, <1>5, <3>1, <3>2, OneType, FinishSteps DEF SaveSchedule, Steps
  <2>3. CASE tx' = [tx EXCEPT ![t].inserted = @ \cup new, ![t].aim = {}]
    <3>1. tx' = [tx EXCEPT ![t] = [tx[t] EXCEPT !.inserted = @ \cup new, !.aim = {}]]
      BY <2>3 DEF TypeOK
    <3>. HIDE DEF new
    <3>2. [tx[t] EXCEPT !.inserted = @ \cup new, !.aim = {}] \in Transaction
      BY <1>0, <2>1 DEF Transaction
    <3>. QED BY <1>0, <1>5, <3>1, <3>2, OneType, FinishSteps DEF SaveSchedule, Steps
  <2>. QED BY <1>5, <2>2, <2>3 DEF SaveSchedule
<1>. QED BY <1>1, <1>2, <1>3, <1>4, <1>5

LEMMA AuditType ==
  ASSUME TypeOK, NEW t \in Thread, Audit(t)
  PROVE  TypeOK'
<1>1. PICK ok \in BOOLEAN : tx' = [tx EXCEPT ![t].audited = ok, ![t].broken = ~ok]
  BY DEF Audit
<1>2. tx[t] \in Transaction
  BY DEF TypeOK
<1>3. CASE ok = TRUE
  <2>1. tx' = [tx EXCEPT ![t] = [tx[t] EXCEPT !.audited = TRUE, !.broken = FALSE]]
    BY <1>1, <1>3 DEF TypeOK
  <2>2. [tx[t] EXCEPT !.audited = TRUE, !.broken = FALSE] \in Transaction
    BY <1>2 DEF Transaction
  <2>. QED BY <2>1, <2>2, OneType DEF Audit, Goto, Steps
<1>4. CASE ok = FALSE
  <2>1. tx' = [tx EXCEPT ![t] = [tx[t] EXCEPT !.audited = FALSE, !.broken = TRUE]]
    BY <1>1, <1>4 DEF TypeOK
  <2>2. [tx[t] EXCEPT !.audited = FALSE, !.broken = TRUE] \in Transaction
    BY <1>2 DEF Transaction
  <2>. QED BY <2>1, <2>2, OneType DEF Audit, Goto, Steps
<1>. QED BY <1>3, <1>4

-----------------------------------------------------------------------------
(***************************************************************************)
(* Where a request is tells what it has done: nothing is written before    *)
(* the last answer, rows are aimed at only while a statement waits, and    *)
(* what is still to do has answered.                                       *)
(***************************************************************************)
Asked == {"load", "save", "connect", "ask"}

Phase(x, at) ==
  /\ at = "idle" => x = Idle
  /\ at \in Asked \/ (at = "get" /\ ~x.again) => x.inserted = {} /\ x.deleted = {}
  /\ at \in Asked \cup {"get"} => x.todo = {}
  /\ at # "write" => x.aim = {}
  /\ at = "get" \/ x.again => x.kind = "enable" /\ x.target \subseteq x.answered
  /\ at # "idle" => x.sources # <<>>

ByKind(x, at) ==
  /\ x.kind \in LocalKinds => at \in {"idle", "load", "save", "audit", "commit"}
  /\ x.kind \in TokenKinds /\ at = "commit" => x.audited \/ x.broken
  /\ "token" \in x.columns => x.kind \in LocalKinds
  /\ x.kind \in ManageKinds => \E m \in Minion : x.target = {m}
  /\ x.kind \in {"delete", "forget"} => x.sources = <<x.kind>> /\ x.told = {}
  /\ \A k \in {"forget", "delete", "enable"} : x.sources = <<k>> => x.kind = k

Aimed(x) == x.target \X {Table(Head(x.sources))}

Answers(x, at) ==
  /\ x.kind # "forget" => x.todo \subseteq x.answered
  /\ at = "pick" => Head(x.sources) # "enable"
  /\ at = "write" =>
       /\ \E m \in Minion : x.target = {m}
       /\ x.kind # "forget" => x.target \subseteq x.answered
  /\ at \in {"pick", "write"} /\ Head(x.sources) \in {"fleet", "cache", "one"} =>
       /\ x.todo \X {"grains"} \subseteq x.told
       /\ at = "write" => x.target \X {"grains"} \subseteq x.told

Fine(x, at) == Phase(x, at) /\ ByKind(x, at) /\ Answers(x, at)
Requested == \A t \in Thread : Fine(tx[t], pc[t])

(***************************************************************************)
(* A key names one row wherever it is, and the rows that a statement waits *)
(* for are all about what the statement is about.                          *)
(***************************************************************************)
Keys ==
  /\ \A t, u \in Thread : \A r \in tx[t].inserted :
       /\ \A s \in tx[u].inserted : r.pk = s.pk => t = u /\ r = s
       /\ r.pk \notin tx[u].deleted
       /\ \A s \in rows : r.pk # s.pk

Aims ==
  \A t \in Thread : pc[t] = "write" =>
    /\ \A r \in rows : r.pk \in tx[t].aim => r.of \in Aimed(tx[t])
    /\ \A u \in Thread : \A r \in tx[u].inserted : r.pk \in tx[t].aim => r.of \in Aimed(tx[t])
    /\ \A u \in Thread : pc[u] = "write" /\ tx[t].aim \cap tx[u].aim # {} =>
         Aimed(tx[t]) = Aimed(tx[u])
    /\ Source(t) = "enable" => \E p \in Pk : tx[t].aim = {p} /\ p \notin tx[t].deleted

(***************************************************************************)
(* What a request has inserted it was told, and what it has deleted it was *)
(* told is gone, or has inserted again.                                    *)
(***************************************************************************)
Enabled(x, p) == p[1] \in x.answered /\ p[2] = "schedule" /\ x.kind = "enable"

ToldOf ==
  \A t \in Thread :
    /\ \A r \in tx[t].inserted : r.of \in tx[t].told \/ Enabled(tx[t], r.of)
    /\ \A r \in rows : r.pk \in tx[t].deleted =>
         \/ /\ r.of[1] \in tx[t].answered
            /\ r.of \in tx[t].told => \E s \in tx[t].inserted : s.of = r.of
         \/ tx[t].kind = "forget" /\ r.of[2] = "grains"

IInv == TypeOK /\ Requested /\ Keys /\ Aims /\ ToldOf

-----------------------------------------------------------------------------
(* A step of one thread leaves the requests of the others alone.             *)
Only(t) == \A u \in Thread : u # t => tx'[u] = tx[u] /\ pc'[u] = pc[u]

LEMMA StepOnly ==
  ASSUME TypeOK, NEW t \in Thread, Step(t) \/ \E k \in Kinds, m \in Minion : Begin(t, k, m)
  PROVE  Only(t)
<1>. USE DEF TypeOK, Only, Goto, End, Finish, Continue, NextSource
<1>1. ASSUME NEW k \in Kinds, NEW m \in Minion, Begin(t, k, m) PROVE Only(t)
  BY <1>1 DEF Begin
<1>2. CASE Load(t) \/ PatchSettings(t) \/ SaveUserSettings(t)
  BY <1>2 DEF Load, PatchSettings, SaveUserSettings
<1>3. CASE ManageToken(t)
  BY <1>3 DEF ManageToken
<1>4. CASE SaltApiError(t)
  BY <1>4 DEF SaltApiError
<1>5. CASE ApiConnect(t)
  BY <1>4, <1>5 DEF ApiConnect
<1>6. ASSUME NEW A, NEW T, Heard(t, A, T) PROVE Only(t)
  BY <1>6 DEF Heard, NoAnswer
<1>7. CASE AskInventory(t)
  BY <1>4, <1>6, <1>7 DEF AskInventory
<1>8. CASE RefreshMinion(t)
  BY <1>4, <1>6, <1>8 DEF RefreshMinion
<1>9. CASE RefreshSchedules(t)
  BY <1>4, <1>6, <1>9 DEF RefreshSchedules, Mappings
<1>10. CASE RefreshBeacons(t)
  BY <1>4, <1>6, <1>10 DEF RefreshBeacons, Mappings
<1>11. CASE ManageKey(t)
  BY <1>11 DEF ManageKey
<1>12. CASE ManageSchedules(t)
  BY <1>4, <1>12 DEF ManageSchedules
<1>13. CASE ManageBeacons(t)
  BY <1>4, <1>13 DEF ManageBeacons
<1>14. ASSUME NEW m \in Minion, Pick(t, m) PROVE Only(t)
  BY <1>14 DEF Pick
<1>15. CASE Replace(t)
  BY <1>15 DEF Replace
<1>16. CASE UpdateOrCreate(t)
  BY <1>16 DEF UpdateOrCreate
<1>17. CASE DeleteSchedule(t) \/ DestroyMinion(t)
  BY <1>17 DEF DeleteSchedule, DestroyMinion
<1>18. CASE GetSchedule(t)
  BY <1>18 DEF GetSchedule
<1>19. CASE SaveSchedule(t)
  BY <1>19 DEF SaveSchedule
<1>20. CASE Audit(t) \/ Commit(t) \/ Fail(t)
  BY <1>20 DEF Audit, Commit, Fail
<1>. QED BY <1>1, <1>2, <1>3, <1>5, <1>7, <1>8, <1>9, <1>10, <1>11, <1>12, <1>13, <1>14,
            <1>15, <1>16, <1>17, <1>18, <1>19, <1>20 DEF Step

-----------------------------------------------------------------------------
(* Each action leaves its request fine.                                      *)
LEMMA IdleFine == Fine(Idle, "idle")
BY DEF Fine, Phase, ByKind, Answers, Idle, NoRequest, Asked, LocalKinds, TokenKinds, ManageKinds

LEMMA EndFine ==
  ASSUME TypeOK, NEW t \in Thread, End(t)
  PROVE  Fine(tx'[t], pc'[t])
<1>1. tx'[t] = Idle /\ pc'[t] = "idle"
  BY DEF End, Goto, TypeOK
<1>. QED BY <1>1, IdleFine

LEMMA BeginFine ==
  ASSUME TypeOK, Requested, NEW t \in Thread, NEW k \in Kinds, NEW m \in Minion, Begin(t, k, m)
  PROVE  Fine(tx'[t], pc'[t])
<1>1. k \in Kind /\ SourcesOf(k) \in Queue /\ SourcesOf(k) # <<>>
  BY RequestsAssumption, SourcesOfType
<1>2. /\ tx'[t].kind = k /\ tx'[t].sources = SourcesOf(k) /\ tx'[t].columns = {}
      /\ tx'[t].told = {} /\ tx'[t].aim = {} /\ tx'[t].inserted = {} /\ tx'[t].deleted = {}
      /\ tx'[t].again = FALSE
      /\ tx'[t].target = IF k \in ManageKinds \cup {"one", "forget"} THEN {m} ELSE Minion
      /\ tx'[t].todo = IF k = "forget" THEN {m} ELSE {}
      /\ pc'[t] = IF k = "forget" THEN "pick" ELSE "load"
  BY DEF Begin, NoRequest, TypeOK, Goto
<1>3. /\ k = "delete" => SourcesOf(k) = <<"delete">>
      /\ \A j \in {"forget", "delete", "enable"} : SourcesOf(k) = <<j>> => k = j
      /\ k = "forget" => SourcesOf(k) = <<"forget">>
  BY DEF SourcesOf, RefreshMinionsFleet, RefreshMinionsCached
<1>4. k = "forget" => Head(SourcesOf(k)) = "forget"
  BY <1>3
<1>5. Phase(tx'[t], pc'[t])
  BY <1>1, <1>2 DEF Phase, Asked
<1>6. ByKind(tx'[t], pc'[t])
  BY <1>2, <1>3 DEF ByKind, LocalKinds, TokenKinds, ManageKinds
<1>7. Answers(tx'[t], pc'[t])
  BY <1>2, <1>4 DEF Answers
<1>. QED BY <1>5, <1>6, <1>7 DEF Fine

LEMMA SettingsFine ==
  ASSUME TypeOK, Requested, NEW t \in Thread,
         Load(t) \/ PatchSettings(t) \/ SaveUserSettings(t) \/ ManageToken(t)
  PROVE  Fine(tx'[t], pc'[t])
<1>0. tx[t] \in Transaction /\ Fine(tx[t], pc[t])
  BY DEF TypeOK, Requested
<1>. USE DEF Fine, Phase, ByKind, Answers, Asked, LocalKinds, TokenKinds, ManageKinds, AuditedKinds
<1>1. CASE Load(t)
  BY <1>0, <1>1 DEF Load, Goto, TypeOK, Transaction
<1>2. CASE PatchSettings(t)
  BY <1>0, <1>2 DEF PatchSettings, Goto, Finish, TypeOK, Transaction
<1>3. CASE SaveUserSettings(t)
  BY <1>0, <1>3 DEF SaveUserSettings, Goto, Finish, TypeOK, Transaction
<1>4. CASE ManageToken(t)
  BY <1>0, <1>4 DEF ManageToken, Goto, Finish, TypeOK, Transaction
<1>. QED BY <1>1, <1>2, <1>3, <1>4

LEMMA NextSourceFine ==
  ASSUME TypeOK, Requested, NEW t \in Thread, NextSource(t), pc[t] \in {"connect", "ask"}
  PROVE  Fine(tx'[t], pc'[t])
<1>0. tx[t] \in Transaction /\ Fine(tx[t], pc[t]) /\ tx[t].sources \in Queue
      /\ tx[t].sources # <<>>
  BY DEF TypeOK, Requested, Transaction, Fine, Phase
<1>. USE DEF Fine, Phase, ByKind, Answers, Asked, LocalKinds, TokenKinds, ManageKinds
<1>1. CASE Len(tx[t].sources) > 1
  <2>1. /\ Tail(tx[t].sources) # <<>>
        /\ \A k \in {"forget", "delete", "enable"} : Tail(tx[t].sources) # <<k>>
        /\ tx[t].sources # <<"delete">> /\ tx[t].sources # <<"forget">>
    BY <1>0, <1>1, Sources
  <2>2. tx' = [tx EXCEPT ![t].sources = Tail(@)] /\ pc'[t] = "connect"
    BY <1>1 DEF NextSource, Goto, TypeOK
  <2>3. ByKind(tx'[t], pc'[t])
    BY <1>0, <2>1, <2>2 DEF TypeOK, Transaction
  <2>. QED BY <1>0, <2>1, <2>2, <2>3 DEF TypeOK, Transaction
<1>2. CASE ~(Len(tx[t].sources) > 1)
  BY <1>0, <1>2 DEF NextSource, Goto, TypeOK
<1>. QED BY <1>1, <1>2

LEMMA SaltApiErrorFine ==
  ASSUME TypeOK, Requested, NEW t \in Thread, SaltApiError(t), pc[t] \in {"connect", "ask"}
  PROVE  Fine(tx'[t], pc'[t])
<1>1. CASE Head(tx[t].sources) = "cache"
  BY <1>1, NextSourceFine DEF SaltApiError
<1>2. CASE Head(tx[t].sources) # "cache"
  BY <1>2 DEF SaltApiError, Requested, Goto, TypeOK, Fine, Phase, ByKind, Answers, Asked,
     LocalKinds, TokenKinds
<1>. QED BY <1>1, <1>2

LEMMA ConnectFine ==
  ASSUME TypeOK, Requested, NEW t \in Thread, ApiConnect(t)
  PROVE  Fine(tx'[t], pc'[t])
<1>0. tx[t] \in Transaction /\ Fine(tx[t], pc[t]) /\ pc[t] = "connect"
  BY DEF TypeOK, Requested, ApiConnect
<1>1. ASSUME NEW p \in {0, 1}, Goto(t, "ask"),
             tx' = [tx EXCEPT ![t].columns = ChangedColumns(t, p),
                              ![t].loaded = [@ EXCEPT !.permissions = p]]
      PROVE  Fine(tx'[t], pc'[t])
  BY <1>0, <1>1 DEF ChangedColumns, Goto, TypeOK, Transaction, Fine, Phase, ByKind,
     Answers, Asked, LocalKinds, TokenKinds
<1>2. CASE SaltApiError(t)
  BY <1>0, <1>2, SaltApiErrorFine
<1>. QED BY <1>1, <1>2 DEF ApiConnect

(* An answer is remembered before anything is written.                       *)
Mirrors == {"fleet", "cache", "one", "schedules", "beacons"}

LEMMA HeardFine ==
  ASSUME TypeOK, Requested, NEW t \in Thread, NEW A \in SUBSET tx[t].target, NEW T,
         pc[t] = "ask", Head(tx[t].sources) \in Mirrors,
         Head(tx[t].sources) \in {"fleet", "cache", "one"} => A \X {"grains"} \subseteq T,
         Heard(t, A, T)
  PROVE  Fine(tx'[t], pc'[t])
<1>0. tx[t] \in Transaction /\ Fine(tx[t], "ask")
  BY DEF TypeOK, Requested
<1>. USE DEF Fine, Phase, ByKind, Answers, Asked, LocalKinds, TokenKinds, ManageKinds, Mirrors
<1>1. tx[t].kind \notin {"delete", "forget"}
  <2>1. Head(<<"delete">>) = "delete" /\ Head(<<"forget">>) = "forget"
    OBVIOUS
  <2>. QED BY <1>0, <2>1
<1>2. CASE A # {}
  <2>1. tx[t].again => tx[t].target \subseteq A
    BY <1>0, <1>2
  <2>2. tx' = [tx EXCEPT ![t].answered = A, ![t].told = T, ![t].todo = A] /\ pc'[t] = "pick"
    BY <1>2 DEF Heard, Goto, TypeOK
  <2>3. /\ tx'[t].answered = A /\ tx'[t].told = T /\ tx'[t].todo = A
        /\ \A f \in {"kind", "target", "columns", "sources", "aim", "deleted", "inserted",
                     "again", "audited", "broken"} : tx'[t][f] = tx[t][f]
    BY <1>0, <2>2 DEF TypeOK, Transaction
  <2>4. Phase(tx'[t], pc'[t])
    BY <1>0, <2>1, <2>2, <2>3
  <2>5. ByKind(tx'[t], pc'[t])
    BY <1>0, <1>1, <2>2, <2>3
  <2>6. Answers(tx'[t], pc'[t])
    BY <2>2, <2>3
  <2>. QED BY <2>4, <2>5, <2>6
<1>3. CASE A = {}
  <2>1. CASE NextSource(t)
    BY <2>1, NextSourceFine
  <2>2. CASE tx[t].kind \in ManageKinds /\ Continue(t) /\ UNCHANGED tx
    <3>1. tx'[t] = tx[t] /\ pc'[t] \in {"get", "audit", "commit"}
          /\ (pc'[t] = "get" => tx[t].again)
      BY <1>0, <2>2 DEF Continue, Finish, Goto, TypeOK
    <3>. QED BY <1>0, <2>2, <3>1
  <2>. QED BY <1>3, <2>1, <2>2 DEF Heard, NoAnswer
<1>. QED BY <1>2, <1>3

LEMMA AskFine ==
  ASSUME TypeOK, Requested, NEW t \in Thread,
         AskInventory(t) \/ RefreshMinion(t) \/ RefreshSchedules(t) \/ RefreshBeacons(t)
  PROVE  Fine(tx'[t], pc'[t])
<1>1. pc[t] = "ask"
  BY DEF AskInventory, RefreshMinion, RefreshSchedules, RefreshBeacons, Asking
<1>2. CASE SaltApiError(t)
  BY <1>1, <1>2, SaltApiErrorFine
<1>3. CASE AskInventory(t) /\ ~SaltApiError(t)
  BY <1>1, <1>3, HeardFine DEF AskInventory, Asking, Mirrors
<1>4. CASE RefreshMinion(t) /\ ~SaltApiError(t)
  BY <1>1, <1>4, HeardFine DEF RefreshMinion, Asking, Mirrors
<1>5. CASE RefreshSchedules(t) /\ ~SaltApiError(t)
  BY <1>1, <1>5, HeardFine DEF RefreshSchedules, Asking, Mirrors, Mappings
<1>6. CASE RefreshBeacons(t) /\ ~SaltApiError(t)
  BY <1>1, <1>6, HeardFine DEF RefreshBeacons, Asking, Mirrors, Mappings
<1>. QED BY <1>2, <1>3, <1>4, <1>5, <1>6

LEMMA ManageFine ==
  ASSUME TypeOK, Requested, NEW t \in Thread,
         ManageKey(t) \/ ManageSchedules(t) \/ ManageBeacons(t)
  PROVE  Fine(tx'[t], pc'[t])
<1>0. tx[t] \in Transaction /\ pc[t] = "ask" /\ Fine(tx[t], "ask")
      /\ Head(tx[t].sources) \in {"key", "enable", "delete", "beacon"}
  BY DEF TypeOK, Requested, ManageKey, ManageSchedules, ManageBeacons, Asking
<1>. USE DEF Fine, Phase, ByKind, Answers, Asked, LocalKinds, TokenKinds, ManageKinds
<1>1. CASE tx' = tx /\ (Finish(t) \/ Goto(t, "commit"))
  BY <1>0, <1>1 DEF Finish, Goto, TypeOK
<1>2. CASE SaltApiError(t)
  BY <1>0, <1>2, SaltApiErrorFine
<1>3. CASE /\ tx[t].kind = "delete"
           /\ tx' = [tx EXCEPT ![t].answered = @ \cup tx[t].target, ![t].todo = tx[t].target]
           /\ Goto(t, "pick")
  <2>1. Head(<<"delete">>) = "delete"
    OBVIOUS
  <2>. QED BY <1>0, <1>3, <2>1 DEF TypeOK, Transaction, Goto
<1>4. CASE /\ tx[t].kind = "enable"
           /\ tx' = [tx EXCEPT ![t].answered = tx[t].target,
                               ![t].told = tx[t].target \X {"schedule"}]
           /\ Goto(t, "get")
  BY <1>0, <1>4 DEF TypeOK, Transaction, Goto
<1>5. CASE /\ tx' = [tx EXCEPT ![t].sources = <<"beacons">>] /\ Goto(t, "connect")
           /\ Head(tx[t].sources) = "beacon"
  <2>1. tx[t].kind \notin {"delete", "forget"}
    <3>1. Head(<<"delete">>) = "delete" /\ Head(<<"forget">>) = "forget"
      OBVIOUS
    <3>. QED BY <1>0, <1>5, <3>1
  <2>2. \A k \in {"forget", "delete", "enable"} : <<"beacons">> # <<k>>
    OBVIOUS
  <2>. QED BY <1>0, <1>5, <2>1, <2>2 DEF TypeOK, Transaction, Goto
<1>. QED BY <1>1, <1>2, <1>3, <1>4, <1>5 DEF ManageKey, ManageSchedules, ManageBeacons, Asking

LEMMA PickFine ==
  ASSUME TypeOK, Requested, NEW t \in Thread, NEW m \in Minion, Pick(t, m)
  PROVE  Fine(tx'[t], pc'[t])
<1>0. tx[t] \in Transaction /\ Fine(tx[t], "pick") /\ m \in tx[t].todo
  BY DEF TypeOK, Requested, Pick
<1>1. /\ pc'[t] = "write" /\ tx'[t].target = {m} /\ tx'[t].todo = tx[t].todo \ {m}
      /\ \A f \in {"kind", "columns", "sources", "told", "answered", "deleted", "inserted",
                   "again", "audited", "broken"} : tx'[t][f] = tx[t][f]
  BY <1>0 DEF Pick, Goto, TypeOK, Transaction
<1>. QED BY <1>0, <1>1 DEF Fine, Phase, ByKind, Answers, Asked, LocalKinds, TokenKinds,
            ManageKinds

(* Only what was inserted, deleted or held changes with a statement, and the  *)
(* request goes on.                                                           *)
LEMMA WrittenFine ==
  ASSUME TypeOK, Requested, NEW t \in Thread, pc[t] = "write",
         Continue(t) \/ Finish(t), tx'[t].aim = {},
         \A f \in {"kind", "target", "columns", "sources", "told", "answered", "todo",
                   "again", "audited", "broken"} : tx'[t][f] = tx[t][f],
         Source(t) # "enable" \/ Finish(t)
  PROVE  Fine(tx'[t], pc'[t])
<1>1. /\ pc'[t] \in {"pick", "get", "audit", "commit"}
      /\ pc'[t] = "get" => tx[t].again /\ tx[t].todo = {}
      /\ pc'[t] = "pick" => Source(t) # "enable"
  BY DEF Continue, Finish, Goto, TypeOK
<1>. QED BY <1>1 DEF Source, Requested, Fine, Phase, ByKind, Answers, Asked, LocalKinds, TokenKinds,
            ManageKinds

LEMMA WriteFine ==
  ASSUME TypeOK, Requested, NEW t \in Thread,
         \/ Replace(t) \/ UpdateOrCreate(t) \/ DeleteSchedule(t) \/ DestroyMinion(t)
         \/ SaveSchedule(t)
  PROVE  Fine(tx'[t], pc'[t])
<1>0. tx[t] \in Transaction /\ pc[t] = "write"
  BY DEF TypeOK, Replace, UpdateOrCreate, DeleteSchedule, DestroyMinion, SaveSchedule, Ready
<1>1. CASE End(t)
  BY <1>1, EndFine
<1>2. CASE Replace(t)
  BY <1>0, <1>2, WrittenFine DEF Replace, Ready, Delete, TypeOK, Transaction
<1>3. CASE UpdateOrCreate(t) /\ ~End(t)
  <2>1. Source(t) # "enable" /\ Continue(t)
    BY <1>3 DEF UpdateOrCreate, Ready
  <2>2. CASE tx' = [tx EXCEPT ![t].inserted = @ \cup
                      [pk : NextPk, of : tx[t].target \X {"grains"}], ![t].aim = {}]
    BY <1>0, <2>1, <2>2, WrittenFine DEF TypeOK, Transaction
  <2>3. CASE tx' = [tx EXCEPT ![t].held = @ \cup tx[t].aim, ![t].aim = {}]
    BY <1>0, <2>1, <2>3, WrittenFine DEF TypeOK, Transaction
  <2>. QED BY <1>3, <2>2, <2>3 DEF UpdateOrCreate
<1>4. CASE (DeleteSchedule(t) \/ DestroyMinion(t)) /\ ~End(t)
  <2>1. tx' = [tx EXCEPT ![t] = Delete(t, Found(t))] /\ Finish(t)
    BY <1>4 DEF DeleteSchedule, DestroyMinion
  <2>2. /\ tx'[t].aim = {}
        /\ \A f \in {"kind", "target", "columns", "sources", "told", "answered", "todo",
                     "again", "audited", "broken"} : tx'[t][f] = tx[t][f]
    BY <2>1 DEF Delete, TypeOK, Transaction
  <2>. QED BY <1>0, <2>1, <2>2, WrittenFine
<1>5. CASE SaveSchedule(t)
  BY <1>0, <1>5, WrittenFine DEF SaveSchedule, TypeOK, Transaction
<1>. QED BY <1>1, <1>2, <1>3, <1>4, <1>5

LEMMA GetScheduleFine ==
  ASSUME TypeOK, Requested, NEW t \in Thread, GetSchedule(t)
  PROVE  Fine(tx'[t], pc'[t])
<1>0. tx[t] \in Transaction /\ Fine(tx[t], "get") /\ pc[t] = "get"
  BY DEF TypeOK, Requested, GetSchedule
<1>. USE DEF Fine, Phase, ByKind, Answers, Asked, LocalKinds, TokenKinds, ManageKinds
<1>1. CASE /\ ~tx[t].again /\ Goto(t, "connect")
           /\ tx' = [tx EXCEPT ![t].sources = <<"schedules">>, ![t].again = TRUE]
  <2>1. \A k \in {"forget", "delete", "enable"} : <<"schedules">> # <<k>>
    OBVIOUS
  <2>. QED BY <1>0, <1>1, <2>1 DEF TypeOK, Transaction, Goto
<1>2. CASE Goto(t, "commit") /\ UNCHANGED tx
  BY <1>0, <1>2 DEF Goto, TypeOK
<1>3. CASE /\ tx' = [tx EXCEPT ![t].sources = <<"enable">>,
                               ![t].aim = PksOf(RowsAbout(t, tx[t].target \X {"schedule"}))]
           /\ Goto(t, "write")
  <2>1. Head(<<"enable">>) = "enable" /\ \A k : <<"enable">> = <<k>> => k = "enable"
    OBVIOUS
  <2>. QED BY <1>0, <1>3, <2>1 DEF TypeOK, Transaction, Goto
<1>4. CASE End(t)
  BY <1>4, EndFine
<1>. QED BY <1>1, <1>2, <1>3, <1>4 DEF GetSchedule

LEMMA AuditFine ==
  ASSUME TypeOK, Requested, NEW t \in Thread, Audit(t)
  PROVE  Fine(tx'[t], pc'[t])
<1>0. tx[t] \in Transaction /\ Fine(tx[t], "audit") /\ pc'[t] = "commit"
  BY DEF TypeOK, Requested, Audit, Goto
<1>1. PICK ok \in BOOLEAN : tx' = [tx EXCEPT ![t].audited = ok, ![t].broken = ~ok]
  BY DEF Audit
<1>2. /\ tx'[t].audited \/ tx'[t].broken
      /\ \A f \in {"kind", "target", "columns", "sources", "told", "answered", "todo", "aim",
                   "deleted", "inserted"} : tx'[t][f] = tx[t][f]
  BY <1>0, <1>1 DEF TypeOK, Transaction
<1>3. tx'[t].again = tx[t].again
  BY <1>0, <1>1 DEF TypeOK, Transaction
<1>. QED BY <1>0, <1>2, <1>3 DEF Fine, Phase, ByKind, Answers, Asked, LocalKinds, TokenKinds,
            ManageKinds

-----------------------------------------------------------------------------
(* Keys and Aims, for the ways in which a step can change a transaction.     *)
(* Nothing new is written, and no statement waits.                           *)
LEMMA QuietKeys ==
  ASSUME Keys, Aims, NEW t \in Thread, Only(t), rows' = rows, pc'[t] # "write",
         tx'[t].inserted \subseteq tx[t].inserted, tx'[t].deleted \subseteq tx[t].deleted
  PROVE  Keys' /\ Aims'
<1>1. /\ \A u \in Thread : tx'[u].inserted \subseteq tx[u].inserted
      /\ \A u \in Thread : tx'[u].deleted \subseteq tx[u].deleted
      /\ \A u \in Thread : pc'[u] = "write" => tx'[u] = tx[u] /\ pc[u] = "write"
  BY DEF Only
<1>2. Keys'
  BY <1>1 DEF Keys
<1>3. Aims'
  <2>. SUFFICES ASSUME NEW u \in Thread, pc'[u] = "write"
       PROVE  /\ \A r \in rows' : r.pk \in tx'[u].aim => r.of \in Aimed(tx'[u])
              /\ \A v \in Thread : \A r \in tx'[v].inserted :
                   r.pk \in tx'[u].aim => r.of \in Aimed(tx'[u])
              /\ \A v \in Thread : pc'[v] = "write" /\ tx'[u].aim \cap tx'[v].aim # {} =>
                   Aimed(tx'[u]) = Aimed(tx'[v])
              /\ Source(u)' = "enable" => \E p \in Pk : tx'[u].aim = {p} /\ p \notin tx'[u].deleted
    BY DEF Aims
  <2>1. tx'[u] = tx[u] /\ pc[u] = "write" /\ Source(u)' = Source(u)
    BY <1>1 DEF Source
  <2>. QED BY <1>1, <2>1 DEF Aims
<1>. QED BY <1>2, <1>3

(* A statement of t deletes the rows R and inserts rows with fresh keys.      *)
Fresh(r) ==
  /\ \A s \in rows : s.pk # r.pk
  /\ \A u \in Thread : r.pk \notin tx[u].deleted /\ \A s \in tx[u].inserted : s.pk # r.pk

LEMMA WriteKeys ==
  ASSUME Keys, Aims, NEW t \in Thread, Only(t), rows' = rows, pc'[t] # "write",
         NEW R, R \subseteq rows \cup tx[t].inserted, NEW new,
         tx'[t].inserted = (tx[t].inserted \ R) \cup new,
         tx'[t].deleted = tx[t].deleted \cup PksOf(R),
         \A r \in new : Fresh(r) /\ \A s \in new : r.pk = s.pk => r = s,
         \A r \in new, u \in Thread :
           u # t /\ pc[u] = "write" /\ r.pk \in tx[u].aim => r.of \in Aimed(tx[u])
  PROVE  Keys' /\ Aims'
<1>1. \A u \in Thread : u # t => tx'[u] = tx[u] /\ pc'[u] = pc[u]
  BY DEF Only
<1>2. \A r \in tx'[t].inserted : r \in tx[t].inserted \ R \/ r \in new
  OBVIOUS
<1>3. \A u \in Thread : u # t => \A r \in tx[u].inserted : r.pk \notin PksOf(R)
  BY DEF PksOf, Keys
<1>4. \A r \in tx[t].inserted \ R : r.pk \notin PksOf(R)
  BY DEF PksOf, Keys
<1>5. \A r \in new : r.pk \notin PksOf(R)
  BY DEF PksOf, Fresh
<1>6. Keys'
  <2>. SUFFICES ASSUME NEW u \in Thread, NEW v \in Thread, NEW r \in tx'[u].inserted
       PROVE  /\ \A s \in tx'[v].inserted : r.pk = s.pk => u = v /\ r = s
              /\ r.pk \notin tx'[v].deleted
              /\ \A s \in rows' : r.pk # s.pk
    BY DEF Keys
  <2>1. CASE u # t /\ v # t
    BY <1>1, <2>1 DEF Keys
  <2>2. CASE u # t /\ v = t
    BY <1>1, <1>2, <1>3, <2>2 DEF Keys, Fresh
  <2>3. CASE u = t /\ v # t
    BY <1>1, <1>2, <2>3 DEF Keys, Fresh
  <2>4. CASE u = t /\ v = t
    BY <1>2, <1>4, <1>5, <2>4 DEF Keys, Fresh
  <2>. QED BY <2>1, <2>2, <2>3, <2>4
<1>7. Aims'
  <2>. SUFFICES ASSUME NEW u \in Thread, pc'[u] = "write"
       PROVE  /\ \A r \in rows' : r.pk \in tx'[u].aim => r.of \in Aimed(tx'[u])
              /\ \A v \in Thread : \A r \in tx'[v].inserted :
                   r.pk \in tx'[u].aim => r.of \in Aimed(tx'[u])
              /\ \A v \in Thread : pc'[v] = "write" /\ tx'[u].aim \cap tx'[v].aim # {} =>
                   Aimed(tx'[u]) = Aimed(tx'[v])
              /\ Source(u)' = "enable" => \E p \in Pk : tx'[u].aim = {p} /\ p \notin tx'[u].deleted
    BY DEF Aims
  <2>1. u # t /\ tx'[u] = tx[u] /\ pc[u] = "write" /\ Source(u)' = Source(u)
    BY <1>1 DEF Source
  <2>2. \A v \in Thread : \A r \in tx'[v].inserted :
          r.pk \in tx'[u].aim => r.of \in Aimed(tx'[u])
    BY <1>1, <1>2, <2>1 DEF Aims
  <2>. QED BY <1>1, <2>1, <2>2 DEF Aims
<1>. QED BY <1>6, <1>7

(* A statement of t begins to wait for the rows it sees about one pair.       *)
LEMMA AimKeys ==
  ASSUME TypeOK, Requested, Keys, Aims, NEW t \in Thread, Only(t), rows' = rows, pc'[t] = "write",
         tx'[t].inserted = tx[t].inserted, tx'[t].deleted = tx[t].deleted,
         NEW p, Aimed(tx'[t]) = {p}, tx'[t].aim = PksOf(RowsAbout(t, {p})),
         Source(t)' = "enable" => Single(RowsAbout(t, {p}))
  PROVE  Keys' /\ Aims'
<1>1. /\ \A u \in Thread : u # t => tx'[u] = tx[u] /\ pc'[u] = pc[u]
      /\ \A u \in Thread : tx'[u].inserted = tx[u].inserted /\ tx'[u].deleted = tx[u].deleted
  BY DEF Only
<1>2. Keys'
  BY <1>1 DEF Keys
<1>3. \A k \in tx'[t].aim : \E q \in rows \cup tx[t].inserted :
        q.pk = k /\ q.of = p /\ k \notin tx[t].deleted
  BY DEF PksOf, RowsAbout, Visible, Keys
<1>4. ASSUME NEW r \in rows, r.pk \in tx'[t].aim PROVE r.of = p
  <2>1. PICK q \in rows \cup tx[t].inserted : q.pk = r.pk /\ q.of = p
    BY <1>3, <1>4
  <2>2. q \notin tx[t].inserted
    BY <2>1 DEF Keys
  <2>. QED BY <2>1, <2>2 DEF TypeOK
<1>5. ASSUME NEW v \in Thread, NEW r \in tx[v].inserted, r.pk \in tx'[t].aim PROVE r.of = p
  <2>1. PICK q \in rows \cup tx[t].inserted : q.pk = r.pk /\ q.of = p
    BY <1>3, <1>5
  <2>2. q \notin rows
    BY <2>1 DEF Keys
  <2>. QED BY <2>1, <2>2 DEF Keys
<1>6. \A u \in Thread : u # t /\ pc[u] = "write" /\ tx'[t].aim \cap tx[u].aim # {} =>
        Aimed(tx[u]) = {p}
  <2>. SUFFICES ASSUME NEW u \in Thread, u # t, pc[u] = "write",
                       NEW k \in tx'[t].aim, k \in tx[u].aim
       PROVE  Aimed(tx[u]) = {p}
    OBVIOUS
  <2>1. PICK q \in rows \cup tx[t].inserted : q.pk = k /\ q.of = p
    BY <1>3
  <2>2. p \in Aimed(tx[u])
    BY <2>1 DEF Aims
  <2>3. PICK m \in Minion : tx[u].target = {m}
    BY DEF Requested, Fine, Answers
  <2>4. \A q1, q2 \in Aimed(tx[u]) : q1 = q2
    BY <2>3 DEF Aimed
  <2>. QED BY <2>2, <2>4
<1>7. Source(t)' = "enable" => \E k \in Pk : tx'[t].aim = {k} /\ k \notin tx'[t].deleted
  <2>. SUFFICES ASSUME Source(t)' = "enable"
       PROVE  \E k \in Pk : tx'[t].aim = {k} /\ k \notin tx'[t].deleted
    OBVIOUS
  <2>1. PICK r : r \in RowsAbout(t, {p}) /\ RowsAbout(t, {p}) = {r}
    BY DEF Single
  <2>2. tx'[t].aim = {r.pk} /\ r \in Row
    BY <2>1, VisibleRows DEF PksOf
  <2>. QED BY <1>3, <2>2 DEF Row
<1>8. Aims'
  <2>. SUFFICES ASSUME NEW u \in Thread, pc'[u] = "write"
       PROVE  /\ \A r \in rows' : r.pk \in tx'[u].aim => r.of \in Aimed(tx'[u])
              /\ \A v \in Thread : \A r \in tx'[v].inserted :
                   r.pk \in tx'[u].aim => r.of \in Aimed(tx'[u])
              /\ \A v \in Thread : pc'[v] = "write" /\ tx'[u].aim \cap tx'[v].aim # {} =>
                   Aimed(tx'[u]) = Aimed(tx'[v])
              /\ Source(u)' = "enable" => \E k \in Pk : tx'[u].aim = {k} /\ k \notin tx'[u].deleted
    BY DEF Aims
  <2>1. CASE u = t
    BY <1>1, <1>4, <1>5, <1>6, <1>7, <2>1
  <2>2. CASE u # t
    <3>1. tx'[u] = tx[u] /\ pc[u] = "write" /\ Source(u)' = Source(u)
      BY <1>1, <2>2 DEF Source
    <3>2. \A v \in Thread : pc'[v] = "write" /\ tx'[u].aim \cap tx'[v].aim # {} =>
            Aimed(tx'[u]) = Aimed(tx'[v])
      <4>. SUFFICES ASSUME NEW v \in Thread, pc'[v] = "write",
                           tx'[u].aim \cap tx'[v].aim # {}
           PROVE  Aimed(tx'[u]) = Aimed(tx'[v])
        OBVIOUS
      <4>1. CASE v = t
        <5>1. tx'[t].aim \cap tx[u].aim # {}
          BY <3>1, <4>1
        <5>2. Aimed(tx[u]) = {p}
          BY <1>6, <2>2, <3>1, <5>1
        <5>. QED BY <3>1, <4>1, <5>2
      <4>2. CASE v # t
        BY <1>1, <3>1, <4>2 DEF Aims
      <4>. QED BY <4>1, <4>2
    <3>3. \A v \in Thread : \A r \in tx'[v].inserted :
            r.pk \in tx'[u].aim => r.of \in Aimed(tx'[u])
      BY <1>1, <3>1 DEF Aims
    <3>4. \A r \in rows' : r.pk \in tx'[u].aim => r.of \in Aimed(tx'[u])
      BY <3>1 DEF Aims
    <3>5. Source(u)' = "enable" => \E k \in Pk : tx'[u].aim = {k} /\ k \notin tx'[u].deleted
      BY <3>1 DEF Aims
    <3>. QED BY <3>2, <3>3, <3>4, <3>5
  <2>. QED BY <2>1, <2>2
<1>. QED BY <1>2, <1>8

(* What t has written becomes what everybody reads.                           *)
LEMMA CommitKeys ==
  ASSUME TypeOK, Keys, Aims, NEW t \in Thread, Only(t), rows' = Visible(t), tx'[t] = Idle,
         pc'[t] = "idle"
  PROVE  Keys' /\ Aims' /\ \A r, s \in rows' : r.pk = s.pk => r = s
<1>1. \A u \in Thread : u # t => tx'[u] = tx[u] /\ pc'[u] = pc[u]
  BY DEF Only
<1>2. tx'[t].inserted = {} /\ tx'[t].deleted = {}
  BY DEF Idle, NoRequest
<1>3. \A r \in rows' : r \in rows \/ r \in tx[t].inserted
  BY DEF Visible
<1>4. Keys'
  BY <1>1, <1>2, <1>3 DEF Keys
<1>5. \A r, s \in rows' : r.pk = s.pk => r = s
  BY <1>3 DEF Keys, TypeOK
<1>6. Aims'
  <2>. SUFFICES ASSUME NEW u \in Thread, pc'[u] = "write"
       PROVE  /\ \A r \in rows' : r.pk \in tx'[u].aim => r.of \in Aimed(tx'[u])
              /\ \A v \in Thread : \A r \in tx'[v].inserted :
                   r.pk \in tx'[u].aim => r.of \in Aimed(tx'[u])
              /\ \A v \in Thread : pc'[v] = "write" /\ tx'[u].aim \cap tx'[v].aim # {} =>
                   Aimed(tx'[u]) = Aimed(tx'[v])
              /\ Source(u)' = "enable" => \E p \in Pk : tx'[u].aim = {p} /\ p \notin tx'[u].deleted
    BY DEF Aims
  <2>1. u # t /\ tx'[u] = tx[u] /\ pc[u] = "write" /\ Source(u)' = Source(u)
    BY <1>1 DEF Source
  <2>2. \A v \in Thread : v # t => tx'[v] = tx[v] /\ (pc'[v] = "write" => pc[v] = "write")
    BY <1>1
  <2>3. \A r \in rows' : r.pk \in tx'[u].aim => r.of \in Aimed(tx'[u])
    BY <1>3, <2>1 DEF Aims
  <2>4. \A v \in Thread : \A r \in tx'[v].inserted : r.pk \in tx'[u].aim => r.of \in Aimed(tx'[u])
    BY <1>2, <2>1, <2>2 DEF Aims
  <2>5. \A v \in Thread : pc'[v] = "write" /\ tx'[u].aim \cap tx'[v].aim # {} =>
          Aimed(tx'[u]) = Aimed(tx'[v])
    BY <2>1, <2>2 DEF Aims
  <2>. QED BY <2>1, <2>3, <2>4, <2>5 DEF Aims
<1>. QED BY <1>4, <1>5, <1>6

-----------------------------------------------------------------------------
(* ToldOf, for the same ways.                                                *)
Kept(x, y) ==
  /\ y.inserted = x.inserted /\ y.deleted = x.deleted /\ y.told = x.told
  /\ y.answered = x.answered /\ y.kind = x.kind

Blank(x) == x.inserted = {} /\ x.deleted = {}

LEMMA QuietTold ==
  ASSUME ToldOf, NEW t \in Thread, Only(t), rows' = rows, Blank(tx'[t]) \/ Kept(tx[t], tx'[t])
  PROVE  ToldOf'
<1>1. \A u \in Thread : Blank(tx'[u]) \/ Kept(tx[u], tx'[u])
  BY DEF Only, Kept
<1>. QED BY <1>1 DEF ToldOf, Blank, Kept, Enabled

LEMMA WriteTold ==
  ASSUME TypeOK, Keys, ToldOf, NEW t \in Thread, Only(t), rows' = rows,
         NEW R, R \subseteq rows \cup tx[t].inserted, NEW new,
         tx'[t].inserted = (tx[t].inserted \ R) \cup new,
         tx'[t].deleted = tx[t].deleted \cup PksOf(R),
         tx'[t].told = tx[t].told, tx'[t].answered = tx[t].answered, tx'[t].kind = tx[t].kind,
         \A r \in new : r.of \in tx[t].told \/ Enabled(tx[t], r.of),
         \A r \in R : /\ r.of \in tx[t].told => \E s \in new : s.of = r.of
                      /\ \/ r.of[1] \in tx[t].answered
                         \/ tx[t].kind = "forget" /\ r.of[2] = "grains"
  PROVE  ToldOf'
<1>1. \A u \in Thread : u # t => tx'[u] = tx[u]
  BY DEF Only
<1>2. \A p : Enabled(tx'[t], p) <=> Enabled(tx[t], p)
  BY DEF Enabled
<1>3. \A r \in tx'[t].inserted : r.of \in tx'[t].told \/ Enabled(tx'[t], r.of)
  BY <1>2 DEF ToldOf
<1>4. ASSUME NEW r \in rows, r.pk \in tx'[t].deleted
      PROVE  \/ /\ r.of[1] \in tx'[t].answered
                /\ r.of \in tx'[t].told => \E s \in tx'[t].inserted : s.of = r.of
             \/ tx'[t].kind = "forget" /\ r.of[2] = "grains"
  <2>1. CASE r.pk \in PksOf(R)
    <3>1. PICK q \in R : q.pk = r.pk
      BY <2>1 DEF PksOf
    <3>2. q = r
      BY <3>1 DEF TypeOK, Keys
    <3>. QED BY <3>2
  <2>2. CASE r.pk \in tx[t].deleted
    <3>1. ASSUME NEW s \in tx[t].inserted, s.of = r.of, r.of \in tx[t].told
          PROVE  \E q \in tx'[t].inserted : q.of = r.of
      <4>1. CASE s \in R
        BY <3>1, <4>1
      <4>2. CASE s \notin R
        BY <3>1, <4>2
      <4>. QED BY <4>1, <4>2
    <3>. QED BY <2>2, <3>1 DEF ToldOf
  <2>. QED BY <1>4, <2>1, <2>2
<1>5. ASSUME NEW u \in Thread
      PROVE  /\ \A r \in tx'[u].inserted : r.of \in tx'[u].told \/ Enabled(tx'[u], r.of)
             /\ \A r \in rows' : r.pk \in tx'[u].deleted =>
                  \/ /\ r.of[1] \in tx'[u].answered
                     /\ r.of \in tx'[u].told => \E s \in tx'[u].inserted : s.of = r.of
                  \/ tx'[u].kind = "forget" /\ r.of[2] = "grains"
  <2>1. CASE u = t
    BY <1>3, <1>4, <2>1
  <2>2. CASE u # t
    BY <1>1, <2>2 DEF ToldOf
  <2>. QED BY <2>1, <2>2
<1>. QED BY <1>5 DEF ToldOf

LEMMA CommitTold ==
  ASSUME Keys, ToldOf, NEW t \in Thread, Only(t), rows' = Visible(t), tx'[t] = Idle
  PROVE  ToldOf'
<1>1. tx'[t].inserted = {} /\ tx'[t].deleted = {}
  BY DEF Idle, NoRequest
<1>2. \A r \in rows' : r \in rows \/ r \in tx[t].inserted
  BY DEF Visible
<1>3. ASSUME NEW u \in Thread
      PROVE  /\ \A r \in tx'[u].inserted : r.of \in tx'[u].told \/ Enabled(tx'[u], r.of)
             /\ \A r \in rows' : r.pk \in tx'[u].deleted =>
                  \/ /\ r.of[1] \in tx'[u].answered
                     /\ r.of \in tx'[u].told => \E s \in tx'[u].inserted : s.of = r.of
                  \/ tx'[u].kind = "forget" /\ r.of[2] = "grains"
  <2>1. CASE u = t
    BY <1>1, <2>1
  <2>2. CASE u # t
    <3>1. tx'[u] = tx[u]
      BY <2>2 DEF Only
    <3>2. \A r \in rows' : r.pk \in tx[u].deleted => r \in rows
      BY <1>2 DEF Keys
    <3>. QED BY <3>1, <3>2 DEF ToldOf
  <2>. QED BY <2>1, <2>2
<1>. QED BY <1>3 DEF ToldOf

-----------------------------------------------------------------------------
(* Steps after which no statement waits and nothing new is written.          *)
Quiet(t) ==
  /\ rows' = rows /\ pc'[t] # "write"
  /\ Blank(tx'[t]) \/ Kept(tx[t], tx'[t])

LEMMA QuietHolds ==
  ASSUME Keys, Aims, ToldOf, NEW t \in Thread, Only(t), Quiet(t)
  PROVE  Keys' /\ Aims' /\ ToldOf'
<1>1. tx'[t].inserted \subseteq tx[t].inserted /\ tx'[t].deleted \subseteq tx[t].deleted
  BY DEF Quiet, Blank, Kept
<1>. QED BY <1>1, QuietKeys, QuietTold DEF Quiet

LEMMA EndQuiet ==
  ASSUME TypeOK, NEW t \in Thread, End(t), rows' = rows
  PROVE  Quiet(t)
<1>1. tx'[t] = Idle /\ pc'[t] = "idle"
  BY DEF End, Goto, TypeOK
<1>. QED BY <1>1 DEF Quiet, Blank, Idle, NoRequest

LEMMA BeginQuiet ==
  ASSUME TypeOK, NEW t \in Thread, NEW k \in Kinds, NEW m \in Minion, Begin(t, k, m)
  PROVE  Quiet(t)
<1>1. tx'[t].inserted = {} /\ tx'[t].deleted = {} /\ pc'[t] # "write" /\ rows' = rows
  BY DEF Begin, NoRequest, TypeOK, Goto
<1>. QED BY <1>1 DEF Quiet, Blank

(* Until the last answer a request has written nothing.                      *)
LEMMA AskedBlank ==
  ASSUME Requested, NEW t \in Thread, pc[t] \in Asked, Kept(tx[t], tx'[t]) \/
           (tx'[t].inserted = tx[t].inserted /\ tx'[t].deleted = tx[t].deleted)
  PROVE  Blank(tx'[t])
BY DEF Requested, Fine, Phase, Blank, Kept

LEMMA SettingsQuiet ==
  ASSUME TypeOK, Requested, NEW t \in Thread,
         Load(t) \/ PatchSettings(t) \/ SaveUserSettings(t) \/ ManageToken(t)
  PROVE  Quiet(t)
<1>0. tx[t] \in Transaction /\ rows' = rows /\ pc[t] \in Asked
  BY DEF TypeOK, Load, PatchSettings, SaveUserSettings, ManageToken, Unchanged, Asked
<1>1. tx'[t].inserted = tx[t].inserted /\ tx'[t].deleted = tx[t].deleted
  BY <1>0 DEF TypeOK, Transaction, Load, PatchSettings, SaveUserSettings, ManageToken
<1>2. pc'[t] # "write"
  BY DEF TypeOK, Load, PatchSettings, SaveUserSettings, ManageToken, Finish, Goto
<1>. QED BY <1>0, <1>1, <1>2, AskedBlank DEF Quiet

LEMMA SaltApiErrorKeeps ==
  ASSUME TypeOK, NEW t \in Thread, SaltApiError(t) \/ NextSource(t)
  PROVE  /\ tx'[t].inserted = tx[t].inserted /\ tx'[t].deleted = tx[t].deleted
         /\ pc'[t] # "write"
<1>0. tx[t] \in Transaction
  BY DEF TypeOK
<1>. QED BY <1>0 DEF SaltApiError, NextSource, Goto, TypeOK, Transaction

LEMMA ConnectQuiet ==
  ASSUME TypeOK, Requested, NEW t \in Thread, ApiConnect(t)
  PROVE  Quiet(t)
<1>0. tx[t] \in Transaction /\ rows' = rows /\ pc[t] \in Asked
  BY DEF TypeOK, ApiConnect, Unchanged, Asked
<1>1. CASE SaltApiError(t)
  BY <1>0, <1>1, SaltApiErrorKeeps, AskedBlank DEF Quiet
<1>2. CASE ~SaltApiError(t)
  <2>1. tx'[t].inserted = tx[t].inserted /\ tx'[t].deleted = tx[t].deleted
    BY <1>0, <1>2 DEF ApiConnect, TypeOK, Transaction
  <2>2. pc'[t] # "write"
    BY <1>2 DEF ApiConnect, Goto, TypeOK
  <2>. QED BY <1>0, <2>1, <2>2, AskedBlank DEF Quiet
<1>. QED BY <1>1, <1>2

LEMMA HeardKeeps ==
  ASSUME TypeOK, NEW t \in Thread, NEW A, NEW T, Heard(t, A, T)
  PROVE  /\ tx'[t].inserted = tx[t].inserted /\ tx'[t].deleted = tx[t].deleted
         /\ pc'[t] # "write"
<1>0. tx[t] \in Transaction
  BY DEF TypeOK
<1>1. CASE NextSource(t)
  BY <1>1, SaltApiErrorKeeps
<1>2. CASE ~NextSource(t)
  <2>1. tx'[t].inserted = tx[t].inserted /\ tx'[t].deleted = tx[t].deleted
    BY <1>0, <1>2 DEF Heard, NoAnswer, TypeOK, Transaction
  <2>2. pc'[t] # "write"
    BY <1>2 DEF Heard, NoAnswer, Continue, Finish, Goto, TypeOK
  <2>. QED BY <2>1, <2>2
<1>. QED BY <1>1, <1>2

LEMMA AskQuiet ==
  ASSUME TypeOK, Requested, NEW t \in Thread,
         AskInventory(t) \/ RefreshMinion(t) \/ RefreshSchedules(t) \/ RefreshBeacons(t)
  PROVE  Quiet(t)
<1>0. rows' = rows /\ pc[t] \in Asked
  BY DEF AskInventory, RefreshMinion, RefreshSchedules, RefreshBeacons, Asking, Unchanged, Asked
<1>1. SaltApiError(t) \/ \E A, T : Heard(t, A, T)
  BY DEF AskInventory, RefreshMinion, RefreshSchedules, RefreshBeacons, Mappings
<1>2. /\ tx'[t].inserted = tx[t].inserted /\ tx'[t].deleted = tx[t].deleted
      /\ pc'[t] # "write"
  BY <1>1, SaltApiErrorKeeps, HeardKeeps
<1>. QED BY <1>0, <1>2, AskedBlank DEF Quiet

LEMMA ManageQuiet ==
  ASSUME TypeOK, Requested, NEW t \in Thread,
         ManageKey(t) \/ ManageSchedules(t) \/ ManageBeacons(t)
  PROVE  Quiet(t)
<1>0. tx[t] \in Transaction /\ rows' = rows /\ pc[t] \in Asked
  BY DEF TypeOK, ManageKey, ManageSchedules, ManageBeacons, Asking, Unchanged, Asked
<1>1. CASE SaltApiError(t)
  BY <1>0, <1>1, SaltApiErrorKeeps, AskedBlank DEF Quiet
<1>2. CASE ~SaltApiError(t)
  <2>1. tx'[t].inserted = tx[t].inserted /\ tx'[t].deleted = tx[t].deleted
    BY <1>0, <1>2 DEF ManageKey, ManageSchedules, ManageBeacons, TypeOK, Transaction
  <2>2. pc'[t] # "write"
    BY <1>2 DEF ManageKey, ManageSchedules, ManageBeacons, Finish, Goto, TypeOK
  <2>. QED BY <1>0, <2>1, <2>2, AskedBlank DEF Quiet
<1>. QED BY <1>1, <1>2

LEMMA AuditQuiet ==
  ASSUME TypeOK, NEW t \in Thread, Audit(t)
  PROVE  Quiet(t)
<1>0. tx[t] \in Transaction
  BY DEF TypeOK
<1>1. Kept(tx[t], tx'[t])
  BY <1>0 DEF Audit, Kept, TypeOK, Transaction
<1>2. rows' = rows /\ pc'[t] # "write"
  BY DEF Audit, Unchanged, Goto, TypeOK
<1>. QED BY <1>1, <1>2 DEF Quiet

-----------------------------------------------------------------------------
(* Steps of the statements.                                                  *)
LEMMA PickHolds ==
  ASSUME TypeOK, Requested, Keys, Aims, ToldOf, NEW t \in Thread, NEW m \in Minion,
         Only(t), Pick(t, m)
  PROVE  Keys' /\ Aims' /\ ToldOf'
<1>. DEFINE p == <<m, Table(Source(t))>>
<1>0. tx[t] \in Transaction /\ rows' = rows
  BY DEF TypeOK, Pick, Unchanged
<1>1. /\ pc'[t] = "write" /\ tx'[t].target = {m} /\ tx'[t].aim = PksOf(RowsAbout(t, {p}))
      /\ tx'[t].sources = tx[t].sources /\ Kept(tx[t], tx'[t])
  BY <1>0 DEF Pick, Goto, TypeOK, Transaction, Kept
<1>2. Source(t)' # "enable"
  BY <1>1 DEF Pick, Source, Requested, Fine, Answers
<1>3. Aimed(tx'[t]) = {p}
  BY <1>1 DEF Aimed, Source
<1>4. Keys' /\ Aims'
  BY <1>0, <1>1, <1>2, <1>3, AimKeys DEF Kept
<1>. QED BY <1>0, <1>1, <1>4, QuietTold

LEMMA GetScheduleHolds ==
  ASSUME TypeOK, Requested, Keys, Aims, ToldOf, NEW t \in Thread, Only(t), GetSchedule(t)
  PROVE  Keys' /\ Aims' /\ ToldOf'
<1>0. tx[t] \in Transaction /\ rows' = rows /\ Fine(tx[t], "get")
  BY DEF TypeOK, GetSchedule, Unchanged, Requested
<1>1. CASE /\ tx' = [tx EXCEPT ![t].sources = <<"schedules">>, ![t].again = TRUE]
           /\ Goto(t, "connect")
  <2>1. Kept(tx[t], tx'[t]) /\ pc'[t] = "connect"
    BY <1>0, <1>1 DEF TypeOK, Transaction, Kept, Goto
  <2>. QED BY <1>0, <2>1, QuietHolds DEF Quiet
<1>2. CASE Goto(t, "commit") /\ UNCHANGED tx
  <2>1. Kept(tx[t], tx'[t]) /\ pc'[t] = "commit"
    BY <1>2 DEF Kept, Goto, TypeOK
  <2>. QED BY <1>0, <2>1, QuietHolds DEF Quiet
<1>3. CASE End(t)
  BY <1>0, <1>3, EndQuiet, QuietHolds
<1>4. CASE /\ Single(RowsAbout(t, tx[t].target \X {"schedule"}))
           /\ tx' = [tx EXCEPT ![t].sources = <<"enable">>,
                               ![t].aim = PksOf(RowsAbout(t, tx[t].target \X {"schedule"}))]
           /\ Goto(t, "write")
  <2>1. PICK m \in Minion : tx[t].target = {m}
    BY <1>0 DEF Fine, Phase, ByKind, ManageKinds
  <2>. DEFINE p == <<m, "schedule">>
  <2>2. tx[t].target \X {"schedule"} = {p}
    BY <2>1
  <2>3. /\ pc'[t] = "write" /\ tx'[t].target = {m} /\ tx'[t].sources = <<"enable">>
        /\ tx'[t].aim = PksOf(RowsAbout(t, {p})) /\ Kept(tx[t], tx'[t])
    BY <1>0, <1>4, <2>1, <2>2 DEF TypeOK, Transaction, Kept, Goto
  <2>4. Aimed(tx'[t]) = {p}
    BY <2>3 DEF Aimed, Table
  <2>5. Keys' /\ Aims'
    BY <1>0, <1>4, <2>2, <2>3, <2>4, AimKeys DEF Kept
  <2>. QED BY <1>0, <2>3, <2>5, QuietTold
<1>. QED BY <1>1, <1>2, <1>3, <1>4 DEF GetSchedule

(* The next key is fresh, and nobody waits for it.                           *)
LEMMA NextPkFresh ==
  ASSUME NEW S, \A p, q \in S : p = q, NEW r \in [pk : NextPk, of : S]
  PROVE  /\ Fresh(r) /\ \A s \in [pk : NextPk, of : S] : s = r
         /\ r.of \in S
         /\ \A u \in Thread : r.pk \notin tx[u].aim
<1>1. r.pk \in NextPk /\ r.of \in S
  OBVIOUS
<1>2. r.pk \in Unused
  BY <1>1 DEF NextPk
<1>3. Fresh(r) /\ \A u \in Thread : r.pk \notin tx[u].aim
  BY <1>2 DEF Fresh, Unused, PksOf
<1>4. \A s \in [pk : NextPk, of : S] : s.pk \in NextPk /\ s.of \in S
  OBVIOUS
<1>5. \A p, q \in NextPk : p = q
  BY DEF NextPk, Unused, Pk
<1>6. \A s \in [pk : NextPk, of : S] : s = r
  BY <1>1, <1>4, <1>5
<1>. QED BY <1>1, <1>3, <1>6

(* What t finds is about what it aims at.                                    *)
LEMMA FoundAimed ==
  ASSUME Aims, NEW t \in Thread, pc[t] = "write"
  PROVE  /\ Found(t) \subseteq rows \cup tx[t].inserted
         /\ \A r \in Found(t) : r.of \in Aimed(tx[t])
BY DEF Found, Visible, Aims

LEMMA HeadOnly ==
  \A s \in Queue : \A k \in {"delete", "enable", "forget"} : s # <<>> /\ Head(s) = k => s = <<k>>
BY DEF Queue, RefreshMinionsFleet, RefreshMinionsCached

LEMMA ReplaceHolds ==
  ASSUME TypeOK, Requested, Keys, Aims, ToldOf, NEW t \in Thread, Only(t), Replace(t)
  PROVE  Keys' /\ Aims' /\ ToldOf'
<1>0. /\ tx[t] \in Transaction /\ rows' = rows /\ pc[t] = "write" /\ Fine(tx[t], "write")
      /\ Source(t) \in {"schedules", "beacons"}
  BY DEF TypeOK, Replace, Unchanged, Requested, Ready
<1>. DEFINE told == tx[t].told \cap (tx[t].target \X {Table(Source(t))})
            new == [pk : NextPk, of : told]
            R == Found(t)
<1>1. PICK m \in Minion : tx[t].target = {m}
  BY <1>0 DEF Fine, Answers
<1>2. \A p, q \in told : p = q
  BY <1>1
<1>3. /\ tx'[t].inserted = (tx[t].inserted \ R) \cup new
      /\ tx'[t].deleted = tx[t].deleted \cup PksOf(R)
      /\ tx'[t].told = tx[t].told /\ tx'[t].answered = tx[t].answered
      /\ tx'[t].kind = tx[t].kind
  BY <1>0 DEF Replace, Delete, TypeOK, Transaction
<1>4. pc'[t] # "write"
  BY DEF Replace, Continue, Finish, Goto, TypeOK
<1>5. R \subseteq rows \cup tx[t].inserted /\ \A r \in R : r.of \in Aimed(tx[t])
  BY <1>0, FoundAimed
<1>6. \A r \in new : /\ Fresh(r) /\ \A s \in new : s = r
                     /\ r.of \in told /\ \A u \in Thread : r.pk \notin tx[u].aim
  BY <1>2, NextPkFresh, ZenonT(40)
<1>7. tx[t].kind # "forget" /\ tx[t].target \subseteq tx[t].answered
  <2>1. Head(<<"forget">>) = "forget"
    OBVIOUS
  <2>. QED BY <1>0, <2>1 DEF Fine, ByKind, Answers, Source
<1>8. ASSUME NEW r \in R
      PROVE  /\ r.of \in tx[t].told => \E s \in new : s.of = r.of
             /\ r.of[1] \in tx[t].answered
  <2>1. r.of \in tx[t].target \X {Table(Source(t))}
    BY <1>5 DEF Aimed, Source
  <2>2. r.of[1] \in tx[t].target
    BY <2>1
  <2>3. ASSUME r.of \in tx[t].told PROVE \E s \in new : s.of = r.of
    <3>1. r.of \in told
      BY <2>1, <2>3
    <3>2. PICK k : k \in NextPk
      BY <3>1 DEF Replace
    <3>3. [pk |-> k, of |-> r.of] \in new
      BY <3>1, <3>2
    <3>. QED BY <3>3
  <2>. QED BY <1>7, <2>2, <2>3
<1>9. \A r \in new : r.of \in tx[t].told
  BY <1>6
<1>. HIDE DEF new, R, told
<1>10. Keys' /\ Aims'
  BY <1>0, <1>3, <1>4, <1>5, <1>6, WriteKeys
<1>11. ToldOf'
  BY <1>0, <1>3, <1>5, <1>8, <1>9, WriteTold
<1>. QED BY <1>10, <1>11

LEMMA UpdateOrCreateHolds ==
  ASSUME TypeOK, Requested, Keys, Aims, ToldOf, NEW t \in Thread, Only(t), UpdateOrCreate(t)
  PROVE  Keys' /\ Aims' /\ ToldOf'
<1>0. /\ tx[t] \in Transaction /\ rows' = rows /\ pc[t] = "write" /\ Fine(tx[t], "write")
      /\ Source(t) \in {"fleet", "cache", "one"}
  BY DEF TypeOK, UpdateOrCreate, Unchanged, Requested, Ready
<1>1. CASE Continue(t) /\ tx' = [tx EXCEPT ![t].inserted = @ \cup
                          [pk : NextPk, of : tx[t].target \X {"grains"}], ![t].aim = {}]
  <2>. DEFINE S == tx[t].target \X {"grains"}
              new == [pk : NextPk, of : S]
  <2>1. PICK m \in Minion : tx[t].target = {m}
    BY <1>0 DEF Fine, Answers
  <2>2. S \subseteq tx[t].told /\ \A p, q \in S : p = q
    BY <1>0, <2>1 DEF Fine, Answers, Source
  <2>3. /\ tx'[t].inserted = (tx[t].inserted \ {}) \cup new
        /\ tx'[t].deleted = tx[t].deleted \cup PksOf({})
        /\ tx'[t].told = tx[t].told /\ tx'[t].answered = tx[t].answered
        /\ tx'[t].kind = tx[t].kind
    BY <1>0, <1>1 DEF TypeOK, Transaction, PksOf
  <2>4. pc'[t] # "write"
    BY <1>1 DEF Continue, Finish, Goto, TypeOK
  <2>5. \A r \in new : /\ Fresh(r) /\ \A s \in new : s = r
                       /\ r.of \in S /\ \A u \in Thread : r.pk \notin tx[u].aim
    BY <2>2, NextPkFresh, ZenonT(40)
  <2>6. \A r \in new : r.of \in tx[t].told
    BY <2>2, <2>5
  <2>. HIDE DEF new, S
  <2>7. Keys' /\ Aims'
    BY <1>0, <2>3, <2>4, <2>5, WriteKeys
  <2>8. ToldOf'
    BY <1>0, <2>3, <2>6, WriteTold
  <2>. QED BY <2>7, <2>8
<1>2. CASE Continue(t) /\ tx' = [tx EXCEPT ![t].held = @ \cup tx[t].aim, ![t].aim = {}]
  <2>1. Kept(tx[t], tx'[t]) /\ pc'[t] # "write"
    BY <1>0, <1>2 DEF Kept, TypeOK, Transaction, Continue, Finish, Goto
  <2>. QED BY <1>0, <2>1, QuietHolds DEF Quiet
<1>3. CASE End(t)
  BY <1>0, <1>3, EndQuiet, QuietHolds
<1>. QED BY <1>1, <1>2, <1>3 DEF UpdateOrCreate

LEMMA DeleteHolds ==
  ASSUME TypeOK, Requested, Keys, Aims, ToldOf, NEW t \in Thread, Only(t),
         DeleteSchedule(t) \/ DestroyMinion(t)
  PROVE  Keys' /\ Aims' /\ ToldOf'
<1>0. /\ tx[t] \in Transaction /\ rows' = rows /\ pc[t] = "write" /\ Fine(tx[t], "write")
      /\ Source(t) \in {"delete", "forget"}
  BY DEF TypeOK, DeleteSchedule, DestroyMinion, Unchanged, Requested, Ready
<1>1. CASE End(t)
  BY <1>0, <1>1, EndQuiet, QuietHolds
<1>2. CASE ~End(t)
  <2>. DEFINE R == Found(t)
  <2>1. tx' = [tx EXCEPT ![t] = Delete(t, R)] /\ Finish(t)
    BY <1>2 DEF DeleteSchedule, DestroyMinion
  <2>2. /\ tx'[t].inserted = (tx[t].inserted \ R) \cup {}
        /\ tx'[t].deleted = tx[t].deleted \cup PksOf(R)
        /\ tx'[t].told = tx[t].told /\ tx'[t].answered = tx[t].answered
        /\ tx'[t].kind = tx[t].kind
    BY <1>0, <2>1 DEF Delete, TypeOK, Transaction
  <2>3. pc'[t] # "write"
    BY <2>1 DEF Finish, Goto, TypeOK
  <2>4. R \subseteq rows \cup tx[t].inserted /\ \A r \in R : r.of \in Aimed(tx[t])
    BY <1>0, FoundAimed
  <2>5. tx[t].sources = <<Source(t)>>
    BY <1>0, HeadOnly DEF Source, Fine, Phase, Transaction
  <2>6. tx[t].kind = Source(t) /\ tx[t].told = {}
    BY <1>0, <2>5 DEF Fine, ByKind
  <2>7. ASSUME NEW r \in R
        PROVE  \/ r.of[1] \in tx[t].answered
               \/ tx[t].kind = "forget" /\ r.of[2] = "grains"
    <3>1. r.of[1] \in tx[t].target /\ r.of[2] = Table(Source(t))
      BY <2>4 DEF Aimed, Source
    <3>2. CASE Source(t) = "forget"
      BY <2>6, <3>1, <3>2 DEF Table
    <3>3. CASE Source(t) = "delete"
      BY <1>0, <2>6, <3>1, <3>3 DEF Fine, Answers
    <3>. QED BY <1>0, <3>2, <3>3
  <2>. HIDE DEF R
  <2>8. Keys' /\ Aims'
    <3>. DEFINE new == {}
    <3>1. \A r \in new : Fresh(r) /\ \A s \in new : r.pk = s.pk => r = s
      OBVIOUS
    <3>2. \A r \in new, u \in Thread :
            u # t /\ pc[u] = "write" /\ r.pk \in tx[u].aim => r.of \in Aimed(tx[u])
      OBVIOUS
    <3>3. tx'[t].inserted = (tx[t].inserted \ R) \cup new
      BY <2>2
    <3>. HIDE DEF new
    <3>. QED BY <1>0, <2>2, <2>3, <2>4, <3>1, <3>2, <3>3, WriteKeys
  <2>9. ToldOf'
    BY <1>0, <2>2, <2>4, <2>6, <2>7, WriteTold
  <2>. QED BY <2>8, <2>9
<1>. QED BY <1>1, <1>2

LEMMA SaveScheduleHolds ==
  ASSUME TypeOK, Requested, Keys, Aims, ToldOf, NEW t \in Thread, Only(t), SaveSchedule(t)
  PROVE  Keys' /\ Aims' /\ ToldOf'
<1>0. /\ tx[t] \in Transaction /\ rows' = rows /\ pc[t] = "write" /\ Fine(tx[t], "write")
      /\ Source(t) = "enable" /\ Free(t, tx[t].aim)
  BY DEF TypeOK, SaveSchedule, Unchanged, Requested, Ready
<1>1. pc'[t] # "write"
  BY DEF SaveSchedule, Finish, Goto, TypeOK
<1>2. CASE Found(t) # {}
  <2>1. Kept(tx[t], tx'[t])
    BY <1>0, <1>2 DEF SaveSchedule, Kept, TypeOK, Transaction
  <2>. QED BY <1>0, <1>1, <2>1, QuietHolds DEF Quiet
<1>3. CASE Found(t) = {}
  <2>. DEFINE S == tx[t].target \X {"schedule"}
              new == [pk : tx[t].aim, of : S]
  <2>1. PICK m \in Minion : tx[t].target = {m}
    BY <1>0 DEF Fine, Answers
  <2>2. PICK p \in Pk : tx[t].aim = {p} /\ p \notin tx[t].deleted
    BY <1>0 DEF Aims
  <2>3. tx[t].sources = <<"enable">>
    BY <1>0, HeadOnly DEF Source, Fine, Phase, Transaction
  <2>4. tx[t].kind = "enable" /\ tx[t].target \subseteq tx[t].answered
    BY <1>0, <2>3 DEF Fine, ByKind, Answers
  <2>5. /\ tx'[t].inserted = (tx[t].inserted \ {}) \cup new
        /\ tx'[t].deleted = tx[t].deleted \cup PksOf({})
        /\ tx'[t].told = tx[t].told /\ tx'[t].answered = tx[t].answered
        /\ tx'[t].kind = tx[t].kind
    BY <1>0, <1>3 DEF SaveSchedule, TypeOK, Transaction, PksOf
  <2>6. \A r \in new : r.pk = p /\ r.of = <<m, "schedule">>
    BY <2>1, <2>2
  <2>7. \A r, s \in new : r = s
    BY <2>1, <2>2
  <2>8. /\ \A s \in rows \cup tx[t].inserted : s.pk # p
        /\ \A u \in Thread : p \notin tx[u].deleted /\ \A s \in tx[u].inserted : s.pk # p
    <3>1. \A s \in rows \cup tx[t].inserted : s.pk # p
      BY <1>3, <2>2 DEF Found, Visible
    <3>2. ASSUME NEW u \in Thread, u # t
          PROVE  p \notin tx[u].deleted /\ \A s \in tx[u].inserted : s.pk # p
      BY <1>0, <2>2, <3>2 DEF Free, Others, PksOf
    <3>. QED BY <2>2, <3>1, <3>2
  <2>9. \A r \in new : Fresh(r)
    BY <2>6, <2>8 DEF Fresh
  <2>10. ASSUME NEW r \in new, NEW u \in Thread, pc[u] = "write", r.pk \in tx[u].aim
         PROVE  r.of \in Aimed(tx[u])
    <3>1. tx[t].aim \cap tx[u].aim # {}
      BY <2>2, <2>6, <2>10
    <3>2. Aimed(tx[t]) = Aimed(tx[u])
      BY <1>0, <2>10, <3>1 DEF Aims
    <3>3. <<m, "schedule">> \in Aimed(tx[t])
      BY <1>0, <2>1 DEF Aimed, Source, Table
    <3>. QED BY <2>6, <3>2, <3>3
  <2>11. \A r \in new : Enabled(tx[t], r.of)
    BY <2>1, <2>4, <2>6 DEF Enabled
  <2>. HIDE DEF new, S
  <2>12. Keys' /\ Aims'
    <3>1. \A r \in new : Fresh(r) /\ \A s \in new : r.pk = s.pk => r = s
      BY <2>7, <2>9
    <3>2. \A r \in new, u \in Thread :
            u # t /\ pc[u] = "write" /\ r.pk \in tx[u].aim => r.of \in Aimed(tx[u])
      BY <2>10
    <3>. DEFINE R == {}
    <3>3. /\ R \subseteq rows \cup tx[t].inserted
          /\ tx'[t].inserted = (tx[t].inserted \ R) \cup new
          /\ tx'[t].deleted = tx[t].deleted \cup PksOf(R)
      BY <2>5
    <3>. HIDE DEF R
    <3>. QED BY <1>0, <1>1, <3>1, <3>2, <3>3, WriteKeys
  <2>13. ToldOf'
    BY <1>0, <2>5, <2>11, WriteTold
  <2>. QED BY <2>12, <2>13
<1>. QED BY <1>2, <1>3

-----------------------------------------------------------------------------
LEMMA CommitHolds ==
  ASSUME IInv, NEW t \in Thread, Only(t), Commit(t)
  PROVE  TypeOK' /\ Keys' /\ Aims' /\ ToldOf'
<1>. USE DEF IInv
<1>0. /\ tx[t] \in Transaction /\ settings \in Settings /\ pc' \in [Thread -> Steps]
      /\ tx' \in [Thread -> Transaction] /\ tx'[t] = Idle /\ pc'[t] = "idle"
      /\ UNCHANGED <<issued, begun>>
  BY IdleType DEF TypeOK, Commit, End, Goto, Steps
<1>1. CASE Holds(t)
  <2>1. rows' = Visible(t)
    BY <1>1 DEF Commit
  <2>2. settings' = [c \in Column |-> IF c \in tx[t].columns THEN tx[t].loaded[c]
                                                          ELSE settings[c]]
    BY <1>1 DEF Commit
  <2>3. tx[t].loaded \in Settings /\ tx[t].columns \in SUBSET Column
    BY <1>0 DEF Transaction
  <2>4. settings' \in Settings
    BY <1>0, <2>2, <2>3 DEF Settings, Column
  <2>5. Keys' /\ Aims' /\ \A r, s \in rows' : r.pk = s.pk => r = s
    BY <1>0, <2>1, CommitKeys
  <2>6. rows' \subseteq Row
    BY <2>1, VisibleRows
  <2>7. TypeOK'
    BY <1>0, <2>4, <2>5, <2>6 DEF TypeOK
  <2>. QED BY <1>0, <2>1, <2>5, <2>7, CommitTold
<1>2. CASE ~Holds(t)
  <2>1. rows' = rows /\ settings' = settings /\ End(t)
    BY <1>2 DEF Commit
  <2>2. TypeOK'
    BY <1>0, <2>1 DEF TypeOK
  <2>. QED BY <2>1, <2>2, EndQuiet, QuietHolds
<1>. QED BY <1>1, <1>2

LEMMA ThreadStep ==
  ASSUME IInv, NEW t \in Thread, Step(t) \/ \E k \in Kinds, m \in Minion : Begin(t, k, m)
  PROVE  IInv'
<1>. DEFINE Good == TypeOK' /\ Fine(tx'[t], pc'[t]) /\ Keys' /\ Aims' /\ ToldOf'
<1>0. TypeOK /\ Requested /\ Keys /\ Aims /\ ToldOf /\ Only(t) /\ HasSources
  BY StepOnly DEF IInv, HasSources, Requested, Fine, Phase
<1>. SUFFICES Good
  <2>1. ASSUME Good PROVE Requested'
    BY <1>0, <2>1 DEF Requested, Only
  <2>. QED BY <2>1 DEF IInv
<1>1. ASSUME NEW k \in Kinds, NEW m \in Minion, Begin(t, k, m) PROVE Good
  <2>1. TypeOK'
    BY <1>0, <1>1, BeginType
  <2>2. Fine(tx'[t], pc'[t])
    BY <1>0, <1>1, BeginFine
  <2>3. Quiet(t)
    BY <1>0, <1>1, BeginQuiet
  <2>4. Keys' /\ Aims' /\ ToldOf'
    BY <1>0, <2>3, QuietHolds
  <2>. QED BY <2>1, <2>2, <2>4
<1>2. CASE Load(t) \/ PatchSettings(t) \/ SaveUserSettings(t) \/ ManageToken(t)
  <2>1. TypeOK'
    BY <1>0, <1>2, SettingsTypes
  <2>2. Fine(tx'[t], pc'[t])
    BY <1>0, <1>2, SettingsFine
  <2>3. Quiet(t)
    BY <1>0, <1>2, SettingsQuiet
  <2>4. Keys' /\ Aims' /\ ToldOf'
    BY <1>0, <2>3, QuietHolds
  <2>. QED BY <2>1, <2>2, <2>4
<1>3. CASE ApiConnect(t)
  <2>1. TypeOK'
    BY <1>0, <1>3, ConnectType
  <2>2. Fine(tx'[t], pc'[t])
    BY <1>0, <1>3, ConnectFine
  <2>3. Quiet(t)
    BY <1>0, <1>3, ConnectQuiet
  <2>4. Keys' /\ Aims' /\ ToldOf'
    BY <1>0, <2>3, QuietHolds
  <2>. QED BY <2>1, <2>2, <2>4
<1>4. CASE AskInventory(t) \/ RefreshMinion(t) \/ RefreshSchedules(t) \/ RefreshBeacons(t)
  <2>1. TypeOK'
    BY <1>0, <1>4, AskTypes
  <2>2. Fine(tx'[t], pc'[t])
    BY <1>0, <1>4, AskFine
  <2>3. Quiet(t)
    BY <1>0, <1>4, AskQuiet
  <2>4. Keys' /\ Aims' /\ ToldOf'
    BY <1>0, <2>3, QuietHolds
  <2>. QED BY <2>1, <2>2, <2>4
<1>5. CASE ManageKey(t) \/ ManageSchedules(t) \/ ManageBeacons(t)
  <2>1. TypeOK'
    BY <1>0, <1>5, ManageTypes
  <2>2. Fine(tx'[t], pc'[t])
    BY <1>0, <1>5, ManageFine
  <2>3. Quiet(t)
    BY <1>0, <1>5, ManageQuiet
  <2>4. Keys' /\ Aims' /\ ToldOf'
    BY <1>0, <2>3, QuietHolds
  <2>. QED BY <2>1, <2>2, <2>4
<1>6. ASSUME NEW m \in Minion, Pick(t, m) PROVE Good
  <2>1. TypeOK'
    BY <1>0, <1>6, PickType
  <2>2. Fine(tx'[t], pc'[t])
    BY <1>0, <1>6, PickFine
  <2>3. Keys' /\ Aims' /\ ToldOf'
    BY <1>0, <1>6, PickHolds
  <2>. QED BY <2>1, <2>2, <2>3
<1>7. CASE Replace(t)
  <2>1. TypeOK'
    BY <1>0, <1>7, WriteTypes
  <2>2. Fine(tx'[t], pc'[t])
    BY <1>0, <1>7, WriteFine
  <2>3. Keys' /\ Aims' /\ ToldOf'
    BY <1>0, <1>7, ReplaceHolds
  <2>. QED BY <2>1, <2>2, <2>3
<1>8. CASE UpdateOrCreate(t)
  <2>1. TypeOK'
    BY <1>0, <1>8, WriteTypes
  <2>2. Fine(tx'[t], pc'[t])
    BY <1>0, <1>8, WriteFine
  <2>3. Keys' /\ Aims' /\ ToldOf'
    BY <1>0, <1>8, UpdateOrCreateHolds
  <2>. QED BY <2>1, <2>2, <2>3
<1>9. CASE DeleteSchedule(t) \/ DestroyMinion(t)
  <2>1. TypeOK'
    BY <1>0, <1>9, WriteTypes
  <2>2. Fine(tx'[t], pc'[t])
    BY <1>0, <1>9, WriteFine
  <2>3. Keys' /\ Aims' /\ ToldOf'
    BY <1>0, <1>9, DeleteHolds
  <2>. QED BY <2>1, <2>2, <2>3
<1>10. CASE GetSchedule(t)
  <2>1. TypeOK'
    BY <1>0, <1>10, WriteTypes
  <2>2. Fine(tx'[t], pc'[t])
    BY <1>0, <1>10, GetScheduleFine
  <2>3. Keys' /\ Aims' /\ ToldOf'
    BY <1>0, <1>10, GetScheduleHolds
  <2>. QED BY <2>1, <2>2, <2>3
<1>11. CASE SaveSchedule(t)
  <2>1. TypeOK'
    BY <1>0, <1>11, WriteTypes
  <2>2. Fine(tx'[t], pc'[t])
    BY <1>0, <1>11, WriteFine
  <2>3. Keys' /\ Aims' /\ ToldOf'
    BY <1>0, <1>11, SaveScheduleHolds
  <2>. QED BY <2>1, <2>2, <2>3
<1>12. CASE Audit(t)
  <2>1. TypeOK'
    BY <1>0, <1>12, AuditType
  <2>2. Fine(tx'[t], pc'[t])
    BY <1>0, <1>12, AuditFine
  <2>3. Quiet(t)
    BY <1>0, <1>12, AuditQuiet
  <2>4. Keys' /\ Aims' /\ ToldOf'
    BY <1>0, <2>3, QuietHolds
  <2>. QED BY <2>1, <2>2, <2>4
<1>13. CASE Fail(t)
  <2>1. End(t) /\ Unchanged /\ rows' = rows
    BY <1>13 DEF Fail, Unchanged
  <2>2. TypeOK'
    BY <1>0, <2>1, EndType
  <2>3. Fine(tx'[t], pc'[t])
    BY <1>0, <2>1, EndFine
  <2>4. Quiet(t)
    BY <1>0, <2>1, EndQuiet
  <2>5. Keys' /\ Aims' /\ ToldOf'
    BY <1>0, <2>4, QuietHolds
  <2>. QED BY <2>2, <2>3, <2>5
<1>14. CASE Commit(t)
  <2>1. End(t)
    BY <1>14 DEF Commit
  <2>2. TypeOK' /\ Keys' /\ Aims' /\ ToldOf'
    BY <1>0, <1>14, CommitHolds
  <2>3. Fine(tx'[t], pc'[t])
    BY <1>0, <2>1, EndFine
  <2>. QED BY <2>2, <2>3
<1>. QED BY <1>1, <1>2, <1>3, <1>4, <1>5, <1>6, <1>7, <1>8, <1>9, <1>10, <1>11, <1>12,
            <1>13, <1>14 DEF Step

LEMMA InitIInv == Init => IInv
<1>. SUFFICES ASSUME Init PROVE IInv
  OBVIOUS
<1>1. \A t \in Thread : tx[t] = Idle /\ pc[t] = "idle" /\ Blank(tx[t])
  BY DEF Init, Blank, Idle, NoRequest
<1>2. Requested
  BY <1>1, IdleFine DEF Requested
<1>3. Keys /\ Aims /\ ToldOf
  BY <1>1 DEF Keys, Aims, ToldOf, Blank
<1>4. settings \in Settings /\ issued \in 1..MaxToken /\ begun \in 0..MaxRequests
  BY RequestsAssumption DEF Init, Settings
<1>5. rows \subseteq Row /\ \A r, s \in rows : r.pk = s.pk => r = s
  BY RequestsAssumption DEF Init, Row, Pk, Pair
<1>6. pc \in [Thread -> Steps] /\ tx \in [Thread -> Transaction]
  BY IdleType DEF Init, Steps
<1>. QED BY <1>2, <1>3, <1>4, <1>5, <1>6 DEF IInv, TypeOK

LEMMA StepIInv == IInv /\ [Next]_vars => IInv'
<1>. SUFFICES ASSUME IInv, [Next]_vars PROVE IInv'
  OBVIOUS
<1>1. CASE Next
  BY <1>1, ThreadStep DEF Next
<1>2. CASE UNCHANGED vars
  BY <1>2 DEF vars, IInv, TypeOK, Requested, Keys, Aims, ToldOf, Source
<1>. QED BY <1>1, <1>2

LEMMA IInvHolds == Spec => []IInv
BY InitIInv, StepIInv, PTL DEF Spec

(* Settings, mirrors and requests are well typed, and a key names one row.   *)
THEOREM TypeCorrect == Spec => []TypeOK
BY IInvHolds, PTL DEF IInv

(* Only a commit writes the settings row or the mirrors.                     *)
LEMMA OnlyCommits ==
  ASSUME NEW t \in Thread, Step(t) \/ \E k \in Kinds, m \in Minion : Begin(t, k, m), ~Commit(t)
  PROVE  rows' = rows /\ settings' = settings
BY DEF Step, Begin, Unchanged, Load, PatchSettings, SaveUserSettings, ManageToken, ApiConnect,
   AskInventory, RefreshMinion, RefreshSchedules, RefreshBeacons, ManageKey, ManageSchedules,
   ManageBeacons, Pick, Replace, UpdateOrCreate, DeleteSchedule, DestroyMinion, GetSchedule,
   SaveSchedule, Audit, Fail

(* A user's Salt token changes only at the commit of a renewal or revocation *)
(* that has its audit entry, or of a save of the whole row that had read it: *)
(* no request that talks to Salt can, whatever it interleaves with           *)
(* (manage_token, api_connect, record, the post_save receiver).              *)
THEOREM TokenChangesCorrect == Spec => TokenChangesAreAsked
<1>. DEFINE Asks == settings'.token # settings.token =>
       \E t \in Thread :
         /\ Commits(t)
         /\ settings'.token = tx[t].loaded.token
         /\ tx[t].kind \in TokenKinds => tx[t].audited
         /\ tx[t].kind \in LocalKinds
<1>1. ASSUME IInv, [Next]_vars
      PROVE  [Asks]_vars
  <2>. SUFFICES ASSUME settings'.token # settings.token PROVE Asks
    OBVIOUS
  <2>1. PICK t \in Thread : Commit(t)
    BY <1>1, OnlyCommits DEF Next, vars
  <2>2. /\ pc[t] = "commit" /\ ~tx[t].broken /\ Fine(tx[t], "commit") /\ tx[t] \in Transaction
        /\ settings' = [c \in Column |-> IF c \in tx[t].columns THEN tx[t].loaded[c]
                                                              ELSE settings[c]]
    BY <1>1, <2>1 DEF Commit, Holds, IInv, Requested, TypeOK
  <2>3. "token" \in tx[t].columns /\ settings'.token = tx[t].loaded.token
    BY <2>2 DEF Column
  <2>4. pc'[t] = "idle"
    BY <1>1, <2>1 DEF Commit, End, Goto, IInv, TypeOK
  <2>5. tx[t].kind \in LocalKinds /\ (tx[t].kind \in TokenKinds => tx[t].audited)
    BY <2>2, <2>3 DEF Fine, ByKind
  <2>. QED BY <2>2, <2>3, <2>4, <2>5 DEF Commits
<1>2. Spec => [][Asks]_vars
  BY <1>1, IInvHolds, PTL DEF Spec
<1>. QED BY <1>2 DEF TokenChangesAreAsked

(* A row of a mirror appears or disappears only by the commit of a request   *)
(* whose answers said so, or of a DELETE: whatever the requests interleave   *)
(* with, and however many keys are deleted and given again meanwhile         *)
(* (refresh_*, manage_*, ATOMIC_REQUESTS).                                    *)
THEOREM MirrorsCorrect == Spec => MirrorsWhatAnswered
<1>. DEFINE Told ==
       \A p \in Pair : (p \in PairsOf(rows)) # (p \in PairsOf(rows')) =>
         \E t \in Thread :
           /\ Commits(t) /\ ~tx[t].broken
           /\ IF p \in PairsOf(rows')
              THEN \/ p \in tx[t].told
                   \/ p[1] \in tx[t].answered /\ p[2] = "schedule" /\ tx[t].kind = "enable"
              ELSE \/ p[1] \in tx[t].answered /\ p \notin tx[t].told
                   \/ tx[t].kind = "forget" /\ p[2] = "grains"
<1>1. ASSUME IInv, [Next]_vars
      PROVE  [Told]_vars
  <2>. SUFFICES ASSUME NEW p \in Pair, (p \in PairsOf(rows)) # (p \in PairsOf(rows'))
       PROVE  \E t \in Thread :
           /\ Commits(t) /\ ~tx[t].broken
           /\ IF p \in PairsOf(rows')
              THEN \/ p \in tx[t].told
                   \/ p[1] \in tx[t].answered /\ p[2] = "schedule" /\ tx[t].kind = "enable"
              ELSE \/ p[1] \in tx[t].answered /\ p \notin tx[t].told
                   \/ tx[t].kind = "forget" /\ p[2] = "grains"
    OBVIOUS
  <2>0. rows' # rows
    BY DEF PairsOf
  <2>1. PICK t \in Thread : Commit(t)
    BY <1>1, <2>0, OnlyCommits DEF Next, vars
  <2>2. pc[t] = "commit" /\ ~tx[t].broken /\ rows' = Visible(t)
    BY <2>0, <2>1 DEF Commit, Holds
  <2>3. Commits(t)
    BY <1>1, <2>1 DEF Commits, Commit, End, Goto, IInv, TypeOK
  <2>4. CASE p \in PairsOf(rows')
    <3>1. PICK r \in rows' : r.of = p
      BY <2>4 DEF PairsOf
    <3>2. r \in tx[t].inserted
      BY <2>2, <2>4, <3>1 DEF PairsOf, Visible
    <3>. QED BY <1>1, <2>2, <2>3, <2>4, <3>1, <3>2 DEF IInv, ToldOf, Enabled
  <2>5. CASE p \notin PairsOf(rows')
    <3>1. PICK r \in rows : r.of = p /\ r \notin rows'
      BY <2>5 DEF PairsOf
    <3>2. r.pk \in tx[t].deleted
      BY <2>2, <3>1 DEF Visible
    <3>3. \A s \in tx[t].inserted : s.of # p
      BY <2>2, <2>5 DEF PairsOf, Visible
    <3>4. \/ p[1] \in tx[t].answered /\ p \notin tx[t].told
          \/ tx[t].kind = "forget" /\ p[2] = "grains"
      BY <1>1, <3>1, <3>2, <3>3 DEF IInv, ToldOf
    <3>. QED BY <2>2, <2>3, <2>5, <3>4
  <2>. QED BY <2>4, <2>5
<1>2. Spec => [][Told]_vars
  BY <1>1, IInvHolds, PTL DEF Spec
<1>. QED BY <1>2 DEF MirrorsWhatAnswered
=============================================================================
