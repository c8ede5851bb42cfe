------------------------------ MODULE Requests -------------------------------
(* The requests that write Alcali's own tables: a user's settings row,      *)
(* which holds the Salt token, and the mirrors of what the minions report   *)
(* (inventory, schedules, beacons).  A request is one database transaction  *)
(* (ATOMIC_REQUESTS) at READ COMMITTED, around calls to the Salt API; what  *)
(* it writes is applied when it commits, and holds its rows until then.     *)
(* A definition named Bug... is a faulty variant of the one that follows    *)
(* it, for checking that the properties notice the fault.                   *)
EXTENDS Naturals, Sequences

CONSTANTS Thread,       \* request threads
          Minion,
          Kinds,        \* the requests that are made
          Mirrored,     \* what the mirrors may hold at first
          MaxToken,     \* bound: tokens generated
          MaxPk,        \* bound: primary keys in use at a time
          MaxRequests   \* bound: requests

\* bound: one row of each mirror for each minion
Item == {"grains", "schedule", "beacon"}

TokenKinds == {"renew", "revoke"}
LocalKinds == TokenKinds \cup {"settings", "user"}
InventoryKinds == {"fleet", "cached", "one"}
ManageKinds == {"enable", "delete", "beacon", "key"}
AuditedKinds == TokenKinds \cup ManageKinds \cup {"user", "forget"}
Kind == LocalKinds \cup InventoryKinds \cup ManageKinds
          \cup {"schedules", "beacons", "forget"}

ASSUME RequestsAssumption ==
  /\ Kinds \subseteq Kind
  /\ MaxToken \in Nat \ {0}
  /\ MaxPk \in Nat
  /\ MaxRequests \in Nat
  /\ Mirrored \subseteq SUBSET [pk : 1..MaxPk, of : Minion \X Item]
  /\ \A R \in Mirrored : \A r, s \in R : r.pk = s.pk => r = s

VARIABLES settings,  \* the row of user_settings, as committed
          issued,    \* tokens generated so far
          rows,      \* the mirrors, as committed
          pc,        \* Thread -> where its request is
          tx,        \* Thread -> what it has read, and written uncommitted
          begun      \* requests begun

vars == <<settings, issued, rows, pc, tx, begun>>

Revoked == 0
Column == {"token", "settings", "permissions"}
Settings == [token : 0..MaxToken, settings : {0, 1}, permissions : {0, 1}]
Pk == 1..MaxPk
Pair == Minion \X Item
Row == [pk : Pk, of : Pair]
Steps == {"idle", "load", "save", "connect", "ask", "pick", "get", "write", "audit",
          "commit"}

NoRequest(k) ==
  [kind |-> k, target |-> {}, loaded |-> [token |-> 0, settings |-> 0, permissions |-> 0],
   columns |-> {}, sources |-> <<>>, told |-> {}, answered |-> {}, todo |-> {},
   aim |-> {}, deleted |-> {}, held |-> {}, inserted |-> {}, again |-> FALSE,
   audited |-> FALSE, broken |-> FALSE]
Idle == NoRequest("settings")

Init ==
  /\ settings = [token |-> 1, settings |-> 0, permissions |-> 0]
  /\ issued = 1
  /\ rows \in Mirrored
  /\ pc = [t \in Thread |-> "idle"]
  /\ tx = [t \in Thread |-> Idle]
  /\ begun = 0

PksOf(R) == {r.pk : r \in R}
PairsOf(R) == {r.of : r \in R}
Others(t) == Thread \ {t}
Single(R) == \E r \in R : R = {r}

\* What a statement of t sees of the mirrors: the committed rows and its own.
Visible(t) == {r \in rows : r.pk \notin tx[t].deleted} \cup tx[t].inserted
RowsAbout(t, pairs) == {r \in Visible(t) : r.of \in pairs}

\* Rows nobody else has deleted, updated or inserted and not yet committed.
Free(t, pks) ==
  \A u \in Others(t) : pks \cap (tx[u].deleted \cup tx[u].held \cup PksOf(tx[u].inserted)) = {}

\* Primary keys that nobody uses or still refers to: the lowest is the next.
Unused ==
  Pk \ (PksOf(rows) \cup
        UNION {PksOf(tx[t].inserted) \cup tx[t].aim \cup tx[t].deleted : t \in Thread})
NextPk == {p \in Unused : \A q \in Unused : p <= q}

-----------------------------------------------------------------------------
(* The transaction.                                                         *)

Goto(t, step) == pc' = [pc EXCEPT ![t] = step]
Unchanged == UNCHANGED <<settings, issued, rows, begun>>

\* The step after the last write: most changes leave an audit entry.
Finish(t) == Goto(t, IF tx[t].kind \in AuditedKinds THEN "audit" ELSE "commit")

End(t) == /\ Goto(t, "idle")
          /\ tx' = [tx EXCEPT ![t] = Idle]

\* Mutant: a transaction that a failed statement has broken is committed.
BugCommitsBroken(t) == TRUE

\* Django rolls a request back whose transaction a failed statement has broken,
\* even if the exception was caught.
Holds(t) == ~tx[t].broken

\* save() wrote the values of the instance that was loaded.
Commit(t) ==
  /\ pc[t] = "commit"
  /\ IF Holds(t)
     THEN /\ settings' = [c \in Column |-> IF c \in tx[t].columns THEN tx[t].loaded[c]
                                                                  ELSE settings[c]]
          /\ rows' = Visible(t)
     ELSE UNCHANGED <<settings, rows>>
  /\ End(t)
  /\ UNCHANGED <<issued, begun>>

\* An exception, a lost connection or the victim of a deadlock: rolled back.
Fail(t) == pc[t] \notin {"idle", "commit"} /\ End(t) /\ Unchanged

\* record() swallows the failure of its INSERT.
Audit(t) ==
  /\ pc[t] = "audit"
  /\ \E ok \in BOOLEAN : tx' = [tx EXCEPT ![t].audited = ok, ![t].broken = ~ok]
  /\ Goto(t, "commit")
  /\ Unchanged

-----------------------------------------------------------------------------
(* The settings row.                                                        *)

RowFree(t) == \A u \in Others(t) : tx[u].columns = {}

\* What a refresh of the inventory asks, in turn, until some minion answers.
RefreshMinionsFleet == <<"fleet", "cache">>
RefreshMinionsCached == <<"cache", "fleet", "cache">>

SourcesOf(k) ==
  CASE k = "fleet" -> RefreshMinionsFleet
    [] k = "cached" -> RefreshMinionsCached
    [] OTHER -> <<k>>

Begin(t, k, m) ==
  /\ pc[t] = "idle" /\ begun < MaxRequests
  /\ begun' = begun + 1
  /\ Goto(t, IF k = "forget" THEN "pick" ELSE "load")
  /\ tx' = [tx EXCEPT ![t] = [NoRequest(k) EXCEPT
              !.target = IF k \in ManageKinds \cup {"one", "forget"} THEN {m} ELSE Minion,
              !.todo = IF k = "forget" THEN {m} ELSE {},
              !.sources = SourcesOf(k)]]
  /\ UNCHANGED <<settings, issued, rows>>

\* user.user_settings is read once in a request.
Load(t) ==
  /\ pc[t] = "load"
  /\ tx' = [tx EXCEPT ![t].loaded = settings]
  /\ Goto(t, IF tx[t].kind \in LocalKinds THEN "save" ELSE "connect")
  /\ Unchanged

\* PATCH of the settings: save() writes every column back; no audit entry.
PatchSettings(t) ==
  /\ pc[t] = "save" /\ tx[t].kind = "settings" /\ RowFree(t)
  /\ \E s \in {0, 1} :
       tx' = [tx EXCEPT ![t].columns = Column,
                       ![t].loaded = [@ EXCEPT !.settings = s]]
  /\ Finish(t)
  /\ Unchanged

\* Saving a User saves the settings row with it (post_save).
SaveUserSettings(t) ==
  /\ pc[t] = "save" /\ tx[t].kind = "user" /\ RowFree(t)
  /\ tx' = [tx EXCEPT ![t].columns = Column]
  /\ Finish(t)
  /\ Unchanged

ManageToken(t) ==
  /\ pc[t] = "save" /\ tx[t].kind \in TokenKinds /\ RowFree(t)
  /\ IF tx[t].kind = "revoke"
     THEN tx' = [tx EXCEPT ![t].columns = Column,
                           ![t].loaded = [@ EXCEPT !.token = Revoked]]
          /\ UNCHANGED issued
     ELSE /\ issued < MaxToken
          /\ issued' = issued + 1
          /\ tx' = [tx EXCEPT ![t].columns = Column,
                              ![t].loaded = [@ EXCEPT !.token = issued + 1]]
  /\ Finish(t)
  /\ UNCHANGED <<settings, rows, begun>>

\* Mutant: the permissions are saved with the rest of the row.
BugSavesTheRow(t, permissions) ==
  IF tx[t].loaded.permissions = permissions THEN tx[t].columns ELSE Column

\* save(update_fields=["salt_permissions"]), when they have changed.
ChangedColumns(t, permissions) ==
  IF tx[t].loaded.permissions = permissions THEN tx[t].columns
                                            ELSE tx[t].columns \cup {"permissions"}

\* A refresh of the inventory goes on to its next source, the others are over.
NextSource(t) ==
  IF Len(tx[t].sources) > 1
  THEN Goto(t, "connect") /\ tx' = [tx EXCEPT ![t].sources = Tail(@)]
  ELSE Goto(t, "commit") /\ UNCHANGED tx

\* A SaltApiError becomes an error answer, or "the cache named no minions".
SaltApiError(t) ==
  IF Head(tx[t].sources) = "cache" THEN NextSource(t)
                                   ELSE Goto(t, "commit") /\ UNCHANGED tx

\* api_connect(): a token, cached or bought, and the permissions it carries.
ApiConnect(t) ==
  /\ pc[t] = "connect"
  /\ \/ \E p \in {0, 1} :
          /\ tx[t].loaded.permissions = p \/ RowFree(t)
          /\ tx' = [tx EXCEPT ![t].columns = ChangedColumns(t, p),
                              ![t].loaded = [@ EXCEPT !.permissions = p]]
          /\ Goto(t, "ask")
     \/ SaltApiError(t)
  /\ Unchanged

-----------------------------------------------------------------------------
(* What the minions report.  The answer is any: minions change meanwhile.   *)

Table(source) ==
  CASE source \in {"fleet", "cache", "one", "forget"} -> "grains"
    [] source \in {"schedules", "enable", "delete"} -> "schedule"
    [] OTHER -> "beacon"

Asking(t, sources) == pc[t] = "ask" /\ Head(tx[t].sources) \in sources

\* The next minion, or the end; a nested refresh returns to its caller.
Continue(t) ==
  IF tx[t].todo # {} THEN Goto(t, "pick")
  ELSE IF tx[t].again THEN Goto(t, "get")
  ELSE Finish(t)

\* Nobody answered: a nested refresh reports an error, or nothing at all.
NoAnswer(t) ==
  \/ NextSource(t)
  \/ tx[t].kind \in ManageKinds /\ Continue(t) /\ UNCHANGED tx

\* The minions in A answered with the rows in T; the rest with nothing.
Heard(t, A, T) ==
  IF A = {} THEN NoAnswer(t)
  ELSE /\ tx' = [tx EXCEPT ![t].answered = A, ![t].told = T, ![t].todo = A]
       /\ Goto(t, "pick")

\* cache.grains, or a job whose answer is the minions' grains; then pillars.
\* A minion that answered with no grains is left out.
AskInventory(t) ==
  /\ Asking(t, {"fleet", "cache"})
  /\ \/ \E A \in SUBSET tx[t].target : Heard(t, A, A \X {"grains"})
     \/ SaltApiError(t)
  /\ Unchanged

RefreshMinion(t) ==
  /\ Asking(t, {"one"})
  /\ \/ Heard(t, tx[t].target, tx[t].target \X {"grains"})
     \/ SaltApiError(t)
  /\ Unchanged

\* Mutant: a minion reported as False is one without schedules.
BugFalseIsEmpty(t, A, T) ==
  /\ tx' = [tx EXCEPT ![t].answered = A, ![t].told = T, ![t].todo = tx[t].target]
  /\ Goto(t, "pick")

\* A minion that the master reports as False keeps its rows.
Mappings(t, A, T) == Heard(t, A, T)

RefreshSchedules(t) ==
  /\ Asking(t, {"schedules"})
  /\ \/ \E A \in SUBSET tx[t].target : \E S \in SUBSET A : Mappings(t, A, S \X {"schedule"})
     \/ SaltApiError(t)
  /\ Unchanged

RefreshBeacons(t) ==
  /\ Asking(t, {"beacons"})
  /\ \/ \E A \in SUBSET tx[t].target : \E S \in SUBSET A : Mappings(t, A, S \X {"beacon"})
     \/ SaltApiError(t)
  /\ Unchanged

\* manage_key: the request asks for a change and writes nothing but its entry.
ManageKey(t) ==
  /\ Asking(t, {"key"})
  /\ Finish(t) \/ Goto(t, "commit")
  /\ UNCHANGED tx /\ Unchanged

\* manage_schedules: no result or a false one changes nothing and is audited.
ManageSchedules(t) ==
  LET pairs == tx[t].target \X {"schedule"} IN
  /\ Asking(t, {"enable", "delete"})
  /\ \/ SaltApiError(t)
     \/ Finish(t) /\ UNCHANGED tx
     \/ /\ tx[t].kind = "delete"
        /\ tx' = [tx EXCEPT ![t].answered = @ \cup tx[t].target, ![t].todo = tx[t].target]
        /\ Goto(t, "pick")
     \/ /\ tx[t].kind = "enable"
        /\ tx' = [tx EXCEPT ![t].answered = tx[t].target, ![t].told = pairs]
        /\ Goto(t, "get")
  /\ Unchanged

\* manage_beacons: the minion's beacons are read again.
ManageBeacons(t) ==
  /\ Asking(t, {"beacon"})
  /\ \/ SaltApiError(t)
     \/ Finish(t) /\ UNCHANGED tx
     \/ /\ tx' = [tx EXCEPT ![t].sources = <<"beacons">>]
        /\ Goto(t, "connect")
  /\ Unchanged

-----------------------------------------------------------------------------
(* Writing the mirrors.  A statement picks its rows, and waits for those    *)
(* that another transaction has written: it then finds them as that left    *)
(* them, and does not see the rows that came in meanwhile.                  *)

Source(t) == Head(tx[t].sources)

Pick(t, m) ==
  /\ pc[t] = "pick" /\ m \in tx[t].todo
  /\ tx' = [tx EXCEPT ![t].todo = @ \ {m}, ![t].target = {m},
                      ![t].aim = PksOf(RowsAbout(t, {<<m, Table(Source(t))>>}))]
  /\ Goto(t, "write")
  /\ Unchanged

Found(t) == {r \in Visible(t) : r.pk \in tx[t].aim}
Ready(t, sources) == pc[t] = "write" /\ Source(t) \in sources /\ Free(t, tx[t].aim)

Delete(t, R) ==
  [tx[t] EXCEPT !.deleted = @ \cup PksOf(R), !.inserted = @ \ R, !.aim = {}]

\* Refreshing schedules or beacons: a minion's rows are replaced.
Replace(t) ==
  LET told == tx[t].told \cap (tx[t].target \X {Table(Source(t))}) IN
  /\ Ready(t, {"schedules", "beacons"})
  /\ told # {} => NextPk # {}
  /\ tx' = [tx EXCEPT ![t] = [Delete(t, Found(t)) EXCEPT
              !.inserted = @ \cup [pk : NextPk, of : told]]]
  /\ Continue(t)
  /\ Unchanged

\* update_or_create() on the inventory, which has no unique minion_id.
UpdateOrCreate(t) ==
  LET pairs == tx[t].target \X {"grains"} IN
  /\ Ready(t, {"fleet", "cache", "one"})
  /\ \/ /\ Found(t) = {} /\ NextPk # {}
        /\ tx' = [tx EXCEPT ![t].inserted = @ \cup [pk : NextPk, of : pairs], ![t].aim = {}]
        /\ Continue(t)
     \/ /\ Single(Found(t))
        /\ tx' = [tx EXCEPT ![t].held = @ \cup tx[t].aim, ![t].aim = {}]
        /\ Continue(t)
     \/ Found(t) # {} /\ ~Single(Found(t)) /\ End(t)      \* MultipleObjectsReturned
  /\ Unchanged

\* The rows of a schedule that the minion has deleted.
DeleteSchedule(t) ==
  /\ Ready(t, {"delete"})
  /\ tx' = [tx EXCEPT ![t] = Delete(t, Found(t))]
  /\ Finish(t)
  /\ Unchanged

\* DELETE of a minion: 404, one row, or MultipleObjectsReturned.
DestroyMinion(t) ==
  /\ Ready(t, {"forget"})
  /\ IF Single(Found(t))
     THEN tx' = [tx EXCEPT ![t] = Delete(t, Found(t))] /\ Finish(t)
     ELSE End(t)
  /\ Unchanged

\* The schedule to enable: if it has no row, the schedules are refreshed once.
GetSchedule(t) ==
  LET R == RowsAbout(t, tx[t].target \X {"schedule"}) IN
  /\ pc[t] = "get"
  /\ \/ /\ R = {} /\ ~tx[t].again
        /\ tx' = [tx EXCEPT ![t].sources = <<"schedules">>, ![t].again = TRUE]
        /\ Goto(t, "connect")
     \/ R = {} /\ tx[t].again /\ Goto(t, "commit") /\ UNCHANGED tx
     \/ /\ Single(R)
        /\ tx' = [tx EXCEPT ![t].sources = <<"enable">>, ![t].aim = PksOf(R)]
        /\ Goto(t, "write")
     \/ R # {} /\ ~Single(R) /\ End(t)
  /\ Unchanged

\* save(): an UPDATE, and an INSERT with the same key if it hits no row.
SaveSchedule(t) ==
  LET pairs == tx[t].target \X {"schedule"} IN
  /\ Ready(t, {"enable"})
  /\ tx' = IF Found(t) # {} THEN [tx EXCEPT ![t].held = @ \cup tx[t].aim, ![t].aim = {}]
           ELSE [tx EXCEPT ![t].inserted = @ \cup [pk : tx[t].aim, of : pairs],
                           ![t].aim = {}]
  /\ Finish(t)
  /\ Unchanged

-----------------------------------------------------------------------------
Step(t) ==
  \/ Load(t) \/ PatchSettings(t) \/ SaveUserSettings(t) \/ ManageToken(t)
  \/ ApiConnect(t) \/ AskInventory(t) \/ RefreshMinion(t) \/ RefreshSchedules(t)
  \/ RefreshBeacons(t) \/ ManageKey(t) \/ ManageSchedules(t) \/ ManageBeacons(t)
  \/ \E m \in Minion : Pick(t, m)
  \/ Replace(t) \/ UpdateOrCreate(t) \/ DeleteSchedule(t) \/ DestroyMinion(t)
  \/ GetSchedule(t) \/ SaveSchedule(t)
  \/ Audit(t) \/ Commit(t) \/ Fail(t)

Next == \E t \in Thread : Step(t) \/ \E k \in Kinds, m \in Minion : Begin(t, k, m)

Spec == Init /\ [][Next]_vars

-----------------------------------------------------------------------------
Queue == {<<>>, <<"cache">>, RefreshMinionsFleet, RefreshMinionsCached}
           \cup {<<k>> : k \in Kind}

Transaction ==
  [kind : Kind, target : SUBSET Minion, loaded : Settings, columns : SUBSET Column,
   sources : Queue, told : SUBSET Pair, answered : SUBSET Minion, todo : SUBSET Minion, aim : SUBSET Pk,
   deleted : SUBSET Pk, held : SUBSET Pk, inserted : SUBSET Row, again : BOOLEAN,
   audited : BOOLEAN, broken : BOOLEAN]

\* No two committed rows have the same key, whatever was inserted again.
TypeOK ==
  /\ settings \in Settings /\ issued \in 1..MaxToken
  /\ rows \subseteq Row /\ \A r, s \in rows : r.pk = s.pk => r = s
  /\ pc \in [Thread -> Steps]
  /\ tx \in [Thread -> Transaction]
  /\ begun \in 0..MaxRequests

\* Thread t commits in this step.
Commits(t) == pc[t] = "commit" /\ pc'[t] = "idle"

\* The Salt token of a user changes by a renewal or a revocation, together with
\* the audit entry that says so (manage_token, record), or back to a token that
\* a whole-row save has read before (PATCH, post_save): a request that talks to
\* Salt, and saves the permissions on its way, never touches it (api_connect).
TokenChangesAreAsked ==
  [][settings'.token # settings.token =>
       \E t \in Thread :
         /\ Commits(t)
         /\ settings'.token = tx[t].loaded.token
         /\ tx[t].kind \in TokenKinds => tx[t].audited
         /\ tx[t].kind \in LocalKinds]_vars

\* A minion's schedule, beacon or grains appear in Alcali only by a request
\* that the minion told of them or for which it enabled the schedule, and
\* disappear only by one that it told without them or by an administrator's
\* DELETE - never because the minion did not answer, nor by a request that failed
\* or whose audit entry did (refresh_*, manage_*).
MirrorsWhatAnswered ==
  [][\A p \in Pair : (p \in PairsOf(rows)) # (p \in PairsOf(rows')) =>
       \E t \in Thread :
         /\ Commits(t) /\ ~tx[t].broken
         /\ IF p \in PairsOf(rows')
            THEN \/ p \in tx[t].told
                 \/ p[1] \in tx[t].answered /\ p[2] = "schedule" /\ tx[t].kind = "enable"
            ELSE \/ p[1] \in tx[t].answered /\ p \notin tx[t].told
                 \/ tx[t].kind = "forget" /\ p[2] = "grains"]_vars

\* "only the token endpoints may change it. A settings PATCH carries the
\* preferences blob and nothing else" (serializers.py:106-108).
OnlyTokenEndpoints ==
  [][settings'.token # settings.token =>
       \E t \in Thread : Commits(t) /\ tx[t].kind \in TokenKinds]_vars
=============================================================================
