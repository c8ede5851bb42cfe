------------------------------ MODULE KeyMirror -----------------------------
(***************************************************************************)
(* salt_keys, the web application's copy of the master's key list.         *)
(*                                                                         *)
(* Three writers share the table.  sync_keys() runs in front of the        *)
(* overview's requests, serialised and throttled per worker process;       *)
(* get_keys(refresh=True) is the Keys page's button, with neither; and the *)
(* master's returner empties and refills the table on every key or         *)
(* authentication event (event_return).  Each request is one database      *)
(* transaction at READ COMMITTED (ATOMIC_REQUESTS) that commits after      *)
(* sync_keys() has released its lock; on MySQL the returner's TRUNCATE     *)
(* commits by itself, on PostgreSQL it is part of the transaction.         *)
(* A definition named Bug... is a faulty variant of the one that follows   *)
(* it, for checking that the properties notice the fault.                  *)
(***************************************************************************)
EXTENDS Naturals, FiniteSets

CONSTANTS
  Minion,           \* minion ids
  Status,           \* buckets of key.list_all; "accepted" is one of them
  Process,          \* gunicorn workers
  Thread,           \* request threads
  Home,             \* Thread -> its worker
  Nobody,           \* the holder of a lock that is free
  Returner,         \* the master's event_return
  Kinds,            \* Thread -> what its requests do: "sync", "refresh", or both
  Returning,        \* whether event_return is configured on the master
  TruncateCommits,  \* MySQL: TRUNCATE is an implicit commit
  MaxPk             \* bound on the primary keys in use at a time

ASSUME KeyAssumption ==
  /\ "accepted" \in Status
  /\ Home \in [Thread -> Process]
  /\ Nobody \notin Thread
  /\ Returner \notin Thread
  /\ Kinds \in [Thread -> SUBSET {"sync", "refresh"}]
  /\ Returning \in BOOLEAN
  /\ TruncateCommits \in BOOLEAN
  /\ MaxPk \in Nat

Key == Minion \X Status
Pk == 1..MaxPk
Row == [pk : Pk, key : Key]

VARIABLES
  master,     \* the keys in the master's pki directory
  rows,       \* salt_keys, as committed
  schedules,  \* minions with rows in salt_schedule, as committed
  lock,       \* Process -> holder of _KEY_SYNC_LOCK
  fresh,      \* Process -> _key_sync["at"] is under KEY_SYNC_INTERVAL old
  pc,         \* Thread -> where its request is
  req,        \* Thread -> what the request has read and not yet committed
  er,         \* event_return: what it has read and not yet committed
  settled,    \* environment: no more key changes, events, refreshes, failures
  absent,     \* history: keys the master lacked at some time since the
              \* request (or event_return) began
  overtaken   \* history: writers since whose listing of the keys another
              \* writer has changed the committed rows

webVars == <<lock, fresh, pc, req>>
vars == <<master, rows, schedules, webVars, er, settled, absent, overtaken>>

Request == [kind : {"sync", "refresh"}, wanted : SUBSET Key, stale : SUBSET Pk,
            todo : SUBSET Key, ins : SUBSET Row, drop : SUBSET Minion]
NoRequest == [kind |-> "sync", wanted |-> {}, stale |-> {}, todo |-> {},
              ins |-> {}, drop |-> {}]
NoEvent == [busy |-> FALSE, todo |-> {}, ins |-> {}]

TypeOK ==
  /\ master \subseteq Key
  /\ rows \subseteq Row
  /\ schedules \subseteq Minion
  /\ lock \in [Process -> Thread \cup {Nobody}]
  /\ fresh \in [Process -> BOOLEAN]
  /\ pc \in [Thread -> {"idle", "list", "read", "delete", "create", "commit"}]
  /\ req \in [Thread -> Request]
  /\ er \in [busy : BOOLEAN, todo : SUBSET Key, ins : SUBSET Row]
  /\ settled \in BOOLEAN
  /\ absent \in [Thread \cup {Returner} -> SUBSET Key]
  /\ overtaken \subseteq Thread \cup {Returner}

KeysOf(R) == {r.key : r \in R}
PksOf(R) == {r.pk : r \in R}
AcceptedIn(K) == {m \in Minion : <<m, "accepted">> \in K}

(* A primary key nobody uses or still refers to.  Auto-increment never     *)
(* reuses one; here the bound makes them come back once forgotten.         *)
Unused == Pk \ (PksOf(rows) \cup PksOf(er.ins)
                \cup UNION {PksOf(req[t].ins) \cup req[t].stale : t \in Thread})

(* Transactions that have touched the table hold it against TRUNCATE, and  *)
(* on PostgreSQL TRUNCATE holds it against them.                           *)
Touching == {t \in Thread : pc[t] \in {"delete", "create", "commit"}}
TableOpen == TruncateCommits \/ ~er.busy

(* The key list each writer has seen and not yet committed; what MySQL's   *)
(* KeyError leaves of event_return's is committed by a later batch.        *)
Seen ==
  [a \in Thread \cup {Returner} |->
     CASE a = Returner /\ (er.busy \/ er.ins # {}) -> {er.todo \cup KeysOf(er.ins)}
       [] a \in Thread /\ pc[a] \in {"read", "delete", "create", "commit"} -> {req[a].wanted}
       [] OTHER -> {}]

Overtake(a) ==
  overtaken' = (overtaken \cup (IF rows' = rows THEN {}
                                ELSE {b \in Thread \cup {Returner} : Seen[b] # {}})) \ {a}

Init ==
  /\ master \in SUBSET Key
  /\ rows = {}
  /\ schedules = {}
  /\ lock = [p \in Process |-> Nobody]
  \* "at" starts at 0.0 and is compared with a clock that starts at boot
  /\ fresh \in [Process -> BOOLEAN]
  /\ pc = [t \in Thread |-> "idle"]
  /\ req = [t \in Thread |-> NoRequest]
  /\ er = NoEvent
  /\ settled = FALSE
  /\ absent = [a \in Thread \cup {Returner} |-> {}]
  /\ overtaken = {}

-----------------------------------------------------------------------------
(* The throttle: one sync at a time and one per interval in a process. *)
BugNoThrottle(p) == lock[p] = Nobody
Due(p) == lock[p] = Nobody /\ ~fresh[p]

(* sync_keys(): `with _KEY_SYNC_LOCK`, and not fresh; or the refresh       *)
(* button, which takes no lock.                                            *)
Start(t, kind) ==
  LET p == Home[t] IN
  /\ pc[t] = "idle"
  /\ kind \in Kinds[t]
  /\ kind = "refresh" => ~settled
  /\ kind = "sync" => Due(p)
  /\ lock' = IF kind = "sync" THEN [lock EXCEPT ![p] = t] ELSE lock
  /\ pc' = [pc EXCEPT ![t] = "list"]
  /\ req' = [req EXCEPT ![t].kind = kind]
  /\ absent' = [absent EXCEPT ![t] = Key \ master]
  /\ UNCHANGED <<master, rows, schedules, fresh, er, settled, overtaken>>

Unlock(t) == lock' = [p \in Process |-> IF lock[p] = t THEN Nobody ELSE lock[p]]

(* The request is over and its transaction with it. *)
End(t) ==
  /\ pc' = [pc EXCEPT ![t] = "idle"]
  /\ req' = [req EXCEPT ![t] = NoRequest]
  /\ absent' = [absent EXCEPT ![t] = {}]

(* Every bucket must be present: a partial answer is not a listing. *)
BugAnyAnswer(buckets) == TRUE
Complete(buckets) == buckets = Status

(* key.list_all answers with some of the buckets, or (none) not at all.    *)
(* sync_keys() gives up on a partial answer; a refresh fails on the bucket *)
(* it misses and is rolled back.                                           *)
List(t, buckets) ==
  /\ pc[t] = "list"
  /\ settled => Complete(buckets)
  /\ IF Complete(buckets)
     THEN /\ pc' = [pc EXCEPT ![t] = "read"]
          /\ req' = [req EXCEPT ![t].wanted = {k \in master : k[2] \in buckets}]
          /\ UNCHANGED <<lock, absent>>
     ELSE Unlock(t) /\ End(t)
  /\ overtaken' = overtaken \ {t}
  /\ UNCHANGED <<master, rows, schedules, fresh, er, settled>>

(* have: one row per pair, the last the query returns, in no stated order. *)
Have == {CHOOSE r \in rows : r.key = k : k \in KeysOf(rows)}

(* stale: the primary keys of the pairs the master no longer lists; a      *)
(* refresh deletes every row.                                              *)
BugOnlyAdds(t) == IF req[t].kind = "refresh" THEN PksOf(rows) ELSE {}

Stale(t) ==
  IF req[t].kind = "refresh" THEN PksOf(rows)
  ELSE PksOf({r \in Have : r.key \notin req[t].wanted})

(* The pairs to create: those without a row; in a refresh, all of them. *)
BugCreatesAll(t) == req[t].wanted

Missing(t) ==
  IF req[t].kind = "refresh" THEN req[t].wanted
  ELSE req[t].wanted \ KeysOf(Have)

(* One SELECT of the committed rows decides both. *)
Read(t) ==
  /\ pc[t] = "read"
  /\ TableOpen
  /\ pc' = [pc EXCEPT ![t] = "delete"]
  /\ req' = [req EXCEPT ![t].stale = Stale(t), ![t].todo = Missing(t)]
  /\ UNCHANGED <<master, rows, schedules, lock, fresh, er, absent, settled, overtaken>>

(* DELETE waits for a transaction that is deleting one of the same rows. *)
Delete(t) ==
  /\ pc[t] = "delete"
  /\ \A u \in Thread \ {t} :
       pc[u] \in {"create", "commit"} =>
         req[u].stale \cap req[t].stale \cap PksOf(rows) = {}
  /\ pc' = [pc EXCEPT ![t] = "create"]
  /\ UNCHANGED <<master, rows, schedules, lock, fresh, req, er, absent, settled,
                 overtaken>>

(* Keys.objects.create(), in a fixed order, with or without a fingerprint. *)
Create(t) ==
  LET key == CHOOSE k \in req[t].todo : TRUE IN
  /\ pc[t] = "create"
  /\ req[t].todo # {}
  /\ \E pk \in Unused :
       /\ \A other \in Unused : pk <= other
       /\ req' = [req EXCEPT ![t].todo = @ \ {key},
                             ![t].ins = @ \cup {[pk |-> pk, key |-> key]}]
  /\ UNCHANGED <<master, rows, schedules, lock, fresh, pc, er, absent, settled,
                 overtaken>>

(* Schedule.objects.exclude(minion__in=accepted) *)
BugOrphansByRows(t) == schedules \ AcceptedIn(KeysOf(rows))
Orphans(t) == schedules \ AcceptedIn(req[t].wanted)

(* Drop the schedules of minions with no accepted key (sync only), mark    *)
(* the keys as synced and leave the lock - before the commit.              *)
Finish(t) ==
  /\ pc[t] = "create"
  /\ req[t].todo = {}
  /\ req' = [req EXCEPT ![t].drop =
               IF req[t].kind = "sync" THEN Orphans(t) ELSE {}]
  /\ fresh' = [fresh EXCEPT ![Home[t]] = TRUE]
  /\ Unlock(t)
  /\ pc' = [pc EXCEPT ![t] = "commit"]
  /\ UNCHANGED <<master, rows, schedules, er, absent, settled, overtaken>>

Commit(t) ==
  /\ pc[t] = "commit"
  /\ rows' = {r \in rows : r.pk \notin req[t].stale} \cup req[t].ins
  /\ schedules' = schedules \ req[t].drop
  /\ End(t)
  /\ Overtake(t)
  /\ UNCHANGED <<master, lock, fresh, er, settled>>

(* An exception anywhere in the request: the transaction is rolled back;   *)
(* _key_sync keeps what Finish wrote.                                      *)
Fail(t) ==
  /\ ~settled
  /\ pc[t] \in {"read", "delete", "create", "commit"}
  /\ Unlock(t)
  /\ End(t)
  /\ overtaken' = overtaken \ {t}
  /\ UNCHANGED <<master, rows, schedules, fresh, er, settled>>

(* KEY_SYNC_INTERVAL passes; a request commits sooner than that after      *)
(* marking the keys as synced.                                             *)
AgeOut(p) ==
  /\ fresh[p]
  /\ \A t \in Thread : Home[t] = p => pc[t] # "commit"
  /\ fresh' = [fresh EXCEPT ![p] = FALSE]
  /\ UNCHANGED <<master, rows, schedules, lock, pc, req, er, absent, settled,
                 overtaken>>

(* A worker dies with its transactions and starts again. *)
Restart(p) ==
  /\ ~settled
  /\ \E t \in Thread : Home[t] = p /\ pc[t] # "idle"
  /\ lock' = [lock EXCEPT ![p] = Nobody]
  /\ \E f \in BOOLEAN : fresh' = [fresh EXCEPT ![p] = f]
  /\ pc' = [t \in Thread |-> IF Home[t] = p THEN "idle" ELSE pc[t]]
  /\ req' = [t \in Thread |-> IF Home[t] = p THEN NoRequest ELSE req[t]]
  /\ absent' = [a \in Thread \cup {Returner} |->
                  IF a \in Thread /\ Home[a] = p THEN {} ELSE absent[a]]
  /\ overtaken' = overtaken \ {t \in Thread : Home[t] = p}
  /\ UNCHANGED <<master, rows, schedules, er, settled>>

-----------------------------------------------------------------------------
(* event_return() meets a salt/key or salt/auth event: TRUNCATE, which on  *)
(* MySQL commits what is pending and the empty table, then list_keys().    *)
Truncate ==
  /\ ~settled
  /\ Returning
  /\ ~er.busy
  /\ Touching = {}
  /\ er' = [busy |-> TRUE, todo |-> master, ins |-> {}]
  /\ rows' = IF TruncateCommits THEN {} ELSE rows
  /\ absent' = [absent EXCEPT ![Returner] = Key \ master]
  /\ Overtake(Returner)
  /\ UNCHANGED <<master, schedules, webVars, settled>>

(* One key: its fingerprint, then INSERT. *)
Insert(key) ==
  /\ er.busy
  /\ key \in er.todo \cap master
  /\ \E pk \in Unused :
       /\ \A other \in Unused : pk <= other
       /\ er' = [er EXCEPT !.todo = @ \ {key},
                           !.ins = @ \cup {[pk |-> pk, key |-> key]}]
  /\ UNCHANGED <<master, rows, schedules, webVars, absent, settled, overtaken>>

(* The key has gone since it was listed: a KeyError, which no handler      *)
(* rolls back.  PostgreSQL's connection is closed; MySQL's goes back to    *)
(* the pool with the transaction open.                                     *)
Raise(key) ==
  /\ er.busy
  /\ key \in er.todo \ master
  /\ er' = [busy |-> FALSE, todo |-> {},
            ins |-> IF TruncateCommits THEN er.ins ELSE {}]
  /\ absent' = [absent EXCEPT ![Returner] = {}]
  /\ overtaken' = IF er'.ins = {} THEN overtaken \ {Returner} ELSE overtaken
  /\ UNCHANGED <<master, rows, schedules, webVars, settled>>

(* The end of a batch of events: this one, or a later one without key      *)
(* events that commits what was left open.                                 *)
CommitEvents ==
  /\ er.todo = {}
  /\ er.busy \/ er.ins # {}
  /\ rows' = IF TruncateCommits THEN rows \cup er.ins ELSE er.ins
  /\ er' = NoEvent
  /\ absent' = [absent EXCEPT ![Returner] = {}]
  /\ Overtake(Returner)
  /\ UNCHANGED <<master, schedules, webVars, settled>>

-----------------------------------------------------------------------------
Working(a) == IF a = Returner THEN er.busy ELSE pc[a] # "idle"

(* A key is accepted, rejected, deleted, or turns up, on the master. *)
ChangeKeys(keys) ==
  /\ ~settled
  /\ master' = keys
  /\ absent' = [a \in Thread \cup {Returner} |->
                  IF Working(a) THEN absent[a] \cup (master \ keys) ELSE {}]
  /\ UNCHANGED <<rows, schedules, webVars, er, settled, overtaken>>

(* A schedule refresh or change stores what an accepted minion answered. *)
StoreSchedule(m) ==
  /\ m \in AcceptedIn(master)
  /\ schedules' = schedules \cup {m}
  /\ UNCHANGED <<master, rows, webVars, er, absent, settled, overtaken>>

(* From some time on - it may be never - nothing changes on the master,    *)
(* nothing fails, no key events arrive and nobody presses refresh.         *)
Settle ==
  /\ ~settled
  /\ settled' = TRUE
  /\ UNCHANGED <<master, rows, schedules, webVars, er, absent, overtaken>>

Work(t) ==
  List(t, Status) \/ Read(t) \/ Delete(t) \/ Create(t) \/ Finish(t) \/ Commit(t)

Next ==
  \/ \E t \in Thread :
       \/ \E kind \in {"sync", "refresh"} : Start(t, kind)
       \/ \E buckets \in SUBSET Status : List(t, buckets)
       \/ Work(t) \/ Fail(t)
  \/ \E p \in Process : AgeOut(p) \/ Restart(p)
  \/ Truncate \/ CommitEvents \/ Settle
  \/ \E key \in Key : Insert(key) \/ Raise(key)
  \/ \E key \in Key : ChangeKeys(master \cup {key}) \/ ChangeKeys(master \ {key})
  \/ \E m \in Minion : StoreSchedule(m)

Spec == Init /\ [][Next]_vars

(* Requests and event batches that began go on, the throttle's interval    *)
(* passes, and the overview keeps asking each worker.                      *)
Serving ==
  /\ \A t \in Thread : WF_vars(Work(t)) /\ SF_vars(Start(t, "sync"))
  /\ \A p \in Process : WF_vars(AgeOut(p))
  /\ WF_vars(CommitEvents \/ \E key \in Key : Insert(key) \/ Raise(key))

FairSpec == Spec /\ Serving

-----------------------------------------------------------------------------
Ends(a) ==
  IF a = Returner THEN er.busy /\ ~er'.busy
  ELSE pc[a] = "commit" /\ pc'[a] = "idle"

(* However syncs, refreshes and event_return overlap, and whatever part of *)
(* the key list the master answers with, a key leaves salt_keys only when  *)
(* the writer that removes it worked while the master lacked the key       *)
(* (sync_keys: "A partial answer treated as complete would delete every    *)
(* key in the bucket it left out") - or, on MySQL, with all the others, by *)
(* the TRUNCATE that event_return begins with and that commits by itself.  *)
PresentKeysStay ==
  [][\/ \A k \in KeysOf(rows) \ KeysOf(rows') :
           \E a \in Thread \cup {Returner} : Ends(a) /\ k \in absent[a]
     \/ TruncateCommits /\ Truncate]_vars

Copy == INSTANCE KeyCopy WITH source <- master, table <- rows, seen <- Seen,
                              Writer <- Thread \cup {Returner},
                              MayWipe <- TruncateCommits

(* Whatever overlaps, a commit of a sync, a refresh or event_return drops  *)
(* no key that its writer has seen listed and adds none that it has not;   *)
(* and one that nobody has overtaken since it listed the keys makes the    *)
(* table have each of them, gives none a second row, and leaves fewer rows *)
(* of any other (sync_keys: "Bring salt_keys into line with the master's   *)
(* key list").                                                             *)
CopiesTheList == Copy!Spec

(* A minion loses its schedules only to a sync that worked while it had no *)
(* accepted key (sync_keys: "nothing can refresh them").                   *)
LiveSchedulesStay ==
  [][\A m \in schedules \ schedules' :
       \E t \in Thread : Ends(t) /\ <<m, "accepted">> \in absent[t]]_vars

(* Once the environment has settled, the overview's syncs bring salt_keys  *)
(* to the master's key list, whatever stale, duplicated or missing rows it *)
(* held, and drop the schedules of minions that are gone.                  *)
EventuallyMirrors ==
  <>settled => <>[](KeysOf(rows) = master /\ schedules \subseteq AcceptedIn(master))

(* "Bring salt_keys into line with the master's key list" (sync_keys): the *)
(* overview counts rows, so in line means one row for each key.            *)
OneRowPerKey == \A a, b \in rows : a.key = b.key => a = b
EventuallyCounts == <>settled => <>[](KeysOf(rows) = master /\ OneRowPerKey)
=============================================================================
