----------------------------- MODULE JobHistory -----------------------------
(***************************************************************************)
(* The returner tables: jids (what was published) and salt_returns (what   *)
(* came back), which the master's returner fills, the prune command and    *)
(* view trim, and kill_job() reads to aim a stop.                          *)
(*                                                                         *)
(* The command commits each slice and batch by itself; the view does the   *)
(* same work in the one transaction of its request (ATOMIC_REQUESTS).      *)
(* Days are natural numbers.  find_job answers are jobs of their own; the  *)
(* default manager of SaltReturns does not see them.                       *)
(* A definition named Bug... is a faulty variant of the one that follows   *)
(* it, for checking that the properties notice the fault.                  *)
(***************************************************************************)
EXTENDS FiniteSetsExt

CONSTANTS
  Minion,   \* minion ids
  MaxJid,   \* bound on the jobs ever published
  MaxDay,   \* bound on the days that pass
  Window,   \* --days: the retention window, at least one day
  Batch     \* BATCH: how many jids are deleted at a time

ASSUME HistoryAssumption ==
  /\ MaxJid \in Nat
  /\ MaxDay \in Nat
  /\ Window \in Nat \ {0}
  /\ Batch \in Nat \ {0}

Jid == 1..MaxJid
Day == 0..MaxDay
Return == [jid : Jid, minion : Minion, day : Day, find : BOOLEAN]

VARIABLES
  today,    \* the date
  nextJid,  \* the id the next job gets
  target,   \* Jid -> the minions the job was published to
  running,  \* Jid -> the minions still working on it
  find,     \* jobs that are saltutil.find_job
  jids,     \* jids rows, as committed
  returns,  \* salt_returns rows, as committed
  pc,       \* where the prune is
  prune,    \* what the prune has read, and (view) deleted but not committed
  asked,    \* history: Jid -> minions that were told to stop it
  late      \* history: jobs that answered after a prune had picked, or
            \* deleted, their jids row

jobVars == <<nextJid, target, running, find, asked, late>>
vars == <<today, jobVars, jids, returns, pc, prune>>

Prune == [view : BOOLEAN, before : Nat, cutoff : Nat, keys : SUBSET Jid,
          rows : SUBSET Return, loads : SUBSET Jid]
NoPrune == [view |-> FALSE, before |-> 0, cutoff |-> 0, keys |-> {},
            rows |-> {}, loads |-> {}]

TypeOK ==
  /\ today \in Day
  /\ nextJid \in 1..(MaxJid + 1)
  /\ target \in [Jid -> SUBSET Minion]
  /\ running \in [Jid -> SUBSET Minion]
  /\ find \subseteq Jid
  /\ jids \subseteq Jid
  /\ returns \subseteq Return
  /\ pc \in {"idle", "slice", "select", "delete"}
  /\ prune \in Prune
  /\ asked \in [Jid -> SUBSET Minion]
  /\ late \subseteq Jid

Init ==
  /\ today = 0
  /\ nextJid = 1
  /\ target = [j \in Jid |-> {}]
  /\ running = [j \in Jid |-> {}]
  /\ find = {}
  /\ jids = {}
  /\ returns = {}
  /\ pc = "idle"
  /\ prune = NoPrune
  /\ asked = [j \in Jid |-> {}]
  /\ late = {}

-----------------------------------------------------------------------------
(* The master publishes a job: save_load() inserts its jids row. *)
Publish(tgt, isFind) ==
  /\ nextJid \in Jid
  /\ nextJid' = nextJid + 1
  /\ target' = [target EXCEPT ![nextJid] = tgt]
  /\ running' = [running EXCEPT ![nextJid] = tgt]
  /\ find' = IF isFind THEN find \cup {nextJid} ELSE find
  /\ jids' = jids \cup {nextJid}
  /\ UNCHANGED <<today, returns, pc, prune, asked, late>>

(* A minion answers: returner() inserts a row, and touches nothing else. *)
Answer(j, m) ==
  /\ m \in running[j]
  /\ running' = [running EXCEPT ![j] = @ \ {m}]
  /\ returns' = returns \cup
       {[jid |-> j, minion |-> m, day |-> today, find |-> j \in find]}
  /\ late' = IF j \in jids \ (prune.keys \cup prune.loads) THEN late
             ELSE late \cup {j}
  /\ UNCHANGED <<today, nextJid, target, find, jids, pc, prune, asked>>

(* kill_job(): at the target the jids row names, or "*" without one.       *)
BugStopTarget(j) == IF j \in jids THEN target[j] ELSE {"*"}
StopTarget(j) == IF j \in jids THEN target[j] ELSE Minion

Stop(j) ==
  /\ running[j] # {}
  /\ running' = [running EXCEPT ![j] = @ \ StopTarget(j)]
  /\ asked' = [asked EXCEPT ![j] = @ \cup StopTarget(j)]
  /\ UNCHANGED <<today, nextJid, target, find, jids, returns, pc, prune, late>>

-----------------------------------------------------------------------------
(* What SaltReturns.objects and the prune's own transaction see. *)
Seen == {r \in returns : ~r.find} \ prune.rows
SeenLoads == jids \ prune.loads

Begin(view) ==
  /\ pc = "idle"
  /\ today >= Window
  /\ prune' = [NoPrune EXCEPT !.view = view, !.before = today - Window,
                 !.cutoff = IF Seen = {} THEN today - Window
                            ELSE Min({r.day : r \in Seen})]
  /\ pc' = "slice"
  /\ UNCHANGED <<today, jobVars, jids, returns>>

(* _delete_by_time(): the rows before a cutoff that moves by one day.      *)
BugByMinion(cutoff) ==
  {r \in Seen : \E old \in Seen : old.minion = r.minion /\ old.day < cutoff}
Doomed(cutoff) == {r \in Seen : r.day < cutoff}

(* The command commits what it deletes; the view keeps it until the end.   *)
DeleteRows(rows, loads, next) ==
  IF prune.view
  THEN /\ prune' = [next EXCEPT !.rows = @ \cup rows, !.loads = @ \cup loads]
       /\ UNCHANGED <<returns, jids>>
  ELSE /\ prune' = next
       /\ returns' = returns \ rows
       /\ jids' = jids \ loads

BugLastSlice == prune.cutoff + 1 < prune.before
MoreSlices == prune.cutoff < prune.before

Slice ==
  LET next == Min({prune.cutoff + 1, prune.before}) IN
  /\ pc = "slice"
  /\ MoreSlices
  /\ DeleteRows(Doomed(next), {}, [prune EXCEPT !.cutoff = next])
  /\ UNCHANGED <<today, jobVars, pc>>

SlicesDone ==
  /\ pc = "slice"
  /\ ~MoreSlices
  /\ pc' = "select"
  /\ UNCHANGED <<today, jobVars, jids, returns, prune>>

(* A jids row is kept while a return inside the window refers to it. *)
BugKeptJids == {r.jid : r \in {q \in Seen : q.day > prune.before}}
KeptJids == {r.jid : r \in {q \in Seen : q.day >= prune.before}}

(* _delete_by_pk(): the keys of one batch of stale jids, ...               *)
Select ==
  LET stale == SeenLoads \ KeptJids IN
  /\ pc = "select"
  /\ stale # {}
  /\ \E keys \in SUBSET stale :
       /\ Cardinality(keys) = Min({Batch, Cardinality(stale)})
       /\ prune' = [prune EXCEPT !.keys = keys]
  /\ pc' = "delete"
  /\ UNCHANGED <<today, jobVars, jids, returns>>

(* ... and, a statement later, their deletion.                             *)
DeleteKeys ==
  /\ pc = "delete"
  /\ DeleteRows({}, prune.keys, [prune EXCEPT !.keys = {}])
  /\ pc' = "select"
  /\ UNCHANGED <<today, jobVars>>

(* Nothing stale is left; the view's request commits. *)
End ==
  /\ pc = "select"
  /\ SeenLoads \subseteq KeptJids
  /\ returns' = returns \ prune.rows
  /\ jids' = jids \ prune.loads
  /\ prune' = NoPrune
  /\ pc' = "idle"
  /\ UNCHANGED <<today, jobVars>>

(* The command is killed, or the view's request fails and is rolled back. *)
Crash ==
  /\ pc # "idle"
  /\ prune' = NoPrune
  /\ pc' = "idle"
  /\ UNCHANGED <<today, jobVars, jids, returns>>

NextDay ==
  /\ today < MaxDay
  /\ today' = today + 1
  /\ UNCHANGED <<jobVars, jids, returns, pc, prune>>

Next ==
  \/ \E tgt \in SUBSET Minion \ {{}}, isFind \in BOOLEAN : Publish(tgt, isFind)
  \/ \E j \in Jid : Stop(j) \/ \E m \in Minion : Answer(j, m)
  \/ \E view \in BOOLEAN : Begin(view)
  \/ Slice \/ SlicesDone \/ Select \/ DeleteKeys \/ End \/ Crash
  \/ NextDay

Spec == Init /\ [][Next]_vars

-----------------------------------------------------------------------------
(* A prune deletes no return inside the window (prune_returns: "must       *)
(* delete on the time predicate and never by pk, which would take every    *)
(* row for those minions"), however many days it takes.                    *)
RecentReturnsStay ==
  [][\A r \in returns \ returns' : r.day + Window < today]_vars

(* Once the slices are done, every ordinary return older than the window   *)
(* has gone, those that landed meanwhile included (_delete_by_time).       *)
OldReturnsGone ==
  pc \in {"select", "delete"} => \A r \in Seen : r.day >= prune.before

(* The prune drops orphaned jids only                                      *)
(* (test_prune_drops_orphaned_jids_only): a return has its jids row,       *)
(* unless it landed after a prune had picked the row as orphaned.          *)
LoadsFollowReturns ==
  \A r \in returns : ~r.find => r.jid \in jids \cup late

(* "A stop should not be a broadcast to machines that were never running   *)
(* it" (kill_job): only targets of a job are ever told to stop it.         *)
StopStaysAimed == \A j \in Jid : asked[j] \subseteq target[j]
=============================================================================
