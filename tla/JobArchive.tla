----------------------------- MODULE JobArchive ------------------------------
(* The returner's own housekeeping (docker/saltconfig/salt/_returners):     *)
(* clean_old_jobs, which the master calls in its event loop, copies rows    *)
(* older than keep_jobs hours to the archive tables and then deletes them,  *)
(* in six statements that commit one by one while jobs are published,       *)
(* answered and read.  A jid is a timestamp, so jids order like numbers.    *)
EXTENDS Naturals, FiniteSets

CONSTANTS Jid,        \* job ids
          Minion,
          Event,
          Fun,        \* functions
          FunOf,      \* the function a job runs
          KeepJobs,   \* keep_jobs, in ticks of the clock
          MaxNow,     \* bound: the clock
          MaxReturns, \* bound: rows in salt_returns and its archive
          MaxFaults   \* bound: sweeps that are cut short

ASSUME ArchiveAssumption ==
  /\ Jid \subseteq Nat
  /\ FunOf \in [Jid -> Fun]
  /\ KeepJobs \in Nat \ {0}
  /\ MaxNow \in Nat
  /\ MaxReturns \in Nat
  /\ MaxFaults \in Nat

VARIABLES jids, returns, events,   \* the returner tables
          archive,                 \* the archive tables
          sweep,                   \* clean_old_jobs: its next statement and its stamp
          archiving,               \* archive_jobs in the master's configuration
          now, faults

vars == <<jids, returns, events, archive, sweep, archiving, now, faults>>

Return == [jid : Jid, minion : Minion, at : 0..MaxNow]
Record == [id : Event, at : 0..MaxNow]

Off == [next |-> "off", stamp |-> 0]

Init ==
  /\ jids = {} /\ returns = {} /\ events = {}
  /\ archive = [jids |-> {}, returns |-> {}, again |-> {}, events |-> {}]
  /\ sweep = Off
  /\ archiving \in BOOLEAN
  /\ now = 0 /\ faults = 0

-----------------------------------------------------------------------------
(* What the master writes and reads while it runs.                          *)

\* save_load: a jid that is already there is left alone.
Known == jids \cup archive.jids \cup {r.jid : r \in returns \cup archive.returns}

SaveLoad(j) ==
  /\ \A i \in Known : i < j
  /\ jids' = jids \cup {j}
  /\ UNCHANGED <<returns, events, archive, sweep, archiving, now, faults>>

\* returner: an answer is stored whether or not the load of its job is there,
\* and once more when the minion sends it again.  Two rows that are alike in all
\* that is kept here count as one.
Returner(j, m) ==
  /\ Cardinality(returns \cup archive.returns) < MaxReturns
  /\ returns' = returns \cup {[jid |-> j, minion |-> m, at |-> now]}
  /\ UNCHANGED <<jids, events, archive, sweep, archiving, now, faults>>

\* event_return: ids are never given twice.
EventReturn(e) ==
  /\ \A v \in events \cup archive.events : v.id # e
  /\ events' = events \cup {[id |-> e, at |-> now]}
  /\ UNCHANGED <<jids, returns, archive, sweep, archiving, now, faults>>

Tick ==
  /\ now < MaxNow
  /\ now' = now + 1
  /\ UNCHANGED <<jids, returns, events, archive, sweep, archiving, faults>>

\* get_fun joins the rows of the function with MAX(jid) grouped by function and
\* minion, on the jid alone, and makes a dict of them: of several rows of one
\* minion the last wins, and nothing says in which order they come.
Maximal(rows) == {r \in rows : \A s \in rows :
                    (FunOf[s.jid] = FunOf[r.jid] /\ s.minion = r.minion) => s.jid <= r.jid}

Joined(fun) ==
  {r \in returns : FunOf[r.jid] = fun /\ \E x \in Maximal(returns) : x.jid = r.jid}

GetFun(fun) ==
  {ret \in [{r.minion : r \in Joined(fun)} -> Joined(fun)] :
     \A m \in DOMAIN ret : ret[m].minion = m}

-----------------------------------------------------------------------------
(* clean_old_jobs: select the stamp, _archive_jobs, _purge_jobs.            *)

At(step) == sweep.next = step
Then(step) == sweep' = [sweep EXCEPT !.next = step]

Start ==
  /\ At("off")
  /\ now > KeepJobs
  /\ sweep' = [next |-> IF archiving THEN "copy_jids" ELSE "purge_jids",
               stamp |-> now - KeepJobs]
  /\ UNCHANGED <<jids, returns, events, archive, archiving, now, faults>>

OldReturns == {r \in returns : r.at < sweep.stamp}
OldEvents == {v \in events : v.at < sweep.stamp}
OldJids == {j \in jids : \E r \in OldReturns : r.jid = j}

\* A copy into a table with a unique key fails as a whole on a row that is
\* already there; SaltRunnerError ends the sweep.
Copied(table, rows, step) ==
  IF rows \cap archive[table] = {}
    THEN archive' = [archive EXCEPT ![table] = @ \cup rows] /\ Then(step)
    ELSE UNCHANGED archive /\ sweep' = Off

CopyJids ==
  /\ At("copy_jids")
  /\ Copied("jids", OldJids, "copy_returns")
  /\ UNCHANGED <<jids, returns, events, archiving, now, faults>>

\* salt_returns has no unique key, nor has its copy.
CopyReturns ==
  /\ At("copy_returns")
  /\ archive' = [archive EXCEPT !.returns = @ \cup OldReturns,
                                !.again = @ \cup (OldReturns \cap archive.returns)]
  /\ Then("copy_events")
  /\ UNCHANGED <<jids, returns, events, archiving, now, faults>>

CopyEvents ==
  /\ At("copy_events")
  /\ Copied("events", OldEvents, "purge_jids")
  /\ UNCHANGED <<jids, returns, events, archiving, now, faults>>

PurgeJids ==
  /\ At("purge_jids")
  /\ jids' = jids \ OldJids
  /\ Then("purge_returns")
  /\ UNCHANGED <<returns, events, archive, archiving, now, faults>>

\* Mutant: the stamp is computed anew for the purge.
BugLaterStamp ==
  /\ At("purge_returns")
  /\ returns' = {r \in returns : r.at >= now - KeepJobs}
  /\ Then("purge_events")
  /\ UNCHANGED <<jids, events, archive, archiving, now, faults>>

\* Mutant: the answers are found by their loads, which have just gone.
BugByLoad ==
  /\ At("purge_returns")
  /\ returns' = {r \in returns : r \in OldReturns => r.jid \notin jids}
  /\ Then("purge_events")
  /\ UNCHANGED <<jids, events, archive, archiving, now, faults>>

\* Mutant: the rows that go are those of the jobs, not the old ones.
BugWholeJobs ==
  /\ At("purge_returns")
  /\ returns' = {r \in returns : \A s \in OldReturns : s.jid # r.jid}
  /\ Then("purge_events")
  /\ UNCHANGED <<jids, events, archive, archiving, now, faults>>

PurgeReturns ==
  /\ At("purge_returns")
  /\ returns' = returns \ OldReturns
  /\ Then("purge_events")
  /\ UNCHANGED <<jids, events, archive, archiving, now, faults>>


PurgeEvents ==
  /\ At("purge_events")
  /\ events' = events \ OldEvents
  /\ sweep' = Off
  /\ UNCHANGED <<jids, returns, archive, archiving, now, faults>>

\* A statement fails, or the master stops, between two commits.
CutShort ==
  /\ ~At("off")
  /\ faults < MaxFaults
  /\ faults' = faults + 1
  /\ sweep' = Off
  /\ UNCHANGED <<jids, returns, events, archive, archiving, now>>

Sweep ==
  Start \/ CopyJids \/ CopyReturns \/ CopyEvents \/ PurgeJids \/ PurgeReturns \/ PurgeEvents

Next ==
  \/ \E j \in Jid : SaveLoad(j) \/ \E m \in Minion : Returner(j, m)
  \/ \E e \in Event : EventReturn(e)
  \/ Tick \/ Sweep \/ CutShort

Spec == Init /\ [][Next]_vars

\* The master calls clean_old_jobs every loop_interval, and a statement ends.
FairSpec == Spec /\ WF_vars(Sweep)

-----------------------------------------------------------------------------
\* The tables hold rows of their kinds and a sweep knows its stamp.
TypeOK ==
  /\ jids \subseteq Jid /\ returns \subseteq Return /\ events \subseteq Record
  /\ archive \in [jids : SUBSET Jid, returns : SUBSET Return, again : SUBSET Return,
                  events : SUBSET Record]
  /\ sweep \in [next : {"off", "copy_jids", "copy_returns", "copy_events", "purge_jids",
                        "purge_returns", "purge_events"}, stamp : 0..MaxNow]
  /\ archiving \in BOOLEAN
  /\ now \in 0..MaxNow /\ faults \in 0..MaxFaults

\* A return or an event leaves its table only when it is older than keep_jobs,
\* and a load only with a return of its job that is: a job still inside keep_jobs
\* may lose its load to one early answer, but no answer (_purge_jobs).  Where
\* archive_jobs is set the row is in the archive by then, whatever was written
\* between the copy and the purge and however often a sweep was cut short before
\* (_archive_jobs).
LeavesOldAndArchived ==
  [][/\ \A r \in returns \ returns' : r.at + KeepJobs < now
     /\ \A v \in events \ events' : v.at + KeepJobs < now
     /\ \A j \in jids \ jids' : \E r \in returns : r.jid = j /\ r.at + KeepJobs < now
     /\ archiving => /\ jids \ jids' \subseteq archive.jids
                     /\ returns \ returns' \subseteq archive.returns
                     /\ events \ events' \subseteq archive.events]_vars

\* No return is archived twice while every sweep has run to its end: a sweep
\* deletes exactly what it has copied.
ArchivedOnce == faults = 0 => archive.again = {}

\* "move the contents of jids, salt_returns, and salt_events that are more than
\* keep_jobs hours old to these tables" (alcali.py:57-63), for as long as no
\* sweep has been cut short.
Old(row) == row.at + KeepJobs < now
NothingOld == \A row \in returns \cup events : ~Old(row)

\* What the code does not keep, and no run checks.  The same promise without the
\* proviso: a sweep that is cut short once after its copy meets its own rows in
\* the archive ever after.
KeepJobsIsKept == []<>NothingOld

\* "Return a dict of the last function called for all minions" (get_fun): a job
\* that is the newest of one minion brings the older rows of another with it.
LastRunIsTold ==
  \A fun \in Fun : \A ret \in GetFun(fun) : \A r \in returns :
    FunOf[r.jid] = fun /\ r.minion \in DOMAIN ret => r.jid <= ret[r.minion].jid
=============================================================================
