-------------------------- MODULE ConformityCache ---------------------------
(***************************************************************************)
(* The stored highstate verdict of each minion (api/models.py).            *)
(*                                                                         *)
(* salt_returns is filled by the master's returner: a state run is         *)
(* published under a job id, lands when the minion answers, in any order,  *)
(* and leaves when retention prunes it by landing time.  Readers - request *)
(* threads and the notify command - go through conformity_entry_for():     *)
(* list the newest run ids, read the stored entry, and, when it was made   *)
(* against another newest run, pull the runs one row at a time until one   *)
(* is a real highstate, then store what it says.  Readers interleave.      *)
(* A definition named Bug... is a faulty variant of the one that follows   *)
(* it, for checking that the properties notice the fault.                  *)
(***************************************************************************)
EXTENDS FiniteSetsExt

CONSTANTS
  Minion,    \* minion ids
  Reader,    \* threads that ask for a verdict
  NoEntry,   \* a minion with no row in alcali_conformity_cache
  MaxJid,    \* bound on the job ids ever published
  Depth      \* HIGHSTATE_SEARCH_DEPTH

ASSUME ConformityAssumption ==
  /\ Minion # {}
  /\ MaxJid \in Nat
  /\ Depth \in Nat \ {0}
  /\ NoEntry \notin [source : Nat, verdict : STRING, from : Nat]

Jid == 1..MaxJid

(* What a return says: a passed or failed real highstate, a real highstate *)
(* that came to an error text instead of states, or a run that             *)
(* is_real_highstate() turns down - targeted at some states, or test=True. *)
Kind == {"pass", "fail", "text", "other"}
Real == {"pass", "fail", "text"}
Absent == [kind |-> "absent", at |-> 0]

Verdict == {"conform", "conflict", "unknown"}
Entry == [source : 0..MaxJid, verdict : Verdict, from : 0..MaxJid]

VARIABLES
  nextJid,    \* the job id the next state run gets (ids grow with time)
  published,  \* Minion -> job ids sent out and not answered yet
  runs,       \* Minion -> Jid -> the return, with its place in landing order
  landings,   \* Minion -> how many returns have landed
  cache,      \* Minion -> ConformityCache row
  pc,         \* Reader -> where it is
  job,        \* Reader -> what it has read so far
  disturbed   \* history: since the newest run landed, an older one landed
              \* or a run was pruned

masterVars == <<nextJid, published, runs, landings, disturbed>>
vars == <<masterVars, cache, pc, job>>

Job == [minion : Minion, newest : 0..MaxJid, left : SUBSET Jid,
        verdict : Verdict, from : 0..MaxJid]

TypeOK ==
  /\ nextJid \in 1..(MaxJid + 1)
  /\ published \in [Minion -> SUBSET Jid]
  /\ runs \in [Minion -> [Jid -> [kind : Kind, at : Nat] \cup {Absent}]]
  /\ landings \in [Minion -> Nat]
  /\ cache \in [Minion -> Entry \cup {NoEntry}]
  /\ pc \in [Reader -> {"idle", "entry", "scan", "store"}]
  /\ job \in [Reader -> Job]
  /\ disturbed \in [Minion -> BOOLEAN]

(* The run ids of one minion's returns. *)
Landed(rows) == {j \in Jid : rows[j] # Absent}

(* jids[0] if jids else "" *)
Newest(S) == IF S = {} THEN 0 ELSE Max(S)

(* state_run_jids(): the newest Depth run ids. *)
Window(S) == {j \in S : Cardinality({i \in S : i > j}) < Depth}

(* verdict_for(): a text has no states to go through, and the attempt      *)
(* raises AttributeError.                                                  *)
BugRawState(kind) == kind

VerdictOf(kind) ==
  CASE kind = "pass" -> "conform"
    [] kind = "text" -> "raises"
    [] OTHER -> "conflict"

(* compute_last_highstate() and verdict_for(): what the newest real        *)
(* highstate among the runs in S says, and which run that is.              *)

Judge(rows, S) ==
  LET real == {j \in S : rows[j].kind \in Real} IN
  IF real = {} THEN [verdict |-> "unknown", from |-> 0]
  ELSE [verdict |-> VerdictOf(rows[Max(real)].kind), from |-> Max(real)]

(* What a computation from scratch would store for these returns. *)
CurrentVerdict(rows) == Judge(rows, Window(Landed(rows)))

NoJob == [minion |-> CHOOSE m \in Minion : TRUE, newest |-> 0, left |-> {},
          verdict |-> "unknown", from |-> 0]

Init ==
  /\ nextJid = 1
  /\ published = [m \in Minion |-> {}]
  /\ runs = [m \in Minion |-> [j \in Jid |-> Absent]]
  /\ landings = [m \in Minion |-> 0]
  /\ cache = [m \in Minion |-> NoEntry]
  /\ pc = [r \in Reader |-> "idle"]
  /\ job = [r \in Reader |-> NoJob]
  /\ disturbed = [m \in Minion |-> FALSE]

-----------------------------------------------------------------------------
(* The master publishes a state run to one minion. *)
Publish(m) ==
  /\ nextJid \in Jid
  /\ nextJid' = nextJid + 1
  /\ published' = [published EXCEPT ![m] = @ \cup {nextJid}]
  /\ UNCHANGED <<runs, landings, disturbed, cache, pc, job>>

(* The minion's answer reaches the returner, which inserts the row.  A     *)
(* highstate takes minutes and a later, targeted run can overtake it.      *)
Land(m, j, kind) ==
  /\ j \in published[m]
  /\ published' = [published EXCEPT ![m] = @ \ {j}]
  /\ landings' = [landings EXCEPT ![m] = @ + 1]
  /\ runs' = [runs EXCEPT ![m][j] = [kind |-> kind, at |-> landings[m] + 1]]
  /\ disturbed' = [disturbed EXCEPT ![m] = \E i \in Landed(runs[m]) : i > j]
  /\ UNCHANGED <<nextJid, cache, pc, job>>

(* Retention deletes the rows that landed before a cutoff. *)
Prune(m, cutoff) ==
  /\ \E j \in Landed(runs[m]) : runs[m][j].at < cutoff
  /\ runs' = [runs EXCEPT ![m] =
                [j \in Jid |-> IF @[j].at < cutoff THEN Absent ELSE @[j]]]
  /\ disturbed' = [disturbed EXCEPT ![m] = TRUE]
  /\ UNCHANGED <<nextJid, published, landings, cache, pc, job>>

(* A stored row is lost: the request that wrote it is rolled back. *)
Lose(m) ==
  /\ cache[m] # NoEntry
  /\ cache' = [cache EXCEPT ![m] = NoEntry]
  /\ UNCHANGED <<masterVars, pc, job>>

-----------------------------------------------------------------------------
(* conformity_entry_for(): the run ids, newest first. *)
ListRuns(r, m) ==
  /\ pc[r] = "idle"
  /\ pc' = [pc EXCEPT ![r] = "entry"]
  /\ job' = [job EXCEPT ![r] =
               [minion |-> m, newest |-> Newest(Landed(runs[m])),
                left |-> Window(Landed(runs[m])), verdict |-> "unknown", from |-> 0]]
  /\ UNCHANGED <<masterVars, cache>>

(* The stored entry answers when it was made against the same newest run. *)
BugAnyEntry(r) == cache[job[r].minion] # NoEntry

Fresh(r) ==
  LET held == cache[job[r].minion] IN
  held # NoEntry /\ held.source = job[r].newest

ReadEntry(r) ==
  /\ pc[r] = "entry"
  /\ IF Fresh(r)
     THEN /\ pc' = [pc EXCEPT ![r] = "idle"]
          /\ job' = [job EXCEPT ![r] = NoJob]
     ELSE /\ pc' = [pc EXCEPT ![r] = "scan"]
          /\ UNCHANGED job
  /\ UNCHANGED <<masterVars, cache>>

(* compute_last_highstate(): one row of the window, newest first.  A row   *)
(* that has gone, or is no real highstate, is passed over; one whose       *)
(* return is a text ends the request with an error, and nothing is stored. *)
BugNamesNewest(r) ==
  LET m == job[r].minion
      j == Max(job[r].left)
      kind == runs[m][j].kind
  IN /\ pc[r] = "scan"
     /\ job[r].left # {}
     /\ \/ /\ kind \notin Real
           /\ job' = [job EXCEPT ![r].left = @ \ {j}]
           /\ UNCHANGED pc
        \/ /\ kind \in {"pass", "fail"}
           /\ job' = [job EXCEPT ![r] = [@ EXCEPT !.verdict = VerdictOf(kind),
                                                !.from = job[r].newest]]
           /\ pc' = [pc EXCEPT ![r] = "store"]
        \/ /\ kind = "text"
           /\ job' = [job EXCEPT ![r] = NoJob]
           /\ pc' = [pc EXCEPT ![r] = "idle"]
     /\ UNCHANGED <<masterVars, cache>>

ScanRow(r) ==
  LET m == job[r].minion
      j == Max(job[r].left)
      kind == runs[m][j].kind
  IN /\ pc[r] = "scan"
     /\ job[r].left # {}
     /\ \/ /\ kind \notin Real
           /\ job' = [job EXCEPT ![r].left = @ \ {j}]
           /\ UNCHANGED pc
        \/ /\ kind \in {"pass", "fail"}
           /\ job' = [job EXCEPT ![r] = [@ EXCEPT !.verdict = VerdictOf(kind),
                                                !.from = j]]
           /\ pc' = [pc EXCEPT ![r] = "store"]
        \/ /\ kind = "text"
           /\ job' = [job EXCEPT ![r] = NoJob]
           /\ pc' = [pc EXCEPT ![r] = "idle"]
     /\ UNCHANGED <<masterVars, cache>>

ScanEnd(r) ==
  /\ pc[r] = "scan"
  /\ job[r].left = {}
  /\ pc' = [pc EXCEPT ![r] = "store"]
  /\ UNCHANGED <<masterVars, cache, job>>

(* update_or_create(): one atomic upsert of the minion's only row. *)
BugStampsNow(r) ==
  /\ pc[r] = "store"
  /\ cache' = [cache EXCEPT ![job[r].minion] =
                 [source |-> Newest(Landed(runs[job[r].minion])),
                  verdict |-> job[r].verdict, from |-> job[r].from]]
  /\ pc' = [pc EXCEPT ![r] = "idle"]
  /\ job' = [job EXCEPT ![r] = NoJob]
  /\ UNCHANGED masterVars

Store(r) ==
  /\ pc[r] = "store"
  /\ cache' = [cache EXCEPT ![job[r].minion] =
                 [source |-> job[r].newest, verdict |-> job[r].verdict,
                  from |-> job[r].from]]
  /\ pc' = [pc EXCEPT ![r] = "idle"]
  /\ job' = [job EXCEPT ![r] = NoJob]
  /\ UNCHANGED masterVars

Step(r) == ReadEntry(r) \/ ScanRow(r) \/ ScanEnd(r) \/ Store(r)

Next ==
  \/ \E m \in Minion : Publish(m) \/ Lose(m)
  \/ \E m \in Minion, j \in Jid, kind \in Kind : Land(m, j, kind)
  \/ \E m \in Minion, cutoff \in 2..(MaxJid + 1) : Prune(m, cutoff)
  \/ \E r \in Reader : Step(r) \/ \E m \in Minion : ListRuns(r, m)

Spec == Init /\ [][Next]_vars

(* A reader that started finishes, and the overview, or the notify command *)
(* from cron, keeps asking about every minion.                             *)
Polling ==
  /\ \A r \in Reader : WF_vars(Step(r))
  /\ \A m \in Minion : SF_vars(\E r \in Reader : ListRuns(r, m))

FairSpec == Spec /\ Polling

-----------------------------------------------------------------------------
(* An entry stamped with the newest run is what a computation from scratch *)
(* would give (conformity_entry_for), as long as nothing older landed and  *)
(* nothing was pruned since that run did - whichever readers raced to      *)
(* write it and however late they stored what they had read before.        *)
EntryIsCurrent ==
  \A m \in Minion :
    /\ cache[m] # NoEntry
    /\ cache[m].source = Newest(Landed(runs[m]))
    /\ ~disturbed[m]
    => [verdict |-> cache[m].verdict, from |-> cache[m].from] =
         CurrentVerdict(runs[m])

(* "The verdict can only change when a newer state run lands"              *)
(* (ConformityCache docstring): so, while nothing has been pruned, an      *)
(* entry stamped with the newest run is right with no other condition.     *)
NewestRunDecides ==
  \A m \in Minion :
    /\ Cardinality(Landed(runs[m])) = landings[m]
    /\ cache[m] # NoEntry
    /\ cache[m].source = Newest(Landed(runs[m]))
    => cache[m].verdict = CurrentVerdict(runs[m]).verdict

(* A verdict in the cache is never made up: it says what the run it names  *)
(* said, or that run has been pruned since.                                *)
VerdictHasSource ==
  \A m \in Minion :
    cache[m] # NoEntry /\ cache[m].from # 0 =>
      LET run == runs[m][cache[m].from] IN
      run = Absent \/ (run.kind \in Real /\ cache[m].verdict = VerdictOf(run.kind))

(* Polling brings the right verdict into the cache, and it stays, once     *)
(* runs stop arriving late or being pruned and rows stop being lost (rolled *)
(* back with a request that failed), unless the highstate to be judged of  *)
(* some minion is an error text: a request asks about every minion, and    *)
(* that one ends it for those behind it too.                               *)
AllReadable == \A n \in Minion : CurrentVerdict(runs[n]).verdict # "raises"

EventuallyCurrent ==
  \A m \in Minion :
    <>[](~disturbed[m] /\ AllReadable) /\ <>[][~Lose(m)]_vars =>
      <>[](/\ cache[m] # NoEntry
           /\ [verdict |-> cache[m].verdict, from |-> cache[m].from] =
                CurrentVerdict(runs[m]))

(* What the code does not keep, and no run checks: "Flat out error(return  *)
(* is a string)" (verdict_for) is meant to be a conflict like any other,   *)
(* and polling would store it.                                             *)
ErrorTextIsJudged ==
  \A m \in Minion :
    <>[](~disturbed[m]) /\ <>[][~Lose(m)]_vars =>
      <>[](cache[m] # NoEntry /\ cache[m].source = Newest(Landed(runs[m])))
=============================================================================
