------------------------------ MODULE JobViews -------------------------------
(* What the pages say about finished jobs: SaltReturns.success_bool         *)
(* (api/models.py), the success filter, job_summary and state_durations     *)
(* (api/views/salt.py), and graph_data (api/utils), over a table of         *)
(* returns.  `at` ranks the returns as the database lists them: by          *)
(* alter_time, those of one second in an order of its own.  `said` is       *)
(* ret["success"], "absent" when the payload has none, and `column` is what *)
(* the returner stored for it.                                              *)
EXTENDS Orders, Integers, Sequences, SequencesExt

Larger(a, b) == IF a > b THEN a ELSE b

TrueValues == {"1", "True", "true", "yes"}
FalseValues == {"0", "False", "false", "no", ""}

\* INSERT INTO salt_returns: ret.get("success", False), as the driver writes it.
Column(said) == IF said = "TRUE" THEN "1" ELSE "0"

Verdict == {"TRUE", "FALSE", "None"}

\* "value" is a bare value, "bare" a mapping without any of the others.
Payload ==
  [kind : {"success", "result"}, is : Verdict]
  \cup [kind : {"states"}, of : SUBSET Verdict] \cup [kind : {"value", "bare"}]

\* One state of a run; ms is <<>> for a state without a duration.
StateRun == [name : STRING, ms : {<<>>} \cup [{1} -> Nat], changed : BOOLEAN, failed : BOOLEAN]

ReturnRow ==
  [minion : STRING, jid : Nat, at : Nat, day : Int, column : {"0", "1"},
   said : {"TRUE", "FALSE", "absent"}, payload : Payload, retcode : STRING, user : STRING,
   states : Seq(StateRun)]

\* A table of returns, as the returner wrote it.
Table(rows) ==
  /\ rows \subseteq ReturnRow /\ IsFiniteSet(rows)
  /\ \A r \in rows : r.column = Column(r.said)
  /\ \A r, s \in rows : r.at = s.at => r = s

\* The verdict of a payload: [success], [result] or the results of its states.
PayloadSays(payload) ==
  CASE payload.kind = "success" -> {payload.is}
    [] payload.kind = "result"  -> {IF payload.is = "TRUE" THEN "TRUE" ELSE "FALSE"}   \* bool()
    [] payload.kind = "states"  -> {IF payload.of = {} THEN "None"
                                    ELSE IF "FALSE" \in payload.of THEN "FALSE" ELSE "TRUE"}
    [] OTHER                    -> {"None"}

\* success_bool: the first of success, the payload, retcode and column that says
\* something; of the column only a yes is believed.
SuccessBool(row) ==
  LET verdict == CHOOSE v \in PayloadSays(row.payload) : TRUE
  IN IF row.said # "absent" THEN row.said
     ELSE IF verdict # "None" THEN verdict
     ELSE IF row.retcode # "absent" THEN (IF row.retcode = "0" THEN "TRUE" ELSE "FALSE")
     ELSE IF row.column \in TrueValues THEN "TRUE" ELSE "None"

NewestFirst(rows) == InOrder(rows, {pair \in rows \X rows : pair[1].at > pair[2].at})

-----------------------------------------------------------------------------
(* SaltReturnsList.get_queryset.  A query is [limit, targets, times, success, *)
(* users]; an empty set asks for nothing in particular.  functions[] filters  *)
(* as target[] does.                                                          *)

Query ==
  [limit : {<<>>} \cup [{1} -> Int], targets : SUBSET STRING, times : SUBSET Nat,
   success : {"any", "true", "false"}, users : SUBSET STRING]

\* `asked` is the sequence of the numbers the parameter parses to: one or none.
Limit(asked) == IF asked = <<>> THEN 50
                ELSE IF asked[1] < 1 THEN 1 ELSE IF asked[1] > 5000 THEN 5000 ELSE asked[1]

Filtered(rows, query) ==
  {r \in rows : /\ query.targets # {} => r.minion \in query.targets
                /\ query.times # {} => r.at \in query.times
                /\ query.success = "true" => r.column \in TrueValues
                /\ query.success = "false" => r.column \in FalseValues}

\* Mutant: the oldest rows fill the page.
BugOldestFirst(found, query) ==
  {r \in found : Cardinality({s \in found : s.at < r.at}) < Limit(query.limit)}

\* The newest rows: fewer are newer than a page takes.
Page(found, query) ==
  {r \in found : Cardinality({s \in found : s.at > r.at}) < Limit(query.limit)}

\* The users are compared after the page has been cut.
Listed(rows, query) ==
  NewestFirst({r \in Page(Filtered(rows, query), query) :
                 query.users # {} => r.user \in query.users})

-----------------------------------------------------------------------------
(* job_summary: `published` is the set of minions of the job's "new" events. *)

\* Mutant: without a "new" event the answers are taken for the roster.
BugGuessesRoster(rows, published) ==
  LET returned == {r.minion : r \in rows}
      succeeded == {r.minion : r \in {x \in rows : SuccessBool(x) = "TRUE"}}
  IN [returned |-> returned, succeeded |-> succeeded,
      failed |-> returned \ succeeded,
      expected_known |-> published \cup returned # {},
      missing |-> published \ returned]

JobSummary(rows, published) ==
  LET returned == {r.minion : r \in rows}
      succeeded == {r.minion : r \in {x \in rows : SuccessBool(x) = "TRUE"}}
  IN [returned |-> returned, succeeded |-> succeeded,
      failed |-> {r.minion : r \in {x \in rows : SuccessBool(x) # "TRUE"}},
      expected_known |-> published # {},
      missing |-> IF published = {} THEN {} ELSE published \ returned]

-----------------------------------------------------------------------------
(* state_durations: the states of the runs in the window.                    *)

NewBucket == [runs |-> 0, total |-> 0, max |-> 0, changed |-> 0, failed |-> 0, minions |-> {}]

\* Mutant: a state of the same name starts its bucket over.
BugStartsOver(bucket, s, minion) ==
  [runs |-> 1, total |-> s.ms[1], max |-> s.ms[1], changed |-> IF s.changed THEN 1 ELSE 0,
   failed |-> IF s.failed THEN 1 ELSE 0, minions |-> {minion}]

Bucketed(bucket, s, minion) ==
  [runs |-> bucket.runs + 1, total |-> bucket.total + s.ms[1], max |-> Larger(bucket.max, s.ms[1]),
   changed |-> bucket.changed + (IF s.changed THEN 1 ELSE 0),
   failed |-> bucket.failed + (IF s.failed THEN 1 ELSE 0),
   minions |-> bucket.minions \cup {minion}]

\* A state without a duration is passed over.
Counts(s, name) == s.name = name /\ s.ms # <<>>

\* The bucket of a name after the states of one more run.
InRun(run, name, bucket) ==
  LET upTo[k \in 0..Len(run.states)] ==
        IF k = 0 THEN bucket
        ELSE IF Counts(run.states[k], name) THEN Bucketed(upTo[k - 1], run.states[k], run.minion)
        ELSE upTo[k - 1]
  IN upTo[Len(run.states)]

Bucket(rows, name) ==
  LET runs == NewestFirst(rows)
      upTo[n \in 0..Len(runs)] == IF n = 0 THEN NewBucket ELSE InRun(runs[n], name, upTo[n - 1])
  IN upTo[Len(runs)]

\* One state across the fleet: the first run of each minion, newest first, that
\* has the state at all.
Detail(rows, name) ==
  LET runs == NewestFirst(rows)
      has(i) == \E k \in DOMAIN runs[i].states : runs[i].states[k].name = name
      first(k) == \A j \in 1..(k - 1) : has(j) => runs[j].minion # runs[k].minion
  IN {runs[i] : i \in {k \in DOMAIN runs : has(k) /\ first(k)}}

-----------------------------------------------------------------------------
(* graph_data: the days that have jobs, in order, then a zero for each day   *)
(* of the period that has none, inserted at its place.  The period starts    *)
(* `period` days ago and does not reach today.                               *)

CountOn(rows, day) == Cardinality({r \in rows : r.day = day})
ErrorsOn(rows, day) == Cardinality({r \in rows : r.day = day /\ r.column = "0"})

Start(today, period) == today - period

WithJobs(rows, today, period) ==
  LET days == {r.day : r \in {x \in rows : x.day >= Start(today, period)}}
      series == InOrder(days, {pair \in days \X days : pair[1] < pair[2]})
  IN [i \in DOMAIN series |-> [day |-> series[i], count |-> CountOn(rows, series[i]),
                               errors |-> ErrorsOn(rows, series[i])]]

\* Mutant: a day without jobs is added at the end.
BugAppends(series, n, day) == Append(series, [day |-> day, count |-> 0, errors |-> 0])

Fill(series, n, day) == InsertAt(series, n, [day |-> day, count |-> 0, errors |-> 0])

\* The n-th day of the period, unless it is there.
Completed(series, n, day) ==
  IF \E i \in DOMAIN series : series[i].day = day THEN series ELSE Fill(series, n, day)

GraphData(rows, today, period) ==
  LET upTo[n \in 0..period] ==
        IF n = 0 THEN WithJobs(rows, today, period)
        ELSE Completed(upTo[n - 1], n, Start(today, period) + n - 1)
  IN upTo[period]
=============================================================================
