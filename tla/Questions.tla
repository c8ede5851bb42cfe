------------------------------ MODULE Questions ------------------------------
(* The parts of the web application that compute an answer and keep no      *)
(* state: a question is asked, the invariants compare the answer with what  *)
(* it should be, and the next question follows.  Here are the questions     *)
(* about targets, commands, finished jobs, diagnostics and indexes;         *)
(* Operators adds one about nested results.                                 *)
EXTENDS Matching, Commands, JobViews, Highstate, Diagnosis, ReturnerIndexes

CONSTANTS Word,   \* the words of what a user types into the form
          Input   \* per topic: what is asked

VARIABLES about, input

\* The minions whose grains and pillar are stored, and an expression.
AboutTarget(asked) ==
  /\ asked.type \in STRING /\ asked.expression \in Text
  /\ \A minion \in asked.roster :
       /\ minion.id \in STRING
       /\ \A column \in {minion.grain, minion.pillar} :
            column.readable => Document(column.stored)
  /\ \A m, n \in asked.roster : m.id = n.id => m = n

\* A form that is filled in, and what the master answers.
Run == [form : Form(Word), answer : Reply]

\* What the diagnostics look at.
Environment ==
  [backend : {"mysql", "postgresql"}, connects : BOOLEAN, configured : BOOLEAN,
   token : {"stored", "REVOKED", "none"}, login : {"ok", "fails"}, wheel : {"ok", "odd", "fails"},
   runner : {"ok", "fails"}, local : {"ok", "fails"}, pings : SUBSET BOOLEAN, readable : BOOLEAN,
   newest : Nat, jids : SUBSET Nat, empty : SUBSET Caches,
   indexes : {"present", "missing", "unreadable"}]

\* A database whose indexes are on tables that exist, where a name of Alcali's
\* is on an index of Alcali's, and what goes wrong in an attempt to add indexes.
Own(index) == index.name \in Names => \E want \in Wanted : index = Index(want, index.valid)

Attempt ==
  [db : [vendor : {"mysql", "postgresql"}, tables : SUBSET {"salt_returns", "salt_events"},
         indexes : SUBSET [name : STRING, table : STRING, columns : Seq(STRING), valid : BOOLEAN]],
   faults : [Names -> {"none", "refused", "build", "build drop"}]]

\* The pages about finished jobs: the returns in the table, the minions of the
\* "new" event, a query of the list, the day it is and the days of the graph.
AboutJobs(asked) ==
  /\ Table(asked.rows)
  /\ asked.query \in Query
  /\ asked.today \in Int /\ asked.period \in Nat

ASSUME QuestionsAssumption ==
  /\ \A asked \in Input.target : AboutTarget(asked)
  /\ Input.run \subseteq Run
  /\ \A asked \in Input.jobs : AboutJobs(asked)
  /\ Input.host \subseteq Seq(HostState)
  /\ Input.diagnosis \subseteq Environment
  /\ Input.indexes \subseteq Attempt
  /\ \A attempt \in Input.indexes : \A index \in attempt.db.indexes :
       index.table \in attempt.db.tables /\ Own(index)

NothingAsked == about = "nothing" /\ input = <<>>

Ask(topic) ==
  /\ about = "nothing"
  /\ about' = topic
  /\ input' \in Input[topic]

Answered == about # "nothing" /\ about' = "nothing" /\ input' = <<>>

Asking ==
  NothingAsked /\ [][(\E topic \in DOMAIN Input : Ask(topic)) \/ Answered]_<<about, input>>

-----------------------------------------------------------------------------

(* Target expressions.                                                      *)

\* What an expression says of a minion: of its id, or of what is stored of it
\* if that can be read.
Says(minion, type, expression) ==
  CASE type = "glob" -> expression \in {<<>>, <<"*">>, <<minion.id>>}
    [] type = "list" -> \E i \in DOMAIN expression : expression[i] = minion.id
    [] OTHER         -> LET column == ColumnOf(minion, type)
                        IN column.readable /\ Selects(column.stored, expression)

\* The preview names exactly the minions of the roster that the expression says,
\* wherever lists stand in their grains, except that it may miss a minion for
\* what lies behind a list in a list; and it guesses at no other expression.
TargetsAsWritten ==
  about = "target" =>
    LET got == PreviewTarget(input.roster, input.type, input.expression)
        missed(minion) == /\ input.type \in {"grain", "pillar"}
                          /\ Stopped(ColumnOf(minion, input.type).stored, input.expression)
    IN /\ got.matched \subseteq {minion.id : minion \in input.roster}
       /\ ~got.evaluated => got.matched = {}
       /\ got.evaluated => \A minion \in input.roster :
            LET says == Says(minion, input.type, input.expression)
            IN /\ minion.id \in got.matched => says
               /\ says => minion.id \in got.matched \/ missed(minion)

-----------------------------------------------------------------------------

(* Commands.                                                                *)

\* A form for minions that says what it is to say without more: a target and a
\* function, no word that is a flag, one for the batch size and one number for
\* the timeout, if any; and one for the master, where the hidden "Batch" and
\* "Timeout" are not still filled in from before.
ForMinions(form) ==
  /\ form.client = "local"
  /\ form.tgt # <<>> /\ form.fun # <<>>
  /\ \A text \in {form.tgt, form.fun, form.args, form.batch, form.timeout} :
       ToSet(text) \cap Flags = {}
  /\ Len(form.batch) <= 1
  /\ Len(form.timeout) <= 1 /\ ToSet(form.timeout) \subseteq DOMAIN Number

ForMaster(form) ==
  form.client # "local" /\ ~form.batched /\ form.timeout = <<>>

\* What the user has asked for, where target and function are one word each.
Meant(form) ==
  IF form.client = "local"
  THEN [error |-> FALSE, client |-> ClientOf(form), tgt_type |-> form.tgt_type,
        tgt |-> form.tgt[1], fun |-> form.fun[1], arg |-> form.args,
        batch |-> IF form.batched THEN form.batch ELSE <<>>,
        timeout |-> IF form.timeout = <<>> THEN <<>> ELSE <<Number[form.timeout[1]]>>]
  ELSE [error |-> FALSE, client |-> ClientOf(form), fun |-> form.fun[1],
        arg |-> Positional(form.args), kw |-> Keywords(form.args)]

\* What the form's command is parsed to is what the user asked for, options and
\* target type included, where the target and the function are one word each.
\* Of a longer one, as a compound target with its "and" is unless it is quoted,
\* shlex makes several: the first two words are then taken for the target and
\* the function, but none is lost and the options are as they should be.  The
\* page shows one item for each member of the answer: a highstate for a state
\* run that was waited for, and the note that nothing was collected only if no
\* minion's answer was.
CommandsAsMeant ==
  about = "run" =>
    LET form == input.form
        low == Parse(ClientOf(form), CreateCommand(form))
        page == RunView(low, input.answer)
        of == input.answer.of
        waitedFor == form.batched \/ ~form.async
        oneTarget == ForMaster(form) \/ (ForMinions(form) /\ Len(form.tgt) = 1)
    IN /\ oneTarget /\ Len(form.fun) = 1 => low = Meant(form)
       /\ ForMinions(form) =>
            /\ ~low.error
            /\ <<low.tgt, low.fun>> \o low.arg = form.tgt \o form.fun \o form.args
            /\ \A field \in {"client", "tgt_type", "batch", "timeout"} :
                 low[field] = Meant(form)[field]
       /\ ~low.error =>
            /\ page.status = 200
            /\ Len(page.items) = Len(of)
            /\ "highstate" \in ToSet(page.items) =>
                 low.fun \in HighstateFuns /\ (form.client = "local" => waitedFor)
            /\ page.note => \A i \in DOMAIN of : of[i] = "FALSE"

\* Not kept, and checked by no run: the target and the function of the form are
\* those of the command, however many words they are.  'G@os:Debian and web*'
\* becomes the target G@os:Debian and the function "and".
FieldsKeptApart ==
  about = "run" /\ ForMinions(input.form) =>
    LET low == Parse(ClientOf(input.form), CreateCommand(input.form))
    IN <<low.tgt>> = input.form.tgt /\ <<low.fun>> = input.form.fun

-----------------------------------------------------------------------------

(* Finished jobs.                                                           *)

\* A page holds matching rows, newest first, and no more than it may; a matching
\* row that is not on it is another user's, or older than as many matching rows
\* as a page takes.  What is listed as succeeded is shown as succeeded.
ListIsNewest(rows, query) ==
  LET page == Listed(rows, query)
      found == Filtered(rows, query)
      wanted(r) == query.users # {} => r.user \in query.users
  IN /\ ToSet(page) \subseteq found
     /\ Len(page) <= Limit(query.limit)
     /\ \A i, k \in DOMAIN page : i < k => page[i].at > page[k].at
     /\ \A r \in found \ ToSet(page) :
          wanted(r) => Cardinality({s \in found : s.at > r.at}) >= Limit(query.limit)
     /\ query.success = "true" => \A i \in DOMAIN page : SuccessBool(page[i]) = "TRUE"

\* Every minion that was to answer is accounted for, or it is said that those
\* minions are not known; every answer has a verdict.
SummaryAccounts(rows, published) ==
  LET sum == JobSummary(rows, published)
  IN /\ published \subseteq sum.returned \cup sum.missing
     /\ sum.returned = sum.succeeded \cup sum.failed
     /\ sum.missing \cap sum.returned = {}
     /\ sum.expected_known <=> published # {}

\* A run of a state: the return it is in and its place there.
StateRuns(rows, name) ==
  UNION {{<<r, k>> : k \in {j \in DOMAIN r.states : Counts(r.states[j], name)}} : r \in rows}

At(run) == run[1].states[run[2]]
Milliseconds(runs) == UNION {{<<run, ms>> : ms \in 1..At(run).ms[1]} : run \in runs}

\* A bucket has every run of a set of them, counted once.
Tells(bucket, runs) ==
  /\ bucket.runs = Cardinality(runs)
  /\ bucket.total = Cardinality(Milliseconds(runs))
  /\ \A run \in runs : bucket.max >= At(run).ms[1]
  /\ bucket.max # 0 => \E run \in runs : bucket.max = At(run).ms[1]
  /\ bucket.changed = Cardinality({run \in runs : At(run).changed})
  /\ bucket.failed = Cardinality({run \in runs : At(run).failed})
  /\ bucket.minions = {run[1].minion : run \in runs}

\* The times of a state are those of its runs, each counted once, the detail has
\* each minion's newest run of the state, and no minion is in the first and not
\* in the second.
DurationsAddUp(rows) ==
  \A name \in {s.name : s \in UNION {ToSet(r.states) : r \in rows}} :
    LET bucket == Bucket(rows, name)
        detail == Detail(rows, name)
    IN /\ Tells(bucket, StateRuns(rows, name))
       /\ bucket.minions \subseteq {r.minion : r \in detail}
       /\ \A r \in detail, s \in rows :
            /\ s.minion = r.minion /\ s.at > r.at
            => \A k \in DOMAIN s.states : s.states[k].name # name

\* The activity graph has every day of its period, in order and once, each with
\* the jobs of that day, and adds a day outside it only for jobs it has.
GraphIsComplete(rows, today, period) ==
  LET graph == GraphData(rows, today, period)
      days == {graph[i].day : i \in DOMAIN graph}
      covered == Start(today, period)..(today - 1)
  IN /\ \A i, k \in DOMAIN graph : i < k => graph[i].day < graph[k].day
     /\ covered \subseteq days
     /\ \A i \in DOMAIN graph :
          /\ graph[i].count = CountOn(rows, graph[i].day)
          /\ graph[i].errors = ErrorsOn(rows, graph[i].day)
     /\ \A day \in days \ covered : day >= today /\ \E r \in rows : r.day = day

\* The pages about finished jobs leave out nothing and count nothing twice.
JobPagesAddUp ==
  about = "jobs" =>
    /\ ListIsNewest(input.rows, input.query)
    /\ SummaryAccounts(input.rows, input.published)
    /\ DurationsAddUp(input.rows)
    /\ GraphIsComplete(input.rows, input.today, input.period)

-----------------------------------------------------------------------------

(* Results of a highstate.                                                  *)

\* A host's states come in the order they ran in, none is left out or shown
\* twice, the summary accounts for each of them, and a host is shown green only
\* if all its states succeeded; unless a highstate is nested in it, which raises.
HostsShown ==
  about = "host" /\ (\A i \in DOMAIN input : input[i].changes # "highstate") =>
    LET host == FormatHost([kind |-> "states", of |-> input])
        sum == Summary(input)
    IN /\ host.ok
       /\ \A i, k \in DOMAIN host.ids : i < k => host.ids[i] <= host.ids[k]
       /\ \A num \in {input[i].num : i \in DOMAIN input} :
            Cardinality({i \in DOMAIN host.ids : host.ids[i] = num})
              = Cardinality({i \in DOMAIN input : input[i].num = num})
       /\ sum.succeeded + sum.failed = Len(input) /\ sum.total = Len(input)
       /\ sum.failed = Cardinality({i \in DOMAIN input : input[i].result = "False"})
       /\ host.color = "GREEN" <=> \A i \in DOMAIN input : input[i].result = "True"
       /\ host.changed <=> \E i \in DOMAIN input : input[i].changes = "some"

-----------------------------------------------------------------------------

(* Diagnostics.                                                             *)

StatusOf(checks, key) == {check.status : check \in {c \in checks : c.key = key}}

\* A fault is named by its own check and by no other: a failing client does not
\* keep the others from being tried, and where the database refuses one read the
\* other checks still answer, unless it is PostgreSQL, where it breaks the
\* request's transaction.  The command fails on the faults of the Salt API the
\* page shows, the runner's apart, and agrees with it about the job cache.
FaultsNamed ==
  about = "diagnosis" /\ input.connects =>
    LET checks == Collect(input)
        says(key) == StatusOf(checks, key)
        signedIn == input.token = "stored" /\ input.login = "ok"
        apart == input.backend = "mysql" \/ input.readable
        command == Diagnose(input, TRUE)
    IN /\ says("salt.login") = {"fail"} <=> ~signedIn
       /\ signedIn => /\ says("salt.runner") = {"fail"} <=> input.runner = "fails"
                      /\ says("salt.collection") = {"fail"} <=>
                           input.local = "ok" /\ input.pings = {FALSE}
       /\ apart => /\ \A cache \in Caches : says(cache) = {"warn"} <=> cache \in input.empty
                   /\ says("db.indexes") = {"warn"} <=> input.indexes = "missing"
       /\ says("cache.job") = {"fail"} <=> command.job.notWritten
       /\ command.ends = "ok" =>
            {"fail"} \notin {says(key) : key \in {"salt.login", "salt.wheel", "salt.local"}}
       /\ Worst(checks) = "ok" => \A check \in checks : check.status \in {"ok", "unknown"}

-----------------------------------------------------------------------------

(* Indexes.                                                                 *)

ValidlyCovered(db, want) == \E index \in db.indexes : index.valid /\ Serves(index, want)
Works == [name \in Names |-> "none"]

\* However a first attempt fails, it does not pass for done: where every index
\* was valid before, it ends with "all present" only if every index wanted on a
\* table that exists is there and valid, and a second attempt, when nothing
\* fails, gets there, provided that what the first left could be dropped.  An
\* index is added only where none serves, what is missing is reported as made or
\* as failed, and an operator's own are left alone, by the reverse as well.
IndexesEndUp ==
  about = "indexes" =>
    LET before == input.db
        first == Ensure(before, input.faults)
        second == Ensure(first.db, Works)
        wanted == {want \in Wanted : want.table \in before.tables}
        whole == \A index \in before.indexes : index.valid
        droppable == \A name \in Names : input.faults[name] # "build drop"
    IN /\ whole /\ Applied(before, input.faults) =>
            \A want \in wanted : ValidlyCovered(first.db, want)
       /\ whole /\ droppable => \A want \in wanted : ValidlyCovered(second.db, want)
       /\ \A new \in second.db.indexes \ before.indexes :
            ~\E old \in before.indexes : Serves(old, new)
       /\ first.created \cup first.failed = {want.name : want \in MissingIndexes(before)}
       /\ first.created \cap first.failed = {}
       /\ Dropped(second.db) = Dropped(before)
       /\ {index \in before.indexes : index.name \notin Names} \subseteq Dropped(second.db).indexes
=============================================================================
