----------------------------- MODULE MCOperators -----------------------------
(* Every question on small sets of inputs: texts, rows, flags and grains in *)
(* sets of two to four, nested data of depth two, the states of a host, and *)
(* every fault of the master, the database and an attempt to add indexes.   *)
EXTENDS Operators

(* What is stored of a minion, written as it nests and then put in its      *)
(* places, and an expression of up to three words, or four.                 *)

Leaf(word) == <<"leaf", <<word>>>>
ListOf(items) == <<"list", items>>
Mapping(pairs) == <<"dict", pairs>>

InList(place, i) == [place EXCEPT ![Len(place)].at = Append(@, i)]

RECURSIVE Places(_, _)
Places(node, place) ==
  {<<place, node>>} \cup
    CASE node[1] = "dict" -> UNION {Places(node[2][k], Under(place, k)) : k \in DOMAIN node[2]}
      [] node[1] = "list" -> UNION {Places(node[2][i], InList(place, i)) : i \in DOMAIN node[2]}
      [] OTHER -> {}

Standing(node) ==
  CASE node[1] = "leaf" -> [kind |-> "leaf", text |-> node[2]]
    [] node[1] = "bool" -> [kind |-> "bool", is |-> node[2]]
    [] OTHER -> [kind |-> node[1]]

Stored(node) ==
  LET at == Places(node, <<>>)
  IN [place \in {p[1] : p \in at} |-> Standing((CHOOSE p \in at : p[1] = place)[2])]

Grains ==
  { Mapping([os |-> Leaf("linux")]),
    Mapping([os |-> <<"null">>]),
    Mapping([os |-> <<"leaf", <<>>>>, roles |-> ListOf(<<>>)]),
    Mapping([os |-> <<"bool", TRUE>>]),
    Mapping([os |-> <<"leaf", <<"name", "web">>>>]),
    Mapping([roles |-> ListOf(<<Leaf("web"), <<"bool", FALSE>>>>)]),
    Mapping([roles |-> Mapping([name |-> Leaf("web")])]),
    Mapping([roles |-> ListOf(<<Mapping([name |-> Leaf("web")]), Leaf("os")>>)]),
    Mapping([roles |-> ListOf(<<Mapping([name |-> Leaf("web")]),
                                Mapping([name |-> Leaf("linux")])>>)]),
    Mapping([roles |-> ListOf(<<Mapping([name |-> ListOf(<<Leaf("web"), Leaf("os")>>)])>>)]) }

\* Two members of a list, each with a list under the same key.
ListsInList ==
  Mapping([roles |-> ListOf(<<Mapping([name |-> ListOf(<<Mapping([web |-> Leaf("linux")])>>)]),
                              Mapping([name |-> ListOf(<<Mapping([web |-> Leaf("os")])>>)])>>)])

Broken == [readable |-> FALSE]
Readable(nodes) == {[readable |-> TRUE, stored |-> Stored(node)] : node \in nodes}

\* A minion with one column, beside one of which nothing can be read.
Roster(type, column) ==
  { [id |-> "web", grain |-> IF type = "grain" THEN column ELSE Broken,
     pillar |-> IF type = "grain" THEN Broken ELSE column],
    [id |-> "os", grain |-> Broken, pillar |-> Broken] }

About(type, columns, expressions) ==
  {[type |-> type, roster |-> Roster(type, column), expression |-> expression] :
     column \in columns, expression \in expressions}

Words == {"os", "roles", "name", "web", "linux", "true", "false", "none", "*"}
Few == {"roles", "name", "web", "linux"}

Targets ==
  About("grain", Readable(Grains) \cup {Broken}, UNION {[1..n -> Words] : n \in 0..3})
    \cup About("pillar", Readable({ListsInList}), UNION {[1..n -> Few] : n \in 1..4})
    \cup UNION {About(type, {Broken}, {<<>>, <<"*">>, <<"web">>, <<"web", "os">>}) :
                  type \in {"glob", "list", "compound"}}

-----------------------------------------------------------------------------
(* A form, and what the master answers.                                     *)

FormWords == {"web*", "G@os:Debian", "and", "test.ping", "state.apply", "null",
              "a", "b=1", "b=2", "10%", "5", "1.5", "-t"}

Numbers == [word \in {"5"} |-> 5]
Assignments == [word \in {"b=1", "b=2"} |->
                  [name |-> "b", value |-> IF word = "b=1" THEN 1 ELSE 2]]

FormsFor(clients, batches, types, targets, arguments, timeouts) ==
  [client : clients, async : BOOLEAN, batched : batches, tgt_type : types, tgt : targets,
   fun : {<<"test.ping">>, <<"state.apply">>, <<"null">>}, args : arguments,
   batch : {<<>>, <<"10%">>}, timeout : timeouts]

\* Every target type; a target of no, one and three words; arguments that are
\* none, a position, a keyword said twice and an option; a timeout that is no
\* number, or two words; and the other clients, with what "Batch" leaves behind.
Forms ==
  FormsFor({"local"}, BOOLEAN, TargetTypes, {<<"web*">>}, {<<"a">>}, {<<>>, <<"5">>})
    \cup FormsFor({"local"}, BOOLEAN, {"glob", "compound"},
                  {<<>>, <<"web*">>, <<"G@os:Debian", "and", "web*">>},
                  {<<>>, <<"a", "b=1">>, <<"-t", "a">>}, {<<>>, <<"5">>, <<"1.5">>, <<"5", "a">>})
    \cup FormsFor({"runner", "wheel"}, BOOLEAN, {"glob"}, {<<"web*">>},
                  {<<>>, <<"a", "b=1">>, <<"b=1", "a", "b=2">>}, {<<>>, <<"5">>})

Replies ==
  [kind : {"mapping"}, of : UNION {[1..n -> {"FALSE", "out"}] : n \in 0..2}]
  \cup [kind : {"list"}, of : {<<>>, <<"out">>}]

Runs == [form : Forms, answer : Replies]

-----------------------------------------------------------------------------
(* Nested data of depth two, and the states of a host.                      *)

UpToTwo(S) == {<<>>} \cup {<<a>> : a \in S} \cup {<<a, b>> : a, b \in S}
Keyed(items) == [i \in DOMAIN items |-> <<IF i = 1 THEN "k1" ELSE "k2", items[i]>>]
Nest(S) == {<<"list", items>> : items \in UpToTwo(S)}
             \cup {<<"dict", Keyed(items)>> : items \in UpToTwo(S)}

Flat == {<<"scalar", "x">>, <<"text", <<"p", "q">>>>}
Data == Nest(Flat \cup Nest(Flat))

RunState == [num : 1..3, result : Result, changes : {"none", "some"}, warnings : BOOLEAN]
Hosts == UpToTwo(RunState) \cup [1..3 -> {s \in RunState : s.changes = "none" /\ ~s.warnings}]
           \cup {<<[num |-> 1, result |-> "True", changes |-> "highstate", warnings |-> FALSE]>>}

-----------------------------------------------------------------------------
(* The returns in the table, the minions of the "new" event, and a query.   *)

Ran(name, ms, changed) == [name |-> name, ms |-> ms, changed |-> changed, failed |-> ms = <<5>>]

Row(minion, at, said, payload, retcode, states) ==
  [minion |-> minion, jid |-> at, at |-> at, day |-> at, column |-> Column(said), said |-> said,
   payload |-> payload, retcode |-> retcode, user |-> IF at < 3 THEN "ann" ELSE "bob",
   states |-> states]

Bare == [kind |-> "bare"]
Pool ==
  { Row("m1", 1, "TRUE",   Bare, "0", <<Ran("a", <<7>>, TRUE), Ran("b", <<>>, TRUE)>>),
    Row("m2", 2, "absent", [kind |-> "states", of |-> {"TRUE", "None"}], "absent",
        <<Ran("a", <<3>>, FALSE)>>),
    Row("m1", 3, "FALSE",  [kind |-> "result", is |-> "FALSE"], "1",
        <<Ran("b", <<2>>, FALSE), Ran("a", <<5>>, TRUE)>>),
    Row("m2", 4, "absent", [kind |-> "states", of |-> {"FALSE"}], "0", <<>>),
    Row("m3", 5, "absent", Bare, "absent", <<Ran("a", <<3>>, TRUE)>>),
    Row("m1", 6, "absent", [kind |-> "result", is |-> "None"], "0", <<>>) }

Queries == [limit : {<<>>, <<0>>, <<2>>}, targets : {{}, {"m1"}, {"m1", "m2"}},
            times : {{}, {2, 3, 4}}, success : {"any", "true", "false"}, users : {{}, {"ann"}}]

Plain == [limit |-> <<>>, targets |-> {}, times |-> {}, success |-> "any", users |-> {}]

Jobs == [rows : SUBSET Pool, published : {{}}, query : Queries, today : {5}, period : {3}]
          \cup [rows : SUBSET Pool, published : SUBSET {"m1", "m2", "m3"}, query : {Plain},
                today : {5}, period : {0, 3}]

-----------------------------------------------------------------------------
(* Every state of the master with a healthy database, and of the database   *)
(* with a healthy master.                                                   *)

Healthy ==
  [backend |-> "mysql", connects |-> TRUE, configured |-> TRUE, token |-> "stored", login |-> "ok",
   wheel |-> "ok", runner |-> "ok", local |-> "ok", pings |-> {TRUE}, readable |-> TRUE,
   newest |-> 2, jids |-> {1, 2}, empty |-> {}, indexes |-> "present"]

Sick ==
  {[Healthy EXCEPT !.token = t, !.login = l, !.wheel = w, !.runner = r, !.local = c, !.pings = p,
                   !.readable = d] :
     t \in {"stored", "REVOKED", "none"}, l \in {"ok", "fails"}, w \in {"ok", "odd", "fails"},
     r \in {"ok", "fails"}, c \in {"ok", "fails"}, p \in SUBSET BOOLEAN, d \in BOOLEAN}
  \cup
  {[Healthy EXCEPT !.backend = b, !.readable = d, !.newest = n, !.jids = j, !.empty = e, !.indexes = x] :
     b \in {"mysql", "postgresql"}, d \in BOOLEAN, n \in 0..2, j \in SUBSET (1..2),
     e \in SUBSET {"cache.minions", "cache.keys"}, x \in {"present", "missing", "unreadable"}}
  \cup {[Healthy EXCEPT !.connects = FALSE, !.readable = FALSE]}

-----------------------------------------------------------------------------
(* The indexes an operator has made, one of them not valid, what is left of *)
(* an earlier attempt, and the faults of the next one.                      *)

Existing(name, table, columns, valid) ==
  [name |-> name, table |-> table, columns |-> columns, valid |-> valid]

Made ==
  { Existing("by_time", "salt_returns", <<"alter_time", "jid">>, TRUE),
    Existing("by_fun", "salt_returns", <<"id", "fun">>, TRUE),
    Existing("broken", "salt_returns", <<"id", "fun", "jid">>, FALSE),
    Existing("alcali_evt_alter_time", "salt_events", <<"alter_time">>, TRUE) }

Attempts ==
  {attempt \in [db : [vendor : {"mysql", "postgresql"}, tables : SUBSET {"salt_returns", "salt_events"},
                      indexes : SUBSET Made],
                faults : [Names -> {"none", "refused", "build", "build drop"}]] :
     \A index \in attempt.db.indexes : index.table \in attempt.db.tables}

-----------------------------------------------------------------------------
AllInputs ==
  [target |-> Targets, run |-> Runs, data |-> Data, host |-> Hosts, jobs |-> Jobs,
   diagnosis |-> Sick, indexes |-> Attempts]
=============================================================================
