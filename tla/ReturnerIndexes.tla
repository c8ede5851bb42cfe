--------------------------- MODULE ReturnerIndexes ---------------------------
(* api/returner_indexes.py, the returner_indexes command and migration      *)
(* 0010: the indexes Alcali adds to Salt's tables.  A database is           *)
(* [vendor, tables, indexes], an index [name, table, columns, valid].       *)
(* Introspection lists an index of PostgreSQL that is not valid like any    *)
(* other.  The names of RETURNER_INDEXES are Alcali's own.                  *)
EXTENDS Naturals, Sequences, SequencesExt

Want(name, table, columns) == [name |-> name, table |-> table, columns |-> columns]

Wanted == {
  Want("alcali_ret_alter_time",    "salt_returns", <<"alter_time">>),
  Want("alcali_ret_id_alter_time", "salt_returns", <<"id", "alter_time">>),
  Want("alcali_ret_id_fun_jid",    "salt_returns", <<"id", "fun", "jid">>),
  Want("alcali_evt_alter_time",    "salt_events",  <<"alter_time">>) }

Names == {want.name : want \in Wanted}

Serves(index, want) == index.table = want.table /\ IsPrefix(want.columns, index.columns)

Covered(db, want) == \E index \in db.indexes : Serves(index, want)

MissingIndexes(db) ==
  {want \in Wanted : want.table \in db.tables /\ ~Covered(db, want)}

Index(want, valid) ==
  [name |-> want.name, table |-> want.table, columns |-> want.columns, valid |-> valid]

-----------------------------------------------------------------------------
(* What the database does: `fault` is "none", "refused" (no privilege, or   *)
(* no lock), or "build", a concurrent build that fails and leaves its index *)
(* behind; after "build drop" the index cannot be dropped either.           *)

Left(db, want, fault) ==
  IF db.vendor = "postgresql" /\ fault \in {"build", "build drop"}
  THEN {Index(want, FALSE)} ELSE {}

\* Mutant: what a failed build left is not cleaned up.
BugLeavesInvalid(db, want, fault) == Left(db, want, fault)

\* The handler drops the name on PostgreSQL, and takes a failure to for done.
CleanedUp(db, want, fault) == IF fault = "build drop" THEN Left(db, want, fault) ELSE {}

\* ensure_indexes: [db, created, failed].  What is missing is asked once, before
\* the first statement, and one that fails does not keep the rest from running.
Ensure(db, faults) ==
  LET made == {want \in MissingIndexes(db) : faults[want.name] = "none"}
      failed == MissingIndexes(db) \ made
  IN [db      |-> [db EXCEPT !.indexes =
                     @ \cup {Index(want, TRUE) : want \in made}
                       \cup UNION {CleanedUp(db, want, faults[want.name]) : want \in failed}],
      created |-> {want.name : want \in made},
      failed  |-> {want.name : want \in failed}]

\* returner_indexes --apply: whether it ends with "all present".
Applied(db, faults) == MissingIndexes(db) = {} \/ Ensure(db, faults).failed = {}

\* drop_indexes, the migration's reverse.
Dropped(db) ==
  [db EXCEPT !.indexes = {index \in @ : index.table \in db.tables => index.name \notin Names}]
=============================================================================
