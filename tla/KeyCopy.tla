------------------------------ MODULE KeyCopy -------------------------------
(***************************************************************************)
(* What sync_keys() promises of salt_keys ("Bring salt_keys into line with *)
(* the master's key list", api/backend/netapi.py), of any number of        *)
(* writers that look at the list and publish what they saw.  A writer      *)
(* leaves the keys it saw and adds no other; and if nobody else has        *)
(* changed the table since it looked, the table has every key it saw, no   *)
(* second row of one, and of every other key fewer rows than before, if    *)
(* any.  How the rows get there is not said here, nor that a later look is *)
(* published later.                                                        *)
(***************************************************************************)
CONSTANTS Key,      \* what the list is made of
          Writer,   \* who may bring the table into line
          MayWipe   \* whether a writer can empty the table when it looks

VARIABLES source,    \* the list
          table,     \* committed rows, each of a key
          seen,      \* Writer -> {} or {the list it has seen}
          overtaken  \* writers since whose look another has changed the table

vars == <<source, table, seen, overtaken>>

Of(rows, k) == {r \in rows : r.key = k}

Init ==
  /\ source \in SUBSET Key
  /\ table = {}
  /\ seen = [w \in Writer |-> {}]
  /\ overtaken = {}

Change ==
  /\ source' \in SUBSET Key
  /\ UNCHANGED <<table, seen, overtaken>>

Look(w) ==
  /\ seen[w] = {}
  /\ seen' = [seen EXCEPT ![w] = {source}]
  /\ overtaken' = overtaken \ {w}
  /\ UNCHANGED <<source, table>>

(* The others that have looked learn nothing of a change. *)
Overtake(w) ==
  overtaken' = (overtaken \cup (IF table' = table THEN {}
                                ELSE {v \in Writer : seen[v] # {}})) \ {w}

(* A writer that empties the table as it looks (TRUNCATE on MySQL). *)
Wipe(w) ==
  /\ MayWipe
  /\ table' = {}
  /\ seen' = [seen EXCEPT ![w] = {source}]
  /\ Overtake(w)
  /\ UNCHANGED source

(* One key, before and after, for a writer whose list has it or has not. *)
Kept(k) == Of(table, k) # {} => Of(table', k) # {}
Listed(k) ==
  /\ Of(table', k) # {}
  /\ Of(table', k) \subseteq Of(table, k) \/ \A a, b \in Of(table', k) : a = b
NotAdded(k) == Of(table', k) \subseteq Of(table, k)
Fewer(k) == Of(table', k) = {} \/ Of(table', k) # Of(table, k)

Publish(w) ==
  /\ \E list \in seen[w] :
       /\ \A k \in list : Kept(k) /\ (w \notin overtaken => Listed(k))
       /\ \A k \in Key \ list : NotAdded(k) /\ (w \notin overtaken => Fewer(k))
  /\ seen' = [seen EXCEPT ![w] = {}]
  /\ Overtake(w)
  /\ UNCHANGED source

\* A roll-back leaves the table as it was; a process dies with all its writers.
GiveUp(W) ==
  /\ seen' = [w \in Writer |-> IF w \in W THEN {} ELSE seen[w]]
  /\ overtaken' = overtaken \ W
  /\ UNCHANGED <<source, table>>

\* Half done: what is left to be published is part of what it saw.
Forget(w, list) ==
  /\ MayWipe
  /\ \E whole \in seen[w] : list \subseteq whole
  /\ seen' = [seen EXCEPT ![w] = {list}]
  /\ UNCHANGED <<source, table, overtaken>>

Next == \/ Change
        \/ \E w \in Writer : Look(w) \/ Wipe(w) \/ Publish(w)
        \/ \E w \in Writer, list \in SUBSET Key : Forget(w, list)
        \/ \E W \in SUBSET Writer : GiveUp(W)

Spec == Init /\ [][Next]_vars
=============================================================================
