---------------------------- MODULE MCJobArchive -----------------------------
(* Two jobs of one function on two minions, and one event.                  *)
EXTENDS JobArchive

CONSTANTS m1, m2, e1, f1

Jobs == {1, 2}
Minions == {m1, m2}
SameFun == [j \in Jobs |-> f1]
=============================================================================
