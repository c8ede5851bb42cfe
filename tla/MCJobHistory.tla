--------------------------- MODULE MCJobHistory -----------------------------
(* Small instances of JobHistory: two jobs, two minions. *)
EXTENDS JobHistory, TLC

CONSTANTS m1, m2

TwoMinions == {m1, m2}
Minions == Permutations(TwoMinions)
=============================================================================
