-------------------------- MODULE MCNotifications ---------------------------
(* A small instance of Notifications: two rules until one is deleted, and   *)
(* from then on, with a run perhaps still at that one, runs that overlap.   *)
EXTENDS Notifications

CONSTANTS a1, a2, m1, x1, x2

TwoRules == {a1, a2}
OneMinion == {m1}
TwoRunners == {x1, x2}

\* The second runner waits for the deletion, which keeps the instance small.
BeginLate(x) == (x = x2 => a2 \in gone) /\ Begin(x)

LateNext ==
  \/ \E x \in Runner :
       \/ BeginLate(x) \/ Step(x) \/ Crash(x)
       \/ \E r \in Rule : CannotEvaluate(x, r)
  \/ \E r \in Rule : Switch(r) \/ Remove(r) \/ \E m \in Minion : Change(r, m)

LateSpec ==
  /\ Init /\ [][LateNext]_vars
  /\ \A x \in Runner : WF_vars(BeginLate(x)) /\ WF_vars(Step(x))
=============================================================================
