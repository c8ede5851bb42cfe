----------------------------- MODULE MCRequests ------------------------------
(* Two threads that serve the requests of one user about two minions.       *)
EXTENDS Requests, TLC

CONSTANTS m1, m2, t1, t2

Minions == {m1, m2}
Threads == {t1, t2}
\* Empty, filled, or with the duplicates that two first refreshes leave.
Filled == {[pk |-> 1, of |-> <<m1, "grains">>], [pk |-> 2, of |-> <<m1, "schedule">>],
           [pk |-> 3, of |-> <<m2, "beacon">>]}
Twice == {[pk |-> p, of |-> <<m1, "grains">>] : p \in {1, 2}}
           \cup {[pk |-> p, of |-> <<m1, "schedule">>] : p \in {3, 4}}
Tables == {{}, Filled, Twice}

AnyThread == Permutations(Threads)
=============================================================================
