---------------------------- MODULE MCKeyMirror -----------------------------
(* Small instances of KeyMirror: two workers with one thread each. *)
EXTENDS KeyMirror, TLC

CONSTANTS m1, w1, w2, t1, t2

OneMinion == {m1}
OneStatus == {"accepted"}
TwoThreads == {t1, t2}
TwoWorkers == {w1, w2}
OwnHome == [t \in TwoThreads |-> IF t = t1 THEN w1 ELSE w2]
OnlySync == [t \in TwoThreads |-> {"sync"}]
OneRefreshes == [t \in TwoThreads |-> IF t = t1 THEN {"sync"} ELSE {"sync", "refresh"}]
=============================================================================
