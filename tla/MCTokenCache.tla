---------------------------- MODULE MCTokenCache ----------------------------
(* Small instances of TokenCache: one worker with two threads. *)
EXTENDS TokenCache, TLC

CONSTANTS w1, r1, r2

OneWorker == {w1}
TwoThreads == {r1, r2}
OneThread == {r1}
HomeOfTwo == [r \in TwoThreads |-> w1]
HomeOfOne == [r \in OneThread |-> w1]

Tokens == Permutations(Token)

(* What became of a token nobody holds is never looked at again. *)
HeldView ==
  <<credential, cache, threadVars,
    [k \in Token \ Unheld |-> <<bought[k], left[k], k \in honoured>>]>>
=============================================================================
