------------------------- MODULE MCConformityCache --------------------------
(* Small instances of ConformityCache.  One minion is enough: no step and  *)
(* no property relates two of them.  Depth is 2, below MaxJid, so that the *)
(* search window does cut runs off.                                        *)
EXTENDS ConformityCache

CONSTANTS m1, r1, r2

OneMinion == {m1}
TwoReaders == {r1, r2}
OneReader == {r1}
=============================================================================
