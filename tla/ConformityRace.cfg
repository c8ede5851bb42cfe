\* Two racing readers that keep polling one minion, up to three state runs.
SPECIFICATION FairSpec
CONSTANTS
  m1 = m1
  r1 = r1
  r2 = r2
  Minion <- OneMinion
  Reader <- TwoReaders
  NoEntry = NoEntry
  MaxJid = 3
  Depth = 2
INVARIANTS TypeOK EntryIsCurrent VerdictHasSource
CHECK_DEADLOCK FALSE
PROPERTY EventuallyCurrent
