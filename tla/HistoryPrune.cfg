\* Two jobs, two minions, a window of one day, batches of one.
SPECIFICATION Spec
CONSTANTS
  m1 = m1
  m2 = m2
  Minion <- TwoMinions
  MaxJid = 2
  MaxDay = 3
  Window = 1
  Batch = 1
SYMMETRY Minions
INVARIANTS OldReturnsGone LoadsFollowReturns
PROPERTY RecentReturnsStay
CHECK_DEADLOCK FALSE
