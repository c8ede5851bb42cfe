\* Two workers on MySQL, where TRUNCATE commits by itself.
SPECIFICATION FairSpec
CONSTANTS
  m1 = m1
  w1 = w1
  w2 = w2
  t1 = t1
  t2 = t2
  Minion <- OneMinion
  Status <- OneStatus
  Process <- TwoWorkers
  Thread <- TwoThreads
  Home <- OwnHome
  Nobody = Nobody
  Returner = Returner
  Kinds <- OnlySync
  Returning = TRUE
  TruncateCommits = TRUE
  MaxPk = 4
PROPERTIES CopiesTheList PresentKeysStay EventuallyMirrors
