\* Two workers on PostgreSQL; one also answers the refresh button.
SPECIFICATION FairSpec
CONSTANTS
  m1 = m1
  w1 = w1
  w2 = w2
  t1 = t1
  t2 = t2
  Minion <- OneMinion
  Status <- OneStatus
  Process <- TwoWorkers
  Thread <- TwoThreads
  Home <- OwnHome
  Nobody = Nobody
  Returner = Returner
  Kinds <- OneRefreshes
  Returning = TRUE
  TruncateCommits = FALSE
  MaxPk = 5
PROPERTIES CopiesTheList PresentKeysStay LiveSchedulesStay EventuallyMirrors
