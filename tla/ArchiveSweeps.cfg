\* Sweeps of which one may be cut short.
SPECIFICATION FairSpec
CONSTANTS
  m1 = m1
  m2 = m2
  e1 = e1
  f1 = f1
  Jid <- Jobs
  Minion <- Minions
  Event = {e1}
  Fun = {f1}
  FunOf <- SameFun
  KeepJobs = 1
  MaxNow = 3
  MaxReturns = 3
  MaxFaults = 1
INVARIANT ArchivedOnce
PROPERTIES LeavesOldAndArchived 
