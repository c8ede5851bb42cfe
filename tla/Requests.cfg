\* Two requests at a time, of every kind.
SPECIFICATION Spec
CONSTANTS
  m1 = m1
  m2 = m2
  t1 = t1
  t2 = t2
  Minion <- Minions
  Thread <- Threads
  Kinds <- Kind
  Mirrored <- Tables
  MaxToken = 3
  MaxPk = 8
  MaxRequests = 2
SYMMETRY AnyThread
CHECK_DEADLOCK FALSE
PROPERTIES TokenChangesAreAsked MirrorsWhatAnswered
