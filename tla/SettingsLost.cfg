\* A settings PATCH and the token endpoints.
SPECIFICATION Spec
CONSTANTS
  m1 = m1
  m2 = m2
  t1 = t1
  t2 = t2
  Minion <- Minions
  Thread <- Threads
  Kinds = {"settings", "renew", "revoke"}
  Mirrored <- Tables
  MaxToken = 3
  MaxPk = 8
  MaxRequests = 2
SYMMETRY AnyThread
CHECK_DEADLOCK FALSE
PROPERTY OnlyTokenEndpoints
