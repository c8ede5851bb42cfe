\* One worker, two threads, one renewal, any number of master restarts.
SPECIFICATION Spec
CONSTANTS
  w1 = w1
  r1 = r1
  r2 = r2
  Process <- OneWorker
  Request <- TwoThreads
  Home <- HomeOfTwo
  Token = {k1, k2, k3, k4}
  NoToken = NoToken
  MaxCredential = 2
  RecursionLimit = 2
SYMMETRY Tokens
VIEW HeldView
INVARIANTS BoughtWithOwnCredential ErrorHasCause
