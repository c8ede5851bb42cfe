\* Two calls, two users of one browser.
SPECIFICATION FairSession
CONSTANTS
  q1 = q1
  q2 = q2
  alice = alice
  bob = bob
  Request <- TwoCalls
  User <- TwoUsers
  Nobody = Nobody
INVARIANT SessionIsWhole
PROPERTIES EveryCallSettles ExpiredSessionEnds
