\* Two connections at once, one thread, two chunks a connection.
SPECIFICATION FairSpec
\* A page that has gone leaves nothing to do.
CHECK_DEADLOCK FALSE
CONSTANTS
  Conn = {c1, c2}
  Threads = 1
  MaxChunks = 1
  Nil = Nil
INVARIANTS TypeOK StreamHasOwner
PROPERTIES CarriesTheFeed AbandonedIsReleased StreamComesBack
