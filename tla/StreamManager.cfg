\* Two ids and three sessions: an id is used again while sessions still end.
\* Sessions that start at once and that suspend, servers that wait or not and
\* that reuse ids or not.
\* No deadlock check: session objects are used once, so a run may come to rest.
SPECIFICATION FairSpec
CONSTANTS
  i1 = i1
  i2 = i2
  s1 = s1
  s2 = s2
  s3 = s3
  None = None
  Ids <- SmallIds
  Sessions <- SmallSessions
INVARIANTS
  EntryIsAlive
  NoStopEcho
  LiveIsReachable
PROPERTIES
  EndingIsLocal
  ImplementsService
  StoppedIsReleased
CHECK_DEADLOCK FALSE
