\* Terminals and proxies, up to four messages of input.
\* No deadlock check: the session ends.
SPECIFICATION FairSpec
CONSTANT MaxInput = 4
INVARIANTS
  InputIsWritten
  ReleasedIsStopped
PROPERTY StopReleases
CHECK_DEADLOCK FALSE
