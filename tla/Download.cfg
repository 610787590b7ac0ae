\* One chunk of 2 bytes over a window of 5: up to three chunks in flight, the
\* last one of a file full or short.  Ends when the session does.
\* No deadlock check: the session ends.
SPECIFICATION FairSpec
CONSTANTS
  ChunkSize = 2
  WindowSize = 5
  FileSizes <- SmallFiles
  AckBytes <- SmallAcks
  RateLimited = TRUE
  Rewritable = TRUE
INVARIANTS
  InFlightBound
  SingleSender
  NeverStalledBeforeEof
  NoSpuriousTimeout
PROPERTIES
  ImplementsTransfer
  ReachesEof
  CompletedIsClosed
CHECK_DEADLOCK FALSE
