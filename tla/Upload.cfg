\* With and without a bandwidth limit; a window of 5 holds one threshold and
\* one chunk less a byte, the least that never blocks the server, 6 one more.
\* No deadlock check: the session ends.
SPECIFICATION FairSpec
CONSTANTS
  ChunkSize = 2
  MaxAckThreshold = 4
  Parts = 2
  Sizes <- SmallSizes
  Windows <- SmallWindows
INVARIANTS
  NoPartialFileLeft
  EachByteAckedOnce
  NeverBothWait
PROPERTY UploadEnds
CHECK_DEADLOCK FALSE
