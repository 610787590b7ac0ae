\* With and without a timeout; more stdin than the pipe holds, output that
\* fills the pipes more than once.
\* No deadlock check: exec() returns, or blocks.
SPECIFICATION FairSpec
CONSTANTS
  Stdin = 3
  PipeSize = 2
  MaxOutput = 3
INVARIANTS
  OutputIsComplete
PROPERTY LoopReturns
CHECK_DEADLOCK FALSE
