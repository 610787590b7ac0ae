\* Two directories and three requests, two of them at a time.
\* No deadlock check: every request is used once.
SPECIFICATION FsSpec
CONSTANTS
  r1 = r1
  r2 = r2
  r3 = r3
  None = None
  Directory = Directory
  Paths <- SmallPaths
  Requests <- ThreeRequests
  Asked <- SmallAsked
  MaxBlocks = 2
  Workers = 2
SYMMETRY Symmetry
INVARIANTS
  ReadIsWhole
PROPERTIES
  AnswersAreTrue
  SafeCreate
CHECK_DEADLOCK FALSE
