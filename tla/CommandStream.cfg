\* Up to two messages of input, with a timeout; ends with the session.
\* No deadlock check: the session ends.
SPECIFICATION FairSpec
CONSTANTS
  MaxInput = 2
  HasTimeout = TRUE
INVARIANTS
  InputIsWritten
PROPERTIES
  ExitFrameIsLast
  SessionIsReleased
CHECK_DEADLOCK FALSE
