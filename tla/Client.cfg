\* Two subscriptions, a queue of up to three messages; the client may be
\* stopped, after which nothing happens any more.
\* No deadlock check: the client may be stopped, or its queue bound reached.
SPECIFICATION FairSpec
CONSTANTS
  NumEvents = 2
  MaxQueue = 3
  None = None
  MayStop = TRUE
INVARIANTS
  NothingBeforeAuth
  QueuedIsWritten
PROPERTY LostIsNoticed
CHECK_DEADLOCK FALSE
