\* One coroutine reads; integers of 18 and 22 bits end inside a byte as 32 and
\* 64 do, and two bytes of size reach the limit of 140.
\* No deadlock check: what is sent ends.
SPECIFICATION Spec
CONSTANTS
  Narrow = 18
  Wide = 22
  Short = 9
  Slash = 47
  Colon = 58
  Star = 42
  Patterns <- PatternsOf
  Readers = {"run_loop"}
  Loop = "run_loop"
  Waits <- Subscribing
  MaxMessage = 140
  Conversations <- ConversationsOf
INVARIANTS
  DeliveredIsSent
  GivesUpForReason
  AnswerIsTaken
  ResolvedIsFor
CHECK_DEADLOCK FALSE
