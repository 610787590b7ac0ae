\* A call of the application waits for its answer while read_loop() reads.
\* No deadlock check: what is sent ends.
SPECIFICATION Spec
CONSTANTS
  Narrow = 18
  Wide = 22
  Short = 9
  Slash = 47
  Colon = 58
  Star = 42
  Patterns <- PatternsOf
  Readers <- Two
  Loop = "run_loop"
  Waits <- Calling
  MaxMessage = 140
  Conversations <- Talk
INVARIANTS
  AnswerIsTaken
CHECK_DEADLOCK FALSE
