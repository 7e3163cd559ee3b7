SPECIFICATION FairClientSpec
CONSTANTS
  Slots = {1, 2, 3}
  RetryCount = 2
  RetryOnError = TRUE
  MaxRedirects = 4
  MaxSize = 1
  Body = 2
  Breaks = 2
INVARIANT OneAnswerEach
PROPERTY EventuallyAnswered
CHECK_DEADLOCK FALSE
