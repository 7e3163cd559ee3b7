\* One worker process after another, two queues and two faults of any kind.
CONSTANTS
  q1 = q1
  q2 = q2
  j1 = j1
  j2 = j2
  a = a
  b = b
  c = c
  Workers = {w1}
  Queues = {q1, q2}
  Jobs = {j1, j2}
  NoJob = NoJob
  Tasks = {a, b, c}
  QueueOf <- MCQueueOf
  Stages <- MCStages
  NoErrors = {j2}
  Endless = {}
  MaxFaults = 2
SPECIFICATION FairSpec
INVARIANTS
  StagesInOrder
  CancelledAreRunning
PROPERTIES
  RetiredWhenDone
  NoNewPolls
  EveryJobDone
CHECK_DEADLOCK FALSE
