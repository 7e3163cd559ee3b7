\* The second job is submitted over and over: a task of the first that hangs is never killed.
CONSTANTS
  q1 = q1
  q2 = q2
  j1 = j1
  j2 = j2
  a = a
  b = b
  c = c
  Workers = {w1}
  Queues = {q1, q2}
  Jobs = {j1, j2}
  NoJob = NoJob
  Tasks = {a, b, c}
  QueueOf <- MCQueueOf
  Stages <- MCStages
  NoErrors = {j2}
  Endless = {j2}
  MaxFaults = 1
SPECIFICATION FairSpec
PROPERTY
  HangingAreKilled
CHECK_DEADLOCK FALSE
