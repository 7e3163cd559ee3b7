---------------------------- MODULE MCJobWorker ----------------------------
(* Two jobs on two queues, which share a task: one of two stages, and one that
   its first error ends. *)
EXTENDS JobWorker

CONSTANTS q1, q2, j1, j2, a, b, c

MCQueueOf == [j \in Jobs |-> IF j = j1 THEN q1 ELSE q2]
MCStages == [j \in Jobs |-> IF j = j1 THEN <<{a, b}, {c}>> ELSE <<{a, c}>>]
=============================================================================
