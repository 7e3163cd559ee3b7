----------------------------- MODULE JobWorker -----------------------------
(***************************************************************************)
(* lib/jobs.js: the worker processes that take jobs from the queues and    *)
(* run their tasks, over the poller loops of lib/ipc_client.js.  The       *)
(* queues are those of JobQueue: a rejected job is returned, as the        *)
(* drivers promise.  While a loop holds a job no other loop is given it,   *)
(* which RedisQueue shows for a queue whose timers are not late.           *)
(*                                                                         *)
(* Stages[j] are the tasks of job j: the tasks of a stage run in parallel, *)
(* the stages one after the other.  A task calls back once, with an error  *)
(* or without one, or it hangs; one that does not hang calls back within   *)
(* the maximum run time.                                                   *)
(*                                                                         *)
(* Of the time since runTime only matters whether it exceeds the grace     *)
(* period of a shutdown (1) and the maximum run time (2): see age.         *)
(***************************************************************************)
EXTENDS Integers, Sequences, FiniteSets

CONSTANTS
  Workers,     \* slots for worker processes, which the master refills
  Queues,      \* jobs.workerQueue: the queues every worker subscribes to
  Jobs,        \* job specifications
  NoJob,       \* no job
  Tasks,       \* task names, module.method
  QueueOf,     \* QueueOf[j]: the queue job j is submitted to
  Stages,      \* Stages[j]: the sequence of the stages of j, sets of tasks
  NoErrors,    \* jobs with the property noerrors: their first error ends them
  Endless,     \* jobs that may be submitted any number of times
  MaxFaults    \* bound: crashes, hanging tasks, rejections, restarts, ends of life

ASSUME JobAssumption ==
  /\ NoJob \notin Jobs /\ QueueOf \in [Jobs -> Queues]
  /\ NoErrors \subseteq Jobs /\ Endless \subseteq Jobs
ASSUME StageAssumption ==
  /\ IsFiniteSet(Tasks)
  /\ Stages \in [Jobs -> Seq(SUBSET Tasks)]
  /\ \A j \in Jobs : Stages[j] # <<>> /\ \A n \in DOMAIN Stages[j] : Stages[j][n] # {}
ASSUME FaultAssumption == MaxFaults \in Nat

VARIABLES
  pending,    \* jobs the queues owe to somebody
  holder,     \* the job each loop has been given
  submitted,  \* jobs that have been submitted
  loop,       \* where each poller loop is
  stage,      \* the stage of its job each loop is in
  count,      \* forEach: the tasks of the stage that have not called back
  live,       \* the tasks of the stage that run
  hung,       \* the tasks of the stage that will never call back
  finished,   \* history: the tasks of the job that have called back
  orphans,    \* how many tasks of each name still run after their job ended
  zombies,    \* those that will never call back
  cancelled,  \* jobs.cancelled of each process
  process,    \* each worker process: dead, starting (not subscribed yet), ready,
              \* or late (it subscribed when it was already shutting down)
  polling,    \* the _polling flag of the queue clients of each process
  shutting,   \* does shutdownWorker wait to end the process?
  exiting,    \* has exitWorker set the timer that ends it in any case?
  old,        \* has the process lived longer than maxLifetime?
  age,        \* how long ago runTime is: 0, 1 or 2
  faults

Loops == Workers \X Queues
Queue == INSTANCE JobQueue WITH Consumers <- Loops, Msgs <- Jobs, NoMsg <- NoJob

queueVars == <<pending, holder>>
taskVars == <<stage, count, live, hung, finished>>
leftVars == <<orphans, zombies>>
procVars == <<process, polling, shutting, exiting, old>>
vars == <<pending, holder, submitted, loop, stage, count, live, hung, finished, orphans,
          zombies, cancelled, process, polling, shutting, exiting, old, age, faults>>

LoopsOf(w) == {w} \X Queues
Worker(l) == l[1]

\* jobs.running and jobs.jobs of a process.
Running(w) == (UNION {live[l] \cup hung[l] : l \in LoopsOf(w)})
              \cup {t \in Tasks : orphans[w][t] > 0} \cup zombies[w]
Working(w) == {l \in LoopsOf(w) : loop[l] = "busy"}

Init == /\ pending = {} /\ holder = [l \in Loops |-> NoJob] /\ submitted = {}
        /\ loop = [l \in Loops |-> "off"]
        /\ stage = [l \in Loops |-> 0]
        /\ count = [l \in Loops |-> 0]
        /\ live = [l \in Loops |-> {}]
        /\ hung = [l \in Loops |-> {}]
        /\ finished = [l \in Loops |-> {}]
        /\ orphans = [w \in Workers |-> [t \in Tasks |-> 0]]
        /\ zombies = [w \in Workers |-> {}]
        /\ cancelled = [w \in Workers |-> {}]
        /\ process = [w \in Workers |-> "starting"]
        /\ polling = [w \in Workers |-> FALSE]
        /\ shutting = [w \in Workers |-> FALSE]
        /\ exiting = [w \in Workers |-> FALSE]
        /\ old = [w \in Workers |-> FALSE]
        /\ age = [w \in Workers |-> 0]
        /\ faults = 0

Fault == faults < MaxFaults /\ faults' = faults + 1

\* submitJob: the job is published.
Submit(j) == /\ j \notin pending
             /\ j \in Endless \/ j \notin submitted
             /\ submitted' = submitted \cup {j}
             /\ Queue!Publish(j)
             /\ UNCHANGED <<loop, taskVars, leftVars, cancelled, procVars, age, faults>>

-----------------------------------------------------------------------------
(* The end of a worker process. *)

\* The process ends: its queues will hand out again what it held.
Die(w) == /\ process' = [process EXCEPT ![w] = "dead"]
          /\ holder' = [l \in Loops |-> IF l \in LoopsOf(w) THEN NoJob ELSE holder[l]]
          /\ loop' = [l \in Loops |-> IF l \in LoopsOf(w) THEN "off" ELSE loop[l]]
          /\ stage' = [l \in Loops |-> IF l \in LoopsOf(w) THEN 0 ELSE stage[l]]
          /\ count' = [l \in Loops |-> IF l \in LoopsOf(w) THEN 0 ELSE count[l]]
          /\ live' = [l \in Loops |-> IF l \in LoopsOf(w) THEN {} ELSE live[l]]
          /\ hung' = [l \in Loops |-> IF l \in LoopsOf(w) THEN {} ELSE hung[l]]
          /\ finished' = [l \in Loops |-> IF l \in LoopsOf(w) THEN {} ELSE finished[l]]
          /\ orphans' = [orphans EXCEPT ![w] = [t \in Tasks |-> 0]]
          /\ zombies' = [zombies EXCEPT ![w] = {}]
          /\ cancelled' = [cancelled EXCEPT ![w] = {}]
          /\ polling' = [polling EXCEPT ![w] = FALSE]
          /\ shutting' = [shutting EXCEPT ![w] = FALSE]
          /\ exiting' = [exiting EXCEPT ![w] = FALSE]
          /\ old' = [old EXCEPT ![w] = FALSE]
          /\ age' = [age EXCEPT ![w] = 0]
          /\ UNCHANGED <<pending, submitted>>

Crash(w) == process[w] # "dead" /\ Die(w) /\ Fault

\* The master's cluster exit handler starts another worker.
Fork(w) == /\ process[w] = "dead"
           /\ process' = [process EXCEPT ![w] = "starting"]
           /\ UNCHANGED <<queueVars, submitted, loop, taskVars, leftVars, cancelled,
                          polling, shutting, exiting, old, age, faults>>

\* shutdownWorker: unsubscribe from the queues and wait.  The listeners stay, as
\* their channel is read from the wrong this.
ShutdownWorker(w) == /\ polling' = [polling EXCEPT ![w] = FALSE]
                     /\ shutting' = [shutting EXCEPT ![w] = TRUE]

\* worker:restart: the master asks the process to make room for a new one.
Restart(w) == /\ process[w] # "dead"
              /\ ~shutting[w]
              /\ ShutdownWorker(w)
              /\ Fault
              /\ UNCHANGED <<queueVars, submitted, loop, taskVars, leftVars, cancelled,
                             process, exiting, old, age>>

\* exitWorker, once per process.
ExitWorker(w) == IF exiting[w] THEN UNCHANGED <<polling, shutting, exiting>>
                 ELSE /\ exiting' = [exiting EXCEPT ![w] = TRUE]
                      /\ ShutdownWorker(w)

\* Mutant of Overrun: the limit is taken in the wrong unit.
OverrunLate(w) == Running(w) # {} /\ age[w] > 2

\* checkTimes on its timer: a task runs for too long, or an idle worker is old.
Overrun(w) == Running(w) # {} /\ age[w] = 2
IdleAndOld(w) == Running(w) = {} /\ Working(w) = {} /\ old[w]
CheckTimes(w) == /\ process[w] # "dead"
                 /\ Overrun(w) \/ IdleAndOld(w)
                 /\ ~exiting[w]
                 /\ ExitWorker(w)
                 /\ UNCHANGED <<queueVars, submitted, loop, taskVars, leftVars, cancelled,
                                process, old, age, faults>>

\* shutdownWorker's interval: no task runs, or runTime is beyond the grace period.
Exit(w) == /\ shutting[w]
           /\ Running(w) = {} \/ age[w] > 0
           /\ Die(w)
           /\ UNCHANGED faults

\* The timer of exitWorker.
HardExit(w) == exiting[w] /\ Die(w) /\ UNCHANGED faults

-----------------------------------------------------------------------------
(* The poller loops, and the jobs they run. *)

\* initWorker's timer: subscribe to all queues; the loops are scheduled.
Subscribe(w) == /\ process[w] = "starting"
                /\ process' = [process EXCEPT ![w] = IF shutting[w] THEN "late" ELSE "ready"]
                /\ polling' = [polling EXCEPT ![w] = TRUE]
                /\ loop' = [l \in Loops |-> IF l \in LoopsOf(w) THEN "idle" ELSE loop[l]]
                /\ UNCHANGED <<queueVars, submitted, taskVars, leftVars, cancelled,
                               shutting, exiting, old, age, faults>>

\* Mutant of SchedulePoller: the flag is not looked at.
SchedulePollerAlways(l) == loop' = [loop EXCEPT ![l] = "idle"]

\* schedulePoller: does nothing once nobody is subscribed.
SchedulePoller(l) == loop' = [loop EXCEPT ![l] = IF polling[Worker(l)] THEN "idle" ELSE "off"]

\* poller: ask the queue.  A poll that was scheduled is not called off.
Poll(l) == /\ loop[l] = "idle"
           /\ loop' = [loop EXCEPT ![l] = "polling"]
           /\ UNCHANGED <<queueVars, submitted, taskVars, leftVars, cancelled, procVars, age, faults>>

Offered(l) == {j \in pending : QueueOf[j] = l[2] /\ \A k \in Loops : holder[k] # j}

Nothing(l) == /\ loop[l] = "polling"
              /\ Offered(l) = {}
              /\ SchedulePoller(l)
              /\ UNCHANGED <<queueVars, submitted, taskVars, leftVars, cancelled, procVars, age, faults>>

\* runTask for every task of a stage.
StartStage(l, j, n) == /\ stage' = [stage EXCEPT ![l] = n]
                       /\ count' = [count EXCEPT ![l] = Cardinality(Stages[j][n])]
                       /\ live' = [live EXCEPT ![l] = Stages[j][n]]
                       /\ age' = [age EXCEPT ![Worker(l)] = 0]

\* The queue's reply holds a job: runJob starts its first stage.
Take(l, j) == /\ loop[l] = "polling"
              /\ j \in Offered(l)
              /\ Queue!Take(l, j)
              /\ loop' = [loop EXCEPT ![l] = "busy"]
              /\ StartStage(l, j, 1)
              /\ finished' = [finished EXCEPT ![l] = {}]
              /\ UNCHANGED <<submitted, hung, leftVars, cancelled, procVars, faults>>

\* A running task is marked for cancellation, on a message of the master.
Cancel(w, t) == /\ t \in Running(w)
                /\ cancelled' = [cancelled EXCEPT ![w] = @ \cup {t}]
                /\ UNCHANGED <<queueVars, submitted, loop, taskVars, leftVars, procVars, age, faults>>

\* Mutant of TaskDone: the mark for cancellation stays.
TaskDoneMarked(l, t) == /\ t \in live[l]
                        /\ age' = [age EXCEPT ![Worker(l)] = 0]
                        /\ finished' = [finished EXCEPT ![l] = @ \cup {t}]
                        /\ UNCHANGED <<queueVars, submitted, hung, cancelled, process, old, faults>>

\* A task calls back (_finishTask).
TaskDone(l, t) == /\ t \in live[l]
                  /\ cancelled' = [cancelled EXCEPT ![Worker(l)] = @ \ {t}]
                  /\ age' = [age EXCEPT ![Worker(l)] = 0]
                  /\ finished' = [finished EXCEPT ![l] = @ \cup {t}]
                  /\ UNCHANGED <<queueVars, submitted, hung, process, old, faults>>

\* Mutant of FinishTask: it is not counted.
FinishTaskUncounted(l, t) == /\ count[l] > 1
                             /\ TaskDone(l, t)
                             /\ live' = [live EXCEPT ![l] = @ \ {t}]
                             /\ UNCHANGED <<count, loop, stage, leftVars, polling, shutting, exiting>>

\* Others of its stage have not called back yet.
FinishTask(l, t) == /\ count[l] > 1
                    /\ TaskDone(l, t)
                    /\ count' = [count EXCEPT ![l] = @ - 1]
                    /\ live' = [live EXCEPT ![l] = @ \ {t}]
                    /\ UNCHANGED <<loop, stage, leftVars, polling, shutting, exiting>>

\* Mutant of FinishStage: the first to call back starts the next stage.
FinishStageEarly(l, t) == /\ t \in live[l]
                          /\ stage[l] < Len(Stages[holder[l]])
                          /\ TaskDone(l, t)
                          /\ StartStage(l, holder[l], stage[l] + 1)
                          /\ UNCHANGED <<loop, leftVars, polling, shutting, exiting>>

\* It was the last of its stage, and there is another stage.
FinishStage(l, t) == /\ count[l] = 1
                     /\ stage[l] < Len(Stages[holder[l]])
                     /\ TaskDone(l, t)
                     /\ StartStage(l, holder[l], stage[l] + 1)
                     /\ UNCHANGED <<loop, leftVars, polling, shutting, exiting>>

\* next(err) and checkTimes at the end of a job, whose tasks in left run on.
EndJob(l, s, left) ==
  LET w == Worker(l)
      idle == Working(w) = {l} /\ left \cup hung[l] \cup zombies[w] = {}
              /\ \A t \in Tasks : orphans[w][t] = 0
  IN  /\ loop' = [loop EXCEPT ![l] = s]
      /\ stage' = [stage EXCEPT ![l] = 0]
      /\ count' = [count EXCEPT ![l] = 0]
      /\ live' = [live EXCEPT ![l] = {}]
      /\ orphans' = [orphans EXCEPT ![w] = [t \in Tasks |-> IF t \in left THEN @[t] + 1 ELSE @[t]]]
      /\ IF idle /\ old[w] THEN ExitWorker(w) ELSE UNCHANGED <<polling, shutting, exiting>>

\* Mutant of FinishJob: the job ends with its first stage.
FinishJobEarly(l, t) == /\ count[l] = 1
                        /\ TaskDone(l, t)
                        /\ EndJob(l, "acking", {})
                        /\ UNCHANGED zombies

\* It was the last of the last stage.
FinishJob(l, t) == /\ count[l] = 1
                   /\ stage[l] = Len(Stages[holder[l]])
                   /\ TaskDone(l, t)
                   /\ EndJob(l, "acking", {})
                   /\ UNCHANGED zombies

\* It reports an error, and the job has noerrors: the job ends at once, with the
\* error.  One with a status of 500 rejects the job.
FailJob(l, t) == /\ t \in live[l]
                 /\ holder[l] \in NoErrors
                 /\ cancelled' = [cancelled EXCEPT ![Worker(l)] = @ \ {t}]
                 /\ age' = [age EXCEPT ![Worker(l)] = 0]
                 /\ \/ EndJob(l, "acking", live[l] \ {t}) /\ UNCHANGED faults
                    \/ EndJob(l, "rejecting", live[l] \ {t}) /\ Fault
                 /\ zombies' = [zombies EXCEPT ![Worker(l)] = @ \cup hung[l]]
                 /\ hung' = [hung EXCEPT ![l] = {}]
                 /\ UNCHANGED <<queueVars, submitted, finished, process, old>>

\* A task whose job is over calls back; forEach ignores it.
FinishOrphan(w, t) ==
  /\ orphans[w][t] > 0
  /\ orphans' = [orphans EXCEPT ![w][t] = @ - 1]
  /\ cancelled' = [cancelled EXCEPT ![w] = @ \ {t}]
  /\ age' = [age EXCEPT ![w] = 0]
  /\ UNCHANGED <<queueVars, submitted, loop, taskVars, zombies, procVars, faults>>

\* The queue has removed the job, or keeps it after all.
Acked(l) ==
  /\ \/ loop[l] = "acking" /\ Queue!Retire(l)
     \/ loop[l] = "rejecting" /\ Queue!Return(l)
  /\ SchedulePoller(l)
  /\ UNCHANGED <<submitted, taskVars, leftVars, cancelled, procVars, age, faults>>

-----------------------------------------------------------------------------
(* What goes wrong, and the passing of time. *)

Hang(l, t) == /\ t \in live[l]
              /\ live' = [live EXCEPT ![l] = @ \ {t}]
              /\ hung' = [hung EXCEPT ![l] = @ \cup {t}]
              /\ Fault
              /\ UNCHANGED <<queueVars, submitted, loop, stage, count, finished, leftVars,
                             cancelled, procVars, age>>

GrowOld(w) == /\ process[w] # "dead"
              /\ ~old[w]
              /\ old' = [old EXCEPT ![w] = TRUE]
              /\ Fault
              /\ UNCHANGED <<queueVars, submitted, loop, taskVars, leftVars, cancelled,
                             process, polling, shutting, exiting, age>>

Hanging(w) == zombies[w] # {} \/ \E l \in LoopsOf(w) : hung[l] # {}

\* Only a hanging task lets runTime grow older than the maximum run time.
Pass(w) == /\ Running(w) # {}
           /\ age[w] = 0 \/ (age[w] = 1 /\ Hanging(w))
           /\ age' = [age EXCEPT ![w] = @ + 1]
           /\ UNCHANGED <<queueVars, submitted, loop, taskVars, leftVars, cancelled, procVars, faults>>

Finish(l, t) == FinishTask(l, t) \/ FinishStage(l, t) \/ FinishJob(l, t)
Reply(l) == Nothing(l) \/ \E j \in Jobs : Take(l, j)

Next == \/ \E j \in Jobs : Submit(j)
        \/ \E l \in Loops : \/ Poll(l) \/ Reply(l) \/ Acked(l)
                            \/ \E t \in Tasks : Finish(l, t) \/ FailJob(l, t) \/ Hang(l, t)
        \/ \E w \in Workers : \/ Crash(w) \/ Fork(w) \/ Restart(w) \/ CheckTimes(w)
                              \/ Exit(w) \/ HardExit(w) \/ Subscribe(w) \/ GrowOld(w) \/ Pass(w)
                              \/ \E t \in Tasks : Cancel(w, t) \/ FinishOrphan(w, t)

Spec == Init /\ [][Next]_vars

\* Callbacks, replies and timers of a process come in the end, time passes, and
\* the master restarts what has died.  Tasks that do not hang call back.
FairSpec ==
  /\ Spec
  /\ \A l \in Loops : /\ WF_vars(Poll(l)) /\ WF_vars(Reply(l)) /\ WF_vars(Acked(l))
                      /\ WF_vars(\E t \in Tasks : Finish(l, t))
  /\ \A w \in Workers : /\ WF_vars(Fork(w)) /\ WF_vars(Subscribe(w)) /\ WF_vars(CheckTimes(w))
                        /\ WF_vars(Exit(w)) /\ WF_vars(HardExit(w)) /\ WF_vars(Pass(w))
                        /\ WF_vars(\E t \in Tasks : FinishOrphan(w, t))

-----------------------------------------------------------------------------
\* The type invariant.
TypeOK ==
  /\ pending \subseteq submitted /\ submitted \subseteq Jobs
  /\ holder \in [Loops -> Jobs \cup {NoJob}]
  /\ loop \in [Loops -> {"off", "idle", "polling", "busy", "acking", "rejecting"}]
  /\ live \in [Loops -> SUBSET Tasks] /\ hung \in [Loops -> SUBSET Tasks]
  /\ finished \in [Loops -> SUBSET Tasks]
  /\ \A l \in Loops : /\ loop[l] = "busy" => stage[l] \in DOMAIN Stages[holder[l]]
                      /\ count[l] = Cardinality(live[l]) + Cardinality(hung[l])
  /\ orphans \in [Workers -> [Tasks -> Nat]] /\ zombies \in [Workers -> SUBSET Tasks]
  /\ cancelled \in [Workers -> SUBSET Tasks]
  /\ process \in [Workers -> {"dead", "starting", "ready", "late"}]
  /\ {polling, shutting, exiting, old} \subseteq [Workers -> BOOLEAN]
  /\ age \in [Workers -> 0..2]

TasksOf(j) == UNION {Stages[j][n] : n \in DOMAIN Stages[j]}

\* A job leaves its queue only after all its tasks have called back, in the run
\* of the loop that took it out; a job with noerrors may stop short.  Crashes,
\* restarts and the exits of old and stuck workers do not lose jobs.
RetiredWhenDone ==
  [][\A j \in pending \ pending' :
       \E l \in Loops : /\ holder[l] = j
                        /\ j \in NoErrors \/ TasksOf(j) \subseteq finished[l]]_vars

\* A stage starts when the one before it is over: no task runs before a task of
\* an earlier stage has called back, and none of an earlier stage runs on.
StagesInOrder ==
  \A l \in Loops : loop[l] = "busy" =>
    /\ \A n \in 1 .. stage[l] - 1 : Stages[holder[l]][n] \subseteq finished[l]
    /\ live[l] \cup hung[l] \subseteq Stages[holder[l]][stage[l]]

\* A mark for cancellation does not outlive the task: a later run of a task of
\* the same name is not cancelled before it starts.
CancelledAreRunning == \A w \in Workers : cancelled[w] \subseteq Running(w)

\* Once a process that had subscribed before waits for its end, no loop is
\* scheduled again: each takes at most the job of the poll that was under way.
NoNewPolls ==
  [][\A l \in Loops :
       shutting[Worker(l)] /\ process[Worker(l)] = "ready" /\ loop'[l] = "idle"
         => loop[l] = "idle"]_vars

\* A submitted job is done in the end, whatever becomes of the workers.
EveryJobDone == \A j \in Jobs : j \in pending ~> j \notin pending

\* jobs-max-runtime, "Max number of seconds a job can run before being killed":
\* a process with a hanging task comes to its end.
HangingAreKilled == \A w \in Workers : Hanging(w) ~> ~Hanging(w)
=============================================================================
