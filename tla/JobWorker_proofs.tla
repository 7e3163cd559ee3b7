--------------------------- MODULE JobWorker_proofs ---------------------------
(***************************************************************************)
(* Proofs about the job workers, for any number of workers, queues, jobs,  *)
(* stages and faults: the type invariant, that the stages of a job run one *)
(* after the other, that a job leaves its queue only when it is done, and  *)
(* that no mark for cancellation outlives its task.                        *)
(***************************************************************************)
EXTENDS JobWorker, FiniteSetTheorems, TLAPS

LoopStates == {"off", "idle", "polling", "busy", "acking", "rejecting"}

loopVars == <<holder, loop, taskVars>>

\* The types of the state of the loops, and of the rest.
LoopTypes == /\ holder \in [Loops -> Jobs \cup {NoJob}]
             /\ loop \in [Loops -> LoopStates]
             /\ stage \in [Loops -> Nat] /\ count \in [Loops -> Int]
             /\ live \in [Loops -> SUBSET Tasks] /\ hung \in [Loops -> SUBSET Tasks]
             /\ finished \in [Loops -> SUBSET Tasks]

LeftTypes == /\ orphans \in [Workers -> [Tasks -> Nat]] /\ zombies \in [Workers -> SUBSET Tasks]
             /\ cancelled \in [Workers -> SUBSET Tasks]

ProcTypes == /\ process \in [Workers -> {"dead", "starting", "ready", "late"}]
             /\ polling \in [Workers -> BOOLEAN] /\ shutting \in [Workers -> BOOLEAN]
             /\ exiting \in [Workers -> BOOLEAN] /\ old \in [Workers -> BOOLEAN]

AgeType == age \in [Workers -> 0..2]

QueueTypes == pending \subseteq submitted /\ submitted \subseteq Jobs

\* Where a loop is and what it has in hand belong together.  The tasks of the
\* stages before have called back; those of this one have, or run, or hang.
LoopOK(l) ==
  /\ loop[l] \in {"busy", "acking", "rejecting"} => holder[l] \in Jobs
  /\ loop[l] # "busy" => live[l] = {} /\ hung[l] = {}
  /\ live[l] \cap hung[l] = {}
  /\ count[l] = Cardinality(live[l]) + Cardinality(hung[l])
  /\ loop[l] = "busy" =>
       /\ stage[l] \in DOMAIN Stages[holder[l]]
       /\ \A n \in 1 .. stage[l] - 1 : Stages[holder[l]][n] \subseteq finished[l]
       /\ Stages[holder[l]][stage[l]] \subseteq finished[l] \cup live[l] \cup hung[l]
       /\ live[l] \cup hung[l] \subseteq Stages[holder[l]][stage[l]]
  /\ loop[l] = "acking" => holder[l] \in NoErrors \/ TasksOf(holder[l]) \subseteq finished[l]

\* A process that has not subscribed has no loops.
StartOK == \A l \in Loops : process[Worker(l)] \in {"dead", "starting"} => loop[l] = "off"

LoopsOK == LoopTypes /\ \A l \in Loops : LoopOK(l)

-----------------------------------------------------------------------------
(* Sets of tasks, and loops. *)

LEMMA TaskSets ==
  ASSUME NEW S, S \subseteq Tasks
  PROVE  IsFiniteSet(S) /\ Cardinality(S) \in Nat /\ (Cardinality(S) = 0 <=> S = {})
BY StageAssumption, FS_Subset, FS_CardinalityType, FS_EmptySet

LEMMA OneTask ==
  ASSUME NEW S, S \subseteq Tasks, NEW t \in S
  PROVE  Cardinality(S \ {t}) = Cardinality(S) - 1
BY TaskSets, FS_RemoveElement

LEMMA LastTask ==
  ASSUME NEW S, S \subseteq Tasks, NEW t \in S, NEW R, R \subseteq Tasks,
         Cardinality(S) + Cardinality(R) = 1
  PROVE  S = {t} /\ R = {}
<1>1. Cardinality(S) \in Nat /\ Cardinality(R) \in Nat /\ Cardinality(S \ {t}) = Cardinality(S) - 1
  BY TaskSets, OneTask
<1>2. S \ {t} \subseteq Tasks /\ Cardinality(S \ {t}) \in Nat
  BY TaskSets
<1>3. Cardinality(R) = 0 /\ Cardinality(S \ {t}) = 0
  BY <1>1, <1>2
<1> QED BY <1>2, <1>3, TaskSets

LEMMA LoopWorker == \A l \in Loops : Worker(l) \in Workers /\ l \in LoopsOf(Worker(l))
BY DEF Loops, Worker, LoopsOf

LEMMA WorkerLoops == \A w \in Workers : \A l \in LoopsOf(w) : l \in Loops /\ Worker(l) = w
BY DEF Loops, Worker, LoopsOf

\* The tasks of a stage.
LEMMA StageType ==
  ASSUME NEW j \in Jobs, NEW n \in DOMAIN Stages[j]
  PROVE  n \in Nat /\ Stages[j][n] \in SUBSET Tasks
BY StageAssumption

LEMMA FirstStage ==
  ASSUME NEW j \in Jobs
  PROVE  1 \in DOMAIN Stages[j] /\ DOMAIN Stages[j] = 1 .. Len(Stages[j]) /\ Len(Stages[j]) \in Nat
BY StageAssumption

\* A step of one loop leaves the other loops as they are.
OthersStay(l) == \A k \in Loops : k # l =>
  /\ holder'[k] = holder[k] /\ loop'[k] = loop[k] /\ stage'[k] = stage[k] /\ count'[k] = count[k]
  /\ live'[k] = live[k] /\ hung'[k] = hung[k] /\ finished'[k] = finished[k]

LEMMA OneLoop ==
  ASSUME LoopsOK, LoopTypes', NEW l \in Loops, OthersStay(l), LoopOK(l)'
  PROVE  LoopsOK'
<1>1. ASSUME NEW k \in Loops, k # l PROVE LoopOK(k)'
  BY <1>1 DEF LoopsOK, LoopOK, OthersStay
<1> QED BY <1>1 DEF LoopsOK

LEMMA NoLoop ==
  ASSUME LoopsOK, UNCHANGED loopVars
  PROVE  LoopsOK'
BY DEF LoopsOK, LoopTypes, LoopOK, loopVars, taskVars

-----------------------------------------------------------------------------
(* The steps of the loops. *)

LEMMA InitLoops == Init => LoopsOK
<1> SUFFICES ASSUME Init PROVE LoopsOK
  OBVIOUS
<1>1. LoopTypes
  BY DEF Init, LoopTypes, LoopStates
<1>2. Cardinality({}) = 0
  BY FS_EmptySet
<1>3. ASSUME NEW l \in Loops PROVE LoopOK(l)
  BY <1>2 DEF Init, LoopOK
<1> QED BY <1>1, <1>3 DEF LoopsOK

\* All loops of a process end with it, or begin.
LEMMA DieLoops ==
  ASSUME LoopsOK, NEW w \in Workers, Die(w)
  PROVE  LoopsOK'
<1>1. LoopTypes'
  BY DEF Die, LoopsOK, LoopTypes, LoopStates
<1>2. Cardinality({}) = 0
  BY FS_EmptySet
<1>3. ASSUME NEW l \in Loops, l \in LoopsOf(w) PROVE LoopOK(l)'
  BY <1>2, <1>3 DEF Die, LoopOK, LoopsOK
<1>4. ASSUME NEW l \in Loops, l \notin LoopsOf(w) PROVE LoopOK(l)'
  BY <1>4 DEF Die, LoopOK, LoopsOK
<1> QED BY <1>1, <1>3, <1>4 DEF LoopsOK

LEMMA SubscribeLoops ==
  ASSUME LoopsOK, StartOK, NEW w \in Workers, Subscribe(w)
  PROVE  LoopsOK'
<1>1. LoopTypes'
  BY DEF Subscribe, LoopsOK, LoopTypes, LoopStates, queueVars, taskVars
<1>2. ASSUME NEW l \in Loops, l \in LoopsOf(w) PROVE LoopOK(l)'
  <2>1. loop[l] = "off"
    BY <1>2, WorkerLoops DEF Subscribe, StartOK
  <2> QED BY <1>2, <2>1 DEF Subscribe, LoopOK, LoopsOK, queueVars, taskVars
<1>3. ASSUME NEW l \in Loops, l \notin LoopsOf(w) PROVE LoopOK(l)'
  BY <1>3 DEF Subscribe, LoopOK, LoopsOK, queueVars, taskVars
<1> QED BY <1>1, <1>2, <1>3 DEF LoopsOK

LEMMA SchedulePollerState ==
  ASSUME NEW l \in Loops, SchedulePoller(l), LoopTypes
  PROVE  loop' \in [Loops -> LoopStates] /\ loop'[l] \in {"idle", "off"}
         /\ \A k \in Loops : k # l => loop'[k] = loop[k]
BY DEF SchedulePoller, LoopTypes, LoopStates

LEMMA PollLoops ==
  ASSUME LoopsOK, NEW l \in Loops, Poll(l) \/ Nothing(l)
  PROVE  LoopsOK'
<1>1. /\ UNCHANGED <<holder, stage, count, live, hung, finished>>
      /\ loop[l] \in {"idle", "polling"}
  BY DEF Poll, Nothing, queueVars, taskVars
<1>2. /\ loop' \in [Loops -> LoopStates] /\ loop'[l] \in {"idle", "off", "polling"}
      /\ \A k \in Loops : k # l => loop'[k] = loop[k]
  BY SchedulePollerState DEF Poll, Nothing, LoopsOK, LoopTypes, LoopStates
<1>3. LoopTypes'
  BY <1>1, <1>2 DEF LoopsOK, LoopTypes
<1>4. OthersStay(l)
  BY <1>1, <1>2 DEF OthersStay
<1>5. LoopOK(l)'
  BY <1>1, <1>2 DEF LoopsOK, LoopOK
<1> QED BY <1>3, <1>4, <1>5, OneLoop

LEMMA AckedLoops ==
  ASSUME LoopsOK, NEW l \in Loops, Acked(l)
  PROVE  LoopsOK'
<1>1. /\ UNCHANGED <<stage, count, live, hung, finished>>
      /\ loop[l] \in {"acking", "rejecting"}
      /\ holder' = [holder EXCEPT ![l] = NoJob]
  BY DEF Acked, Queue!Retire, Queue!Return, taskVars
<1>2. /\ loop' \in [Loops -> LoopStates] /\ loop'[l] \in {"idle", "off"}
      /\ \A k \in Loops : k # l => loop'[k] = loop[k]
  BY SchedulePollerState DEF Acked, LoopsOK
<1>3. LoopTypes'
  BY <1>1, <1>2 DEF LoopsOK, LoopTypes
<1>4. OthersStay(l)
  BY <1>1, <1>2 DEF OthersStay, LoopsOK, LoopTypes
<1>5. LoopOK(l)'
  BY <1>1, <1>2 DEF LoopsOK, LoopOK
<1> QED BY <1>3, <1>4, <1>5, OneLoop

LEMMA TakeLoops ==
  ASSUME LoopsOK, NEW l \in Loops, NEW j \in Jobs, Take(l, j)
  PROVE  LoopsOK'
<1>1. /\ holder' = [holder EXCEPT ![l] = j]
      /\ loop[l] = "polling" /\ loop' = [loop EXCEPT ![l] = "busy"]
      /\ stage' = [stage EXCEPT ![l] = 1]
      /\ count' = [count EXCEPT ![l] = Cardinality(Stages[j][1])]
      /\ live' = [live EXCEPT ![l] = Stages[j][1]]
      /\ finished' = [finished EXCEPT ![l] = {}]
      /\ UNCHANGED hung
  BY DEF Take, StartStage, Queue!Take
<1>2. 1 \in DOMAIN Stages[j] /\ Stages[j][1] \in SUBSET Tasks /\ Cardinality(Stages[j][1]) \in Nat
  BY FirstStage, StageType, TaskSets
<1>3. LoopTypes'
  BY <1>1, <1>2 DEF LoopsOK, LoopTypes, LoopStates
<1>4. OthersStay(l)
  BY <1>1 DEF OthersStay, LoopsOK, LoopTypes
<1>5. /\ holder'[l] = j /\ loop'[l] = "busy" /\ stage'[l] = 1
      /\ count'[l] = Cardinality(Stages[j][1]) /\ live'[l] = Stages[j][1] /\ hung'[l] = hung[l]
  BY <1>1 DEF LoopsOK, LoopTypes
<1>6. hung[l] = {}
  BY <1>1 DEF LoopsOK, LoopOK
<1>7. Cardinality({}) = 0
  BY FS_EmptySet
<1>8. LoopOK(l)'
  BY <1>2, <1>5, <1>6, <1>7 DEF LoopOK
<1> QED BY <1>3, <1>4, <1>8, OneLoop

\* What is known of a loop one of whose tasks calls back.
LEMMA Busy ==
  ASSUME LoopsOK, NEW l \in Loops, NEW t \in live[l]
  PROVE  /\ loop[l] = "busy" /\ holder[l] \in Jobs /\ t \in Tasks
         /\ stage[l] \in DOMAIN Stages[holder[l]] /\ stage[l] \in Nat
         /\ live[l] \subseteq Tasks /\ hung[l] \subseteq Tasks /\ finished[l] \subseteq Tasks
         /\ live[l] \cap hung[l] = {}
         /\ count[l] = Cardinality(live[l]) + Cardinality(hung[l])
BY DEF LoopsOK, LoopOK, LoopTypes

LEMMA FinishTaskLoops ==
  ASSUME LoopsOK, NEW l \in Loops, NEW t \in Tasks, FinishTask(l, t)
  PROVE  LoopsOK'
<1>1. /\ UNCHANGED <<holder, loop, stage, hung>>
      /\ t \in live[l]
      /\ count' = [count EXCEPT ![l] = @ - 1]
      /\ live' = [live EXCEPT ![l] = @ \ {t}]
      /\ finished' = [finished EXCEPT ![l] = @ \cup {t}]
  BY DEF FinishTask, TaskDone, queueVars
<1>2. LoopTypes'
  BY <1>1 DEF LoopsOK, LoopTypes
<1>3. OthersStay(l)
  BY <1>1 DEF OthersStay, LoopsOK, LoopTypes
<1>4. /\ live'[l] = live[l] \ {t} /\ finished'[l] = finished[l] \cup {t} /\ count'[l] = count[l] - 1
      /\ holder'[l] = holder[l] /\ loop'[l] = loop[l] /\ stage'[l] = stage[l] /\ hung'[l] = hung[l]
  BY <1>1 DEF LoopsOK, LoopTypes
<1>5. Cardinality(live[l] \ {t}) = Cardinality(live[l]) - 1 /\ Cardinality(live[l]) \in Nat
      /\ Cardinality(hung[l]) \in Nat
  BY <1>1, Busy, OneTask, TaskSets
<1>6. count'[l] = Cardinality(live'[l]) + Cardinality(hung'[l])
  <2>1. count[l] = Cardinality(live[l]) + Cardinality(hung[l])
    BY <1>1, Busy
  <2> QED BY <1>4, <1>5, <2>1
<1>a. /\ loop[l] = "busy" /\ holder[l] \in Jobs /\ stage[l] \in DOMAIN Stages[holder[l]]
      /\ live[l] \cap hung[l] = {}
  BY <1>1, Busy
<1>b. /\ \A n \in 1 .. stage[l] - 1 : Stages[holder[l]][n] \subseteq finished[l]
      /\ Stages[holder[l]][stage[l]] \subseteq finished[l] \cup live[l] \cup hung[l]
      /\ live[l] \cup hung[l] \subseteq Stages[holder[l]][stage[l]]
  BY <1>a DEF LoopsOK, LoopOK
<1>c. live'[l] \cap hung'[l] = {}
  BY <1>a, <1>4
<1>d. \A n \in 1 .. stage'[l] - 1 : Stages[holder'[l]][n] \subseteq finished'[l]
  BY <1>b, <1>4
<1>e. /\ Stages[holder'[l]][stage'[l]] \subseteq finished'[l] \cup live'[l] \cup hung'[l]
      /\ live'[l] \cup hung'[l] \subseteq Stages[holder'[l]][stage'[l]]
  BY <1>b, <1>4
<1>f. loop'[l] = "busy" /\ holder'[l] \in Jobs /\ stage'[l] \in DOMAIN Stages[holder'[l]]
  BY <1>a, <1>4
<1>7. LoopOK(l)'
  BY <1>6, <1>c, <1>d, <1>e, <1>f DEF LoopOK
<1> QED BY <1>2, <1>3, <1>7, OneLoop

\* The last task of a stage: it was the only one left, and its stage is done.
LEMMA StageDone ==
  ASSUME LoopsOK, NEW l \in Loops, NEW t \in live[l], count[l] = 1
  PROVE  /\ live[l] = {t} /\ hung[l] = {}
         /\ Stages[holder[l]][stage[l]] \subseteq finished[l] \cup {t}
<1>1. live[l] = {t} /\ hung[l] = {}
  BY Busy, LastTask
<1> QED BY <1>1, Busy DEF LoopsOK, LoopOK

LEMMA FinishStageLoops ==
  ASSUME LoopsOK, NEW l \in Loops, NEW t \in Tasks, FinishStage(l, t)
  PROVE  LoopsOK'
<1> DEFINE j == holder[l]
           n == stage[l] + 1
<1>1. /\ UNCHANGED <<holder, loop, hung>>
      /\ t \in live[l] /\ count[l] = 1 /\ stage[l] < Len(Stages[j])
      /\ stage' = [stage EXCEPT ![l] = n]
      /\ count' = [count EXCEPT ![l] = Cardinality(Stages[j][n])]
      /\ live' = [live EXCEPT ![l] = Stages[j][n]]
      /\ finished' = [finished EXCEPT ![l] = @ \cup {t}]
  BY DEF FinishStage, TaskDone, StartStage, queueVars
<1>2. /\ loop[l] = "busy" /\ j \in Jobs /\ stage[l] \in Nat
      /\ live[l] = {t} /\ hung[l] = {}
      /\ Stages[j][stage[l]] \subseteq finished[l] \cup {t}
  BY <1>1, Busy, StageDone
<1>3. n \in DOMAIN Stages[j]
  BY <1>1, <1>2, FirstStage
<1>4. n \in Nat /\ Stages[j][n] \in SUBSET Tasks /\ Cardinality(Stages[j][n]) \in Nat
  BY <1>2, <1>3, StageType, TaskSets
<1>5. \A m \in 1 .. stage[l] - 1 : Stages[j][m] \subseteq finished[l]
  BY <1>2 DEF LoopsOK, LoopOK
<1> HIDE DEF n
<1>6. LoopTypes'
  BY <1>1, <1>4 DEF LoopsOK, LoopTypes
<1>7. OthersStay(l)
  BY <1>1 DEF OthersStay, LoopsOK, LoopTypes
<1>8. /\ live'[l] = Stages[j][n] /\ finished'[l] = finished[l] \cup {t}
      /\ count'[l] = Cardinality(Stages[j][n]) /\ stage'[l] = n
      /\ holder'[l] = j /\ loop'[l] = loop[l] /\ hung'[l] = {}
  BY <1>1, <1>2 DEF LoopsOK, LoopTypes
<1>9. \A m \in 1 .. n - 1 : Stages[j][m] \subseteq finished'[l]
  BY <1>2, <1>5, <1>8 DEF n
<1>10. Cardinality({}) = 0
  BY FS_EmptySet
<1>11. LoopOK(l)'
  BY <1>2, <1>3, <1>4, <1>8, <1>9, <1>10 DEF LoopOK
<1> QED BY <1>6, <1>7, <1>11, OneLoop

\* A job that ends, done or not, has no tasks any more.
LEMMA EndJobLoops ==
  ASSUME LoopsOK, NEW l \in Loops, NEW s \in {"acking", "rejecting"}, NEW left,
         NEW t \in live[l],
         EndJob(l, s, left),
         UNCHANGED holder, hung' = [hung EXCEPT ![l] = {}], finished' \in [Loops -> SUBSET Tasks],
         \A k \in Loops : k # l => finished'[k] = finished[k],
         s = "acking" => holder[l] \in NoErrors \/ TasksOf(holder[l]) \subseteq finished'[l]
  PROVE  LoopsOK'
<1>1. /\ loop' = [loop EXCEPT ![l] = s] /\ stage' = [stage EXCEPT ![l] = 0]
      /\ count' = [count EXCEPT ![l] = 0] /\ live' = [live EXCEPT ![l] = {}]
  BY DEF EndJob
<1>2. LoopTypes'
  BY <1>1 DEF LoopsOK, LoopTypes, LoopStates
<1>3. OthersStay(l)
  BY <1>1 DEF OthersStay, LoopsOK, LoopTypes
<1>4. Cardinality({}) = 0
  BY FS_EmptySet
<1>5. /\ loop'[l] = s /\ count'[l] = 0 /\ live'[l] = {} /\ hung'[l] = {} /\ holder'[l] = holder[l]
  BY <1>1 DEF LoopsOK, LoopTypes
<1>6. holder[l] \in Jobs
  BY Busy
<1>7. LoopOK(l)'
  BY <1>4, <1>5, <1>6 DEF LoopOK, TasksOf
<1> QED BY <1>2, <1>3, <1>7, OneLoop

LEMMA FinishJobLoops ==
  ASSUME LoopsOK, NEW l \in Loops, NEW t \in Tasks, FinishJob(l, t)
  PROVE  LoopsOK'
<1> DEFINE j == holder[l]
<1>1. /\ UNCHANGED <<holder, hung>>
      /\ t \in live[l] /\ count[l] = 1 /\ stage[l] = Len(Stages[j])
      /\ finished' = [finished EXCEPT ![l] = @ \cup {t}]
      /\ EndJob(l, "acking", {})
  BY DEF FinishJob, TaskDone, queueVars
<1>2. /\ loop[l] = "busy" /\ j \in Jobs /\ stage[l] \in Nat /\ hung[l] = {}
      /\ Stages[j][stage[l]] \subseteq finished[l] \cup {t}
      /\ finished'[l] = finished[l] \cup {t}
  BY <1>1, Busy, StageDone DEF LoopsOK, LoopTypes
<1>3. \A m \in 1 .. stage[l] - 1 : Stages[j][m] \subseteq finished[l]
  BY <1>2 DEF LoopsOK, LoopOK
<1>4. \A m \in DOMAIN Stages[j] : Stages[j][m] \subseteq finished'[l]
  BY <1>1, <1>2, <1>3, FirstStage
<1>5. TasksOf(j) \subseteq finished'[l]
  BY <1>4 DEF TasksOf
<1>6. hung' = [hung EXCEPT ![l] = {}]
  BY <1>1, <1>2 DEF LoopsOK, LoopTypes
<1>7. finished' \in [Loops -> SUBSET Tasks] /\ \A k \in Loops : k # l => finished'[k] = finished[k]
  BY <1>1 DEF LoopsOK, LoopTypes
<1> QED BY <1>1, <1>5, <1>6, <1>7, EndJobLoops

LEMMA FailJobLoops ==
  ASSUME LoopsOK, NEW l \in Loops, NEW t \in Tasks, FailJob(l, t)
  PROVE  LoopsOK'
<1>1. /\ UNCHANGED <<holder, finished>> /\ hung' = [hung EXCEPT ![l] = {}]
      /\ t \in live[l] /\ holder[l] \in NoErrors
      /\ \E s \in {"acking", "rejecting"} : EndJob(l, s, live[l] \ {t})
  BY DEF FailJob, queueVars
<1>2. finished' \in [Loops -> SUBSET Tasks] /\ \A k \in Loops : k # l => finished'[k] = finished[k]
  BY <1>1 DEF LoopsOK, LoopTypes
<1> QED BY <1>1, <1>2, EndJobLoops

LEMMA HangLoops ==
  ASSUME LoopsOK, NEW l \in Loops, NEW t \in Tasks, Hang(l, t)
  PROVE  LoopsOK'
<1>1. /\ UNCHANGED <<holder, loop, stage, count, finished>> /\ t \in live[l]
      /\ live' = [live EXCEPT ![l] = @ \ {t}] /\ hung' = [hung EXCEPT ![l] = @ \cup {t}]
  BY DEF Hang, queueVars
<1>2. LoopTypes'
  BY <1>1 DEF LoopsOK, LoopTypes
<1>3. OthersStay(l)
  BY <1>1 DEF OthersStay, LoopsOK, LoopTypes
<1>4. /\ live'[l] = live[l] \ {t} /\ hung'[l] = hung[l] \cup {t} /\ count'[l] = count[l]
      /\ holder'[l] = holder[l] /\ loop'[l] = loop[l] /\ stage'[l] = stage[l]
      /\ finished'[l] = finished[l]
  BY <1>1 DEF LoopsOK, LoopTypes
<1>5. t \notin hung[l] /\ live[l] \subseteq Tasks /\ hung[l] \subseteq Tasks
      /\ count[l] = Cardinality(live[l]) + Cardinality(hung[l])
  BY <1>1, Busy
<1>6. Cardinality(live[l] \ {t}) = Cardinality(live[l]) - 1 /\ Cardinality(live[l]) \in Nat
      /\ Cardinality(hung[l]) \in Nat /\ IsFiniteSet(hung[l])
  BY <1>1, <1>5, OneTask, TaskSets
<1>7. Cardinality(hung[l] \cup {t}) = Cardinality(hung[l]) + 1
  BY <1>5, <1>6, FS_AddElement
<1>8. count'[l] = Cardinality(live'[l]) + Cardinality(hung'[l])
  BY <1>4, <1>5, <1>6, <1>7
<1>a. /\ loop[l] = "busy" /\ holder[l] \in Jobs /\ stage[l] \in DOMAIN Stages[holder[l]]
      /\ live[l] \cap hung[l] = {}
  BY <1>1, Busy
<1>b. /\ \A n \in 1 .. stage[l] - 1 : Stages[holder[l]][n] \subseteq finished[l]
      /\ Stages[holder[l]][stage[l]] \subseteq finished[l] \cup live[l] \cup hung[l]
      /\ live[l] \cup hung[l] \subseteq Stages[holder[l]][stage[l]]
  BY <1>a DEF LoopsOK, LoopOK
<1>c. live'[l] \cap hung'[l] = {}
  BY <1>a, <1>4
<1>d. \A n \in 1 .. stage'[l] - 1 : Stages[holder'[l]][n] \subseteq finished'[l]
  BY <1>b, <1>4
<1>e. live'[l] \cup hung'[l] = live[l] \cup hung[l]
  BY <1>1, <1>4
<1>f. /\ Stages[holder'[l]][stage'[l]] \subseteq finished'[l] \cup live'[l] \cup hung'[l]
      /\ live'[l] \cup hung'[l] \subseteq Stages[holder'[l]][stage'[l]]
  BY <1>b, <1>e, <1>4
<1>g. loop'[l] = "busy" /\ holder'[l] \in Jobs /\ stage'[l] \in DOMAIN Stages[holder'[l]]
  BY <1>a, <1>4
<1>9. LoopOK(l)'
  BY <1>8, <1>c, <1>d, <1>f, <1>g DEF LoopOK
<1> QED BY <1>2, <1>3, <1>9, OneLoop

LEMMA CheckLoops ==
  ASSUME LoopsOK, NEW w \in Workers,
         Fork(w) \/ Restart(w) \/ CheckTimes(w) \/ GrowOld(w) \/ Pass(w)
  PROVE  LoopsOK'
<1>1. UNCHANGED loopVars
  BY DEF Fork, Restart, CheckTimes, GrowOld, Pass, loopVars, queueVars, taskVars
<1> QED BY <1>1, NoLoop

LEMMA MarkLoops ==
  ASSUME LoopsOK, NEW w \in Workers, NEW t \in Tasks, Cancel(w, t) \/ FinishOrphan(w, t)
  PROVE  LoopsOK'
<1>1. UNCHANGED loopVars
  BY DEF Cancel, FinishOrphan, loopVars, queueVars, taskVars
<1> QED BY <1>1, NoLoop

LEMMA StepLoops ==
  ASSUME LoopsOK, StartOK, [Next]_vars
  PROVE  LoopsOK'
<1>1. ASSUME NEW j \in Jobs, Submit(j) PROVE LoopsOK'
  <2>1. UNCHANGED loopVars
    BY <1>1 DEF Submit, Queue!Publish, loopVars, taskVars
  <2> QED BY <2>1, NoLoop
<1>2. ASSUME NEW l \in Loops, Poll(l) \/ Nothing(l) PROVE LoopsOK'
  BY <1>2, PollLoops
<1>3. ASSUME NEW l \in Loops, NEW j \in Jobs, Take(l, j) PROVE LoopsOK'
  BY <1>3, TakeLoops
<1>4. ASSUME NEW l \in Loops, Acked(l) PROVE LoopsOK'
  BY <1>4, AckedLoops
<1>5. ASSUME NEW l \in Loops, NEW t \in Tasks, Finish(l, t) PROVE LoopsOK'
  BY <1>5, FinishTaskLoops, FinishStageLoops, FinishJobLoops DEF Finish
<1>6. ASSUME NEW l \in Loops, NEW t \in Tasks, FailJob(l, t) \/ Hang(l, t) PROVE LoopsOK'
  BY <1>6, FailJobLoops, HangLoops
<1>7. ASSUME NEW w \in Workers, Crash(w) \/ Exit(w) \/ HardExit(w) PROVE LoopsOK'
  BY <1>7, DieLoops DEF Crash, Exit, HardExit
<1>8. ASSUME NEW w \in Workers, Subscribe(w) PROVE LoopsOK'
  BY <1>8, SubscribeLoops
<1>9. ASSUME NEW w \in Workers,
             Fork(w) \/ Restart(w) \/ CheckTimes(w) \/ GrowOld(w) \/ Pass(w) PROVE LoopsOK'
  BY <1>9, CheckLoops
<1>10. ASSUME NEW w \in Workers, NEW t \in Tasks, Cancel(w, t) \/ FinishOrphan(w, t) PROVE LoopsOK'
  BY <1>10, MarkLoops
<1>11. CASE UNCHANGED vars
  BY <1>11, NoLoop DEF vars, loopVars, taskVars
<1> QED BY <1>1, <1>2, <1>3, <1>4, <1>5, <1>6, <1>7, <1>8, <1>9, <1>10, <1>11 DEF Next, Reply

-----------------------------------------------------------------------------
(* Processes. *)

LEMMA ShutdownTypes ==
  ASSUME ProcTypes, NEW w \in Workers, ShutdownWorker(w)
  PROVE  polling' \in [Workers -> BOOLEAN] /\ shutting' \in [Workers -> BOOLEAN]
BY DEF ProcTypes, ShutdownWorker

LEMMA ExitWorkerTypes ==
  ASSUME ProcTypes, NEW w \in Workers, ExitWorker(w)
  PROVE  /\ polling' \in [Workers -> BOOLEAN] /\ shutting' \in [Workers -> BOOLEAN]
         /\ exiting' \in [Workers -> BOOLEAN]
BY ShutdownTypes DEF ExitWorker, ProcTypes

LEMMA EndJobTypes ==
  ASSUME ProcTypes, NEW l \in Loops, NEW s, NEW left, EndJob(l, s, left)
  PROVE  /\ polling' \in [Workers -> BOOLEAN] /\ shutting' \in [Workers -> BOOLEAN]
         /\ exiting' \in [Workers -> BOOLEAN]
<1>1. ExitWorker(Worker(l)) \/ UNCHANGED <<polling, shutting, exiting>>
  BY DEF EndJob
<1> QED BY <1>1, LoopWorker, ExitWorkerTypes DEF ProcTypes

LEMMA StepProcs ==
  ASSUME ProcTypes, [Next]_vars
  PROVE  ProcTypes'
<1>1. ASSUME NEW j \in Jobs, Submit(j) PROVE ProcTypes'
  BY <1>1 DEF Submit, procVars, ProcTypes
<1>2. ASSUME NEW l \in Loops, Poll(l) \/ Nothing(l) \/ Acked(l) PROVE ProcTypes'
  BY <1>2 DEF Poll, Nothing, Acked, procVars, ProcTypes
<1>3. ASSUME NEW l \in Loops, NEW j \in Jobs, Take(l, j) PROVE ProcTypes'
  BY <1>3 DEF Take, procVars, ProcTypes
<1>4. ASSUME NEW l \in Loops, NEW t \in Tasks, FinishTask(l, t) \/ FinishStage(l, t) PROVE ProcTypes'
  BY <1>4 DEF FinishTask, FinishStage, TaskDone, ProcTypes
<1>5. ASSUME NEW l \in Loops, NEW t \in Tasks, FinishJob(l, t) \/ FailJob(l, t) PROVE ProcTypes'
  <2>1. UNCHANGED <<process, old>>
    BY <1>5 DEF FinishJob, FailJob, TaskDone
  <2>2. \E s, left : EndJob(l, s, left)
    BY <1>5 DEF FinishJob, FailJob
  <2> QED BY <2>1, <2>2, EndJobTypes DEF ProcTypes
<1>6. ASSUME NEW l \in Loops, NEW t \in Tasks, Hang(l, t) PROVE ProcTypes'
  BY <1>6 DEF Hang, procVars, ProcTypes
<1>7. ASSUME NEW w \in Workers, Crash(w) \/ Exit(w) \/ HardExit(w) PROVE ProcTypes'
  BY <1>7 DEF Crash, Exit, HardExit, Die, ProcTypes
<1>8. ASSUME NEW w \in Workers, Fork(w) \/ Subscribe(w) \/ GrowOld(w) PROVE ProcTypes'
  BY <1>8 DEF Fork, Subscribe, GrowOld, ProcTypes
<1>9. ASSUME NEW w \in Workers, Restart(w) \/ CheckTimes(w) PROVE ProcTypes'
  <2>1. UNCHANGED <<process, old>>
    BY <1>9 DEF Restart, CheckTimes
  <2>2. /\ polling' \in [Workers -> BOOLEAN] /\ shutting' \in [Workers -> BOOLEAN]
        /\ exiting' \in [Workers -> BOOLEAN]
    BY <1>9, ShutdownTypes, ExitWorkerTypes DEF Restart, CheckTimes, ProcTypes
  <2> QED BY <2>1, <2>2 DEF ProcTypes
<1>10. ASSUME NEW w \in Workers, Pass(w) PROVE ProcTypes'
  BY <1>10 DEF Pass, procVars, ProcTypes
<1>11. ASSUME NEW w \in Workers, NEW t \in Tasks, Cancel(w, t) \/ FinishOrphan(w, t) PROVE ProcTypes'
  BY <1>11 DEF Cancel, FinishOrphan, procVars, ProcTypes
<1>12. CASE UNCHANGED vars
  BY <1>12 DEF vars, ProcTypes
<1> QED BY <1>1, <1>2, <1>3, <1>4, <1>5, <1>6, <1>7, <1>8, <1>9, <1>10, <1>11, <1>12
        DEF Next, Reply, Finish

\* A loop that works belongs to a process that has subscribed.
LEMMA StartOneLoop ==
  ASSUME StartOK, process' = process, NEW l \in Loops, loop[l] # "off",
         \A k \in Loops : k # l => loop'[k] = loop[k]
  PROVE  StartOK'
BY DEF StartOK

LEMMA StepStart ==
  ASSUME LoopsOK, StartOK, ProcTypes, [Next]_vars
  PROVE  StartOK'
<1>1. ASSUME process' = process, loop' = loop PROVE StartOK'
  BY <1>1 DEF StartOK
<1>2. ASSUME NEW l \in Loops, Poll(l) \/ Nothing(l) \/ Acked(l) \/ \E j \in Jobs : Take(l, j) PROVE StartOK'
  <2>1. process' = process /\ loop[l] # "off"
    BY <1>2 DEF Poll, Nothing, Acked, Take, procVars
  <2>2. \A k \in Loops : k # l => loop'[k] = loop[k]
    BY <1>2 DEF Poll, Nothing, Acked, Take, SchedulePoller, LoopsOK, LoopTypes
  <2> QED BY <2>1, <2>2, StartOneLoop
<1>3. ASSUME NEW l \in Loops, NEW t \in Tasks, FinishJob(l, t) \/ FailJob(l, t) PROVE StartOK'
  <2>1. process' = process /\ loop[l] # "off"
    BY <1>3, Busy DEF FinishJob, FailJob, TaskDone
  <2>2. \E s, left : EndJob(l, s, left)
    BY <1>3 DEF FinishJob, FailJob
  <2>3. \A k \in Loops : k # l => loop'[k] = loop[k]
    BY <2>2 DEF EndJob, LoopsOK, LoopTypes
  <2> QED BY <2>1, <2>3, StartOneLoop
<1>4. ASSUME NEW w \in Workers, Crash(w) \/ Exit(w) \/ HardExit(w) PROVE StartOK'
  <2>1. Die(w)
    BY <1>4 DEF Crash, Exit, HardExit
  <2>2. ASSUME NEW l \in Loops, process'[Worker(l)] \in {"dead", "starting"} PROVE loop'[l] = "off"
    <3>1. CASE l \in LoopsOf(w)
      BY <2>1, <3>1 DEF Die
    <3>2. CASE l \notin LoopsOf(w)
      <4>1. Worker(l) # w
        BY <3>2, LoopWorker
      <4> QED BY <2>1, <2>2, <3>2, <4>1, LoopWorker DEF Die, StartOK, ProcTypes
    <3> QED BY <3>1, <3>2
  <2> QED BY <2>2 DEF StartOK
<1>5. ASSUME NEW w \in Workers, Subscribe(w) PROVE StartOK'
  <2>1. ASSUME NEW l \in Loops, process'[Worker(l)] \in {"dead", "starting"} PROVE loop'[l] = "off"
    <3>1. Worker(l) # w
      BY <1>5, <2>1 DEF Subscribe, ProcTypes
    <3>2. l \notin LoopsOf(w)
      BY <3>1, WorkerLoops
    <3> QED BY <1>5, <2>1, <3>1, <3>2, LoopWorker DEF Subscribe, StartOK, ProcTypes
  <2> QED BY <2>1 DEF StartOK
<1>6. ASSUME NEW w \in Workers, Fork(w) PROVE StartOK'
  BY <1>6, LoopWorker DEF Fork, StartOK, ProcTypes
<1>7. ASSUME NEW w \in Workers, Restart(w) \/ CheckTimes(w) \/ GrowOld(w) \/ Pass(w) PROVE StartOK'
  BY <1>1, <1>7 DEF Restart, CheckTimes, GrowOld, Pass, procVars
<1>8. ASSUME NEW w \in Workers, NEW t \in Tasks, Cancel(w, t) \/ FinishOrphan(w, t) PROVE StartOK'
  BY <1>1, <1>8 DEF Cancel, FinishOrphan, procVars
<1>9. ASSUME NEW j \in Jobs, Submit(j) PROVE StartOK'
  BY <1>1, <1>9 DEF Submit, procVars
<1>10. ASSUME NEW l \in Loops, NEW t \in Tasks, FinishTask(l, t) \/ FinishStage(l, t) \/ Hang(l, t)
       PROVE StartOK'
  BY <1>1, <1>10 DEF FinishTask, FinishStage, TaskDone, Hang, procVars
<1>11. CASE UNCHANGED vars
  BY <1>1, <1>11 DEF vars
<1> QED BY <1>2, <1>3, <1>4, <1>5, <1>6, <1>7, <1>8, <1>9, <1>10, <1>11 DEF Next, Reply, Finish

-----------------------------------------------------------------------------
(* Tasks whose job is over, marks, the clock and the queue. *)

LEMMA EndJobOrphans ==
  ASSUME LeftTypes, NEW l \in Loops, NEW s, NEW left, EndJob(l, s, left)
  PROVE  /\ orphans' \in [Workers -> [Tasks -> Nat]]
         /\ \A v \in Workers : \A t \in Tasks :
              orphans'[v][t] = IF v = Worker(l) /\ t \in left THEN orphans[v][t] + 1 ELSE orphans[v][t]
<1>1. orphans' = [orphans EXCEPT ![Worker(l)] = [t \in Tasks |-> IF t \in left THEN @[t] + 1 ELSE @[t]]]
  BY DEF EndJob
<1>2. orphans \in [Workers -> [Tasks -> Nat]] /\ Worker(l) \in Workers
  BY LoopWorker DEF LeftTypes
<1> QED BY <1>1, <1>2

LEMMA StepLeft ==
  ASSUME LoopsOK, LeftTypes, [Next]_vars
  PROVE  LeftTypes'
<1>1. ASSUME UNCHANGED leftVars, UNCHANGED cancelled PROVE LeftTypes'
  BY <1>1 DEF LeftTypes, leftVars
<1>2. ASSUME NEW j \in Jobs, Submit(j) PROVE LeftTypes'
  BY <1>1, <1>2 DEF Submit
<1>3. ASSUME NEW l \in Loops, Poll(l) \/ Nothing(l) \/ Acked(l) \/ \E j \in Jobs : Take(l, j) PROVE LeftTypes'
  BY <1>1, <1>3 DEF Poll, Nothing, Acked, Take
<1>4. ASSUME NEW l \in Loops, NEW t \in Tasks, FinishTask(l, t) \/ FinishStage(l, t) PROVE LeftTypes'
  <2>1. UNCHANGED leftVars /\ cancelled' = [cancelled EXCEPT ![Worker(l)] = @ \ {t}]
    BY <1>4 DEF FinishTask, FinishStage, TaskDone
  <2> QED BY <2>1 DEF LeftTypes, leftVars
<1>5. ASSUME NEW l \in Loops, NEW t \in Tasks, FinishJob(l, t) \/ FailJob(l, t) PROVE LeftTypes'
  <2>1. cancelled' = [cancelled EXCEPT ![Worker(l)] = @ \ {t}]
    BY <1>5 DEF FinishJob, FailJob, TaskDone
  <2>2. zombies' = zombies \/ zombies' = [zombies EXCEPT ![Worker(l)] = @ \cup hung[l]]
    BY <1>5 DEF FinishJob, FailJob
  <2>3. hung[l] \subseteq Tasks
    BY DEF LoopsOK, LoopTypes
  <2>4. zombies' \in [Workers -> SUBSET Tasks] /\ cancelled' \in [Workers -> SUBSET Tasks]
    BY <2>1, <2>2, <2>3 DEF LeftTypes
  <2>5. \E s, left : EndJob(l, s, left)
    BY <1>5 DEF FinishJob, FailJob
  <2> QED BY <2>4, <2>5, EndJobOrphans DEF LeftTypes
<1>6. ASSUME NEW l \in Loops, NEW t \in Tasks, Hang(l, t) PROVE LeftTypes'
  BY <1>1, <1>6 DEF Hang
<1>7. ASSUME NEW w \in Workers, Crash(w) \/ Exit(w) \/ HardExit(w) PROVE LeftTypes'
  <2>1. /\ orphans' = [orphans EXCEPT ![w] = [t \in Tasks |-> 0]]
        /\ zombies' = [zombies EXCEPT ![w] = {}] /\ cancelled' = [cancelled EXCEPT ![w] = {}]
    BY <1>7 DEF Crash, Exit, HardExit, Die
  <2>2. [t \in Tasks |-> 0] \in [Tasks -> Nat]
    OBVIOUS
  <2>3. orphans' \in [Workers -> [Tasks -> Nat]]
    BY <2>1, <2>2 DEF LeftTypes
  <2> QED BY <2>1, <2>3 DEF LeftTypes
<1>8. ASSUME NEW w \in Workers, Fork(w) \/ Subscribe(w) \/ GrowOld(w) \/ Restart(w) \/ CheckTimes(w) \/ Pass(w)
      PROVE  LeftTypes'
  BY <1>1, <1>8 DEF Fork, Subscribe, GrowOld, Restart, CheckTimes, Pass
<1>9. ASSUME NEW w \in Workers, NEW t \in Tasks, Cancel(w, t) PROVE LeftTypes'
  BY <1>9 DEF Cancel, LeftTypes, leftVars
<1>10. ASSUME NEW w \in Workers, NEW t \in Tasks, FinishOrphan(w, t) PROVE LeftTypes'
  BY <1>10 DEF FinishOrphan, LeftTypes
<1>11. CASE UNCHANGED vars
  BY <1>1, <1>11 DEF vars, leftVars
<1> QED BY <1>2, <1>3, <1>4, <1>5, <1>6, <1>7, <1>8, <1>9, <1>10, <1>11 DEF Next, Reply, Finish

LEMMA StepAge ==
  ASSUME AgeType, [Next]_vars
  PROVE  AgeType'
<1>1. ASSUME age' = age PROVE AgeType'
  BY <1>1 DEF AgeType
<1>2. ASSUME NEW w \in Workers, age' = [age EXCEPT ![w] = 0] PROVE AgeType'
  BY <1>2 DEF AgeType
<1>3. ASSUME NEW j \in Jobs, Submit(j) PROVE AgeType'
  BY <1>1, <1>3 DEF Submit
<1>4. ASSUME NEW l \in Loops, Poll(l) \/ Nothing(l) \/ Acked(l) PROVE AgeType'
  BY <1>1, <1>4 DEF Poll, Nothing, Acked
<1>5. ASSUME NEW l \in Loops, NEW j \in Jobs, Take(l, j) PROVE AgeType'
  BY <1>2, <1>5, LoopWorker DEF Take, StartStage
<1>6. ASSUME NEW l \in Loops, NEW t \in Tasks, Finish(l, t) \/ FailJob(l, t) PROVE AgeType'
  BY <1>2, <1>6, LoopWorker DEF Finish, FinishTask, FinishStage, FinishJob, FailJob, TaskDone
<1>7. ASSUME NEW l \in Loops, NEW t \in Tasks, Hang(l, t) PROVE AgeType'
  BY <1>1, <1>7 DEF Hang
<1>8. ASSUME NEW w \in Workers, Crash(w) \/ Exit(w) \/ HardExit(w) PROVE AgeType'
  BY <1>2, <1>8 DEF Crash, Exit, HardExit, Die
<1>9. ASSUME NEW w \in Workers, Fork(w) \/ Subscribe(w) \/ GrowOld(w) \/ Restart(w) \/ CheckTimes(w) PROVE AgeType'
  BY <1>1, <1>9 DEF Fork, Subscribe, GrowOld, Restart, CheckTimes
<1>10. ASSUME NEW w \in Workers, Pass(w) PROVE AgeType'
  BY <1>10 DEF Pass, AgeType
<1>11. ASSUME NEW w \in Workers, NEW t \in Tasks, Cancel(w, t) \/ FinishOrphan(w, t) PROVE AgeType'
  BY <1>1, <1>2, <1>11 DEF Cancel, FinishOrphan
<1>12. CASE UNCHANGED vars
  BY <1>1, <1>12 DEF vars
<1> QED BY <1>3, <1>4, <1>5, <1>6, <1>7, <1>8, <1>9, <1>10, <1>11, <1>12 DEF Next, Reply

\* What a loop holds was submitted.
QueueOK == /\ QueueTypes
           /\ \A l \in Loops : holder[l] \in submitted \cup {NoJob}

LEMMA StepQueue ==
  ASSUME LoopsOK, QueueOK, [Next]_vars
  PROVE  QueueOK'
<1>a. holder \in [Loops -> Jobs \cup {NoJob}]
  BY DEF LoopsOK, LoopTypes
<1>1. ASSUME UNCHANGED <<pending, holder, submitted>> PROVE QueueOK'
  BY <1>1 DEF QueueOK, QueueTypes
<1>2. ASSUME NEW j \in Jobs, Submit(j) PROVE QueueOK'
  BY <1>2 DEF Submit, Queue!Publish, QueueOK, QueueTypes
<1>3. ASSUME NEW l \in Loops, Poll(l) \/ Nothing(l) PROVE QueueOK'
  BY <1>1, <1>3 DEF Poll, Nothing, queueVars
<1>4. ASSUME NEW l \in Loops, NEW j \in Jobs, Take(l, j) PROVE QueueOK'
  BY <1>a, <1>4 DEF Take, Queue!Take, QueueOK, QueueTypes
<1>5. ASSUME NEW l \in Loops, Acked(l) PROVE QueueOK'
  BY <1>a, <1>5 DEF Acked, Queue!Retire, Queue!Return, QueueOK, QueueTypes
<1>6. ASSUME NEW l \in Loops, NEW t \in Tasks, Finish(l, t) \/ FailJob(l, t) \/ Hang(l, t) PROVE QueueOK'
  BY <1>1, <1>6 DEF Finish, FinishTask, FinishStage, FinishJob, FailJob, TaskDone, Hang, queueVars
<1>7. ASSUME NEW w \in Workers, Crash(w) \/ Exit(w) \/ HardExit(w) PROVE QueueOK'
  BY <1>7 DEF Crash, Exit, HardExit, Die, QueueOK, QueueTypes
<1>8. ASSUME NEW w \in Workers, Fork(w) \/ Subscribe(w) \/ GrowOld(w) \/ Restart(w) \/ CheckTimes(w) \/ Pass(w)
      PROVE  QueueOK'
  BY <1>1, <1>8 DEF Fork, Subscribe, GrowOld, Restart, CheckTimes, Pass, queueVars
<1>9. ASSUME NEW w \in Workers, NEW t \in Tasks, Cancel(w, t) \/ FinishOrphan(w, t) PROVE QueueOK'
  BY <1>1, <1>9 DEF Cancel, FinishOrphan, queueVars
<1>10. CASE UNCHANGED vars
  BY <1>1, <1>10 DEF vars
<1> QED BY <1>2, <1>3, <1>4, <1>5, <1>6, <1>7, <1>8, <1>9, <1>10 DEF Next, Reply

-----------------------------------------------------------------------------
(* The invariant, and the theorems that rest on it. *)

Inv == LoopsOK /\ StartOK /\ LeftTypes /\ ProcTypes /\ AgeType /\ QueueOK

LEMMA InvInit == Init => Inv
<1> SUFFICES ASSUME Init PROVE Inv
  OBVIOUS
<1>1. LoopsOK
  BY InitLoops
<1>2. StartOK
  BY DEF Init, StartOK
<1>3. LeftTypes /\ ProcTypes /\ AgeType
  BY DEF Init, LeftTypes, ProcTypes, AgeType
<1>4. QueueOK
  BY DEF Init, QueueOK, QueueTypes
<1> QED BY <1>1, <1>2, <1>3, <1>4 DEF Inv

LEMMA InvStep == Inv /\ [Next]_vars => Inv'
BY StepLoops, StepStart, StepLeft, StepProcs, StepAge, StepQueue DEF Inv

LEMMA Invariant == Spec => []Inv
BY InvInit, InvStep, PTL DEF Spec

\* The type invariant, with the counter of forEach: it is the number of tasks of
\* the stage that have not called back.
THEOREM TypeCorrect == Spec => []TypeOK
<1>1. Inv => TypeOK
  BY DEF Inv, LoopsOK, LoopTypes, LoopOK, LoopStates, LeftTypes, ProcTypes, AgeType, QueueOK, QueueTypes, TypeOK
<1> QED BY <1>1, Invariant, PTL

\* The stages of a job run one after the other, in every worker and for every job.
THEOREM StagesOrdered == Spec => []StagesInOrder
<1>1. Inv => StagesInOrder
  BY DEF Inv, LoopsOK, LoopOK, StagesInOrder
<1> QED BY <1>1, Invariant, PTL

\* A job leaves its queue only through a loop that is done with all its tasks, or
\* that was told to stop at an error.
THEOREM RetiredDone == Spec => RetiredWhenDone
<1> DEFINE Retired == \A j \in pending \ pending' :
                        \E l \in Loops : /\ holder[l] = j
                                         /\ j \in NoErrors \/ TasksOf(j) \subseteq finished[l]
<1>1. Inv /\ [Next]_vars => [Retired]_vars
  <2> SUFFICES ASSUME Inv, Next, NEW j \in pending \ pending'
               PROVE  \E l \in Loops : /\ holder[l] = j
                                       /\ j \in NoErrors \/ TasksOf(j) \subseteq finished[l]
    OBVIOUS
  <2>1. ASSUME NEW l \in Loops, Acked(l) PROVE holder[l] = j /\ loop[l] = "acking"
    BY <2>1 DEF Acked, Queue!Retire, Queue!Return
  <2>2. ASSUME NEW l \in Loops, Acked(l)
        PROVE  j \in NoErrors \/ TasksOf(j) \subseteq finished[l]
    BY <2>1, <2>2 DEF Inv, LoopsOK, LoopOK
  <2>3. ASSUME \A l \in Loops : ~Acked(l) PROVE FALSE
    <3>1. ASSUME NEW i \in Jobs, Submit(i) PROVE FALSE
      BY <3>1 DEF Submit, Queue!Publish
    <3>2. ASSUME NEW l \in Loops, Poll(l) \/ Nothing(l) \/ \E i \in Jobs : Take(l, i) PROVE FALSE
      BY <3>2 DEF Poll, Nothing, Take, Queue!Take, queueVars
    <3>3. ASSUME NEW l \in Loops, NEW t \in Tasks, Finish(l, t) \/ FailJob(l, t) \/ Hang(l, t) PROVE FALSE
      BY <3>3 DEF Finish, FinishTask, FinishStage, FinishJob, FailJob, TaskDone, Hang, queueVars
    <3>4. ASSUME NEW w \in Workers, Crash(w) \/ Exit(w) \/ HardExit(w) PROVE FALSE
      BY <3>4 DEF Crash, Exit, HardExit, Die
    <3>5. ASSUME NEW w \in Workers, Fork(w) \/ Subscribe(w) \/ GrowOld(w) \/ Restart(w) \/ CheckTimes(w) \/ Pass(w)
          PROVE  FALSE
      BY <3>5 DEF Fork, Subscribe, GrowOld, Restart, CheckTimes, Pass, queueVars
    <3>6. ASSUME NEW w \in Workers, NEW t \in Tasks, Cancel(w, t) \/ FinishOrphan(w, t) PROVE FALSE
      BY <3>6 DEF Cancel, FinishOrphan, queueVars
    <3> QED BY <2>3, <3>1, <3>2, <3>3, <3>4, <3>5, <3>6 DEF Next, Reply
  <2> QED BY <2>1, <2>2, <2>3
<1>2. Spec => [][Retired]_vars
  BY <1>1, Invariant, PTL DEF Spec
<1> QED BY <1>2 DEF RetiredWhenDone

-----------------------------------------------------------------------------
(* Marks for cancellation. *)

LEMMA RunningMember ==
  ASSUME NEW w \in Workers, NEW x
  PROVE  x \in Running(w) <=> \/ \E l \in LoopsOf(w) : x \in live[l] \cup hung[l]
                              \/ x \in Tasks /\ orphans[w][x] > 0
                              \/ x \in zombies[w]
<1> DEFINE InLoops == UNION {live[l] \cup hung[l] : l \in LoopsOf(w)}
           Orphaned == {t \in Tasks : orphans[w][t] > 0}
<1>1. x \in InLoops <=> \E l \in LoopsOf(w) : x \in live[l] \cup hung[l]
  OBVIOUS
<1>2. x \in Orphaned <=> x \in Tasks /\ orphans[w][x] > 0
  OBVIOUS
<1>3. Running(w) = InLoops \cup Orphaned \cup zombies[w]
  BY DEF Running
<1> HIDE DEF InLoops, Orphaned
<1> QED BY <1>1, <1>2, <1>3

LEMMA RunningMemberNext ==
  ASSUME NEW w \in Workers, NEW x
  PROVE  (x \in Running(w))' <=> \/ \E l \in LoopsOf(w) : x \in live'[l] \cup hung'[l]
                                 \/ x \in Tasks /\ orphans'[w][x] > 0
                                 \/ x \in zombies'[w]
<1> DEFINE InLoops == UNION {live'[l] \cup hung'[l] : l \in LoopsOf(w)}
           Orphaned == {t \in Tasks : orphans'[w][t] > 0}
<1>1. x \in InLoops <=> \E l \in LoopsOf(w) : x \in live'[l] \cup hung'[l]
  OBVIOUS
<1>2. x \in Orphaned <=> x \in Tasks /\ orphans'[w][x] > 0
  OBVIOUS
<1>3. Running(w)' = InLoops \cup Orphaned \cup zombies'[w]
  BY DEF Running, LoopsOf
<1> HIDE DEF InLoops, Orphaned
<1> QED BY <1>1, <1>2, <1>3

\* A task whose mark was not removed, and that ran, runs on.
RunsOn(w, x) == x \in Running(w) => (x \in Running(w))'

LEMMA SameRunning ==
  ASSUME UNCHANGED <<live, hung, orphans, zombies>>, NEW w \in Workers, NEW x
  PROVE  RunsOn(w, x)
BY DEF RunsOn, Running

\* A loop's tasks change: each that ran, but t, runs, hangs, or is left behind.
LEMMA LoopRuns ==
  ASSUME LoopsOK, LeftTypes, NEW l \in Loops, OthersStay(l), NEW w \in Workers, NEW x,
         \A v \in Workers : \A y \in Tasks : orphans[v][y] > 0 => orphans'[v][y] > 0,
         \A v \in Workers : zombies[v] \subseteq zombies'[v],
         x \in live[l] \cup hung[l] /\ w = Worker(l) =>
           \/ x \in live'[l] \cup hung'[l]
           \/ x \in Tasks /\ orphans'[w][x] > 0
           \/ x \in zombies'[w]
  PROVE  RunsOn(w, x)
<1> SUFFICES ASSUME x \in Running(w)
             PROVE  \/ \E k \in LoopsOf(w) : x \in live'[k] \cup hung'[k]
                    \/ x \in Tasks /\ orphans'[w][x] > 0
                    \/ x \in zombies'[w]
  BY RunningMemberNext DEF RunsOn
<1>1. CASE x \in Tasks /\ orphans[w][x] > 0
  BY <1>1
<1>2. CASE x \in zombies[w]
  BY <1>2
<1>3. ASSUME NEW k \in LoopsOf(w), x \in live[k] \cup hung[k], k # l
      PROVE  x \in live'[k] \cup hung'[k]
  BY <1>3, WorkerLoops DEF OthersStay
<1>4. ASSUME l \in LoopsOf(w), x \in live[l] \cup hung[l]
      PROVE  \/ \E k \in LoopsOf(w) : x \in live'[k] \cup hung'[k]
             \/ x \in Tasks /\ orphans'[w][x] > 0
             \/ x \in zombies'[w]
  BY <1>4, WorkerLoops
<1> QED BY <1>1, <1>2, <1>3, <1>4, RunningMember

LEMMA FinishRuns ==
  ASSUME LoopsOK, LeftTypes, NEW l \in Loops, NEW t \in Tasks, Finish(l, t),
         NEW w \in Workers, NEW x, w = Worker(l) => x # t
  PROVE  RunsOn(w, x)
<1>1. CASE FinishTask(l, t)
  <2>1. OthersStay(l) /\ live'[l] = live[l] \ {t} /\ hung'[l] = hung[l]
    BY <1>1 DEF FinishTask, TaskDone, OthersStay, LoopsOK, LoopTypes, queueVars
  <2>2. orphans' = orphans /\ zombies' = zombies
    BY <1>1 DEF FinishTask, leftVars
  <2> QED BY <2>1, <2>2, LoopRuns
<1>2. CASE FinishStage(l, t)
  <2>1. t \in live[l] /\ count[l] = 1
    BY <1>2 DEF FinishStage, TaskDone
  <2>2. OthersStay(l)
    BY <1>2 DEF FinishStage, StartStage, TaskDone, OthersStay, LoopsOK, LoopTypes, queueVars
  <2>3. orphans' = orphans /\ zombies' = zombies
    BY <1>2 DEF FinishStage, leftVars
  <2>4. live[l] = {t} /\ hung[l] = {}
    BY <2>1, StageDone
  <2> QED BY <2>2, <2>3, <2>4, LoopRuns
<1>3. CASE FinishJob(l, t)
  <2>1. t \in live[l] /\ count[l] = 1 /\ EndJob(l, "acking", {}) /\ zombies' = zombies
    BY <1>3 DEF FinishJob, TaskDone
  <2>2. OthersStay(l)
    BY <1>3 DEF FinishJob, EndJob, TaskDone, OthersStay, LoopsOK, LoopTypes, queueVars
  <2>3. \A v \in Workers : \A y \in Tasks : orphans'[v][y] = orphans[v][y]
    BY <2>1, EndJobOrphans
  <2>4. live[l] = {t} /\ hung[l] = {}
    BY <2>1, StageDone
  <2> QED BY <2>1, <2>2, <2>3, <2>4, LoopRuns
<1> QED BY <1>1, <1>2, <1>3 DEF Finish

LEMMA FailRuns ==
  ASSUME LoopsOK, LeftTypes, NEW l \in Loops, NEW t \in Tasks, FailJob(l, t),
         NEW w \in Workers, NEW x, w = Worker(l) => x # t
  PROVE  RunsOn(w, x)
<1>1. /\ \E s : EndJob(l, s, live[l] \ {t})
      /\ zombies' = [zombies EXCEPT ![Worker(l)] = @ \cup hung[l]]
  BY DEF FailJob
<1>2. OthersStay(l)
  BY DEF FailJob, EndJob, OthersStay, LoopsOK, LoopTypes, queueVars
<1>3. \A v \in Workers : \A y \in Tasks :
        orphans'[v][y] = IF v = Worker(l) /\ y \in live[l] \ {t} THEN orphans[v][y] + 1 ELSE orphans[v][y]
  BY <1>1, EndJobOrphans
<1>4. /\ \A v \in Workers : \A y \in Tasks : orphans[v][y] \in Nat
      /\ \A v \in Workers : \A y \in Tasks : orphans[v][y] > 0 => orphans'[v][y] > 0
  <2>1. \A v \in Workers : \A y \in Tasks : orphans[v][y] \in Nat
    BY DEF LeftTypes
  <2>2. ASSUME NEW v \in Workers, NEW y \in Tasks, orphans[v][y] > 0
        PROVE  orphans'[v][y] > 0
    <3>1. orphans'[v][y] = orphans[v][y] + 1 \/ orphans'[v][y] = orphans[v][y]
      BY <1>3
    <3> QED BY <2>1, <2>2, <3>1
  <2> QED BY <2>1, <2>2
<1>5. zombies'[Worker(l)] = zombies[Worker(l)] \cup hung[l] /\ \A v \in Workers : zombies[v] \subseteq zombies'[v]
  BY <1>1, LoopWorker DEF LeftTypes
<1>6. ASSUME x \in live[l], w = Worker(l) PROVE x \in Tasks /\ orphans'[w][x] > 0
  BY <1>3, <1>4, <1>6 DEF LoopsOK, LoopTypes
<1>7. ASSUME x \in hung[l], w = Worker(l) PROVE x \in zombies'[w]
  BY <1>5, <1>7
<1> QED BY <1>2, <1>4, <1>5, <1>6, <1>7, LoopRuns

LEMMA HangRuns ==
  ASSUME LoopsOK, LeftTypes, NEW l \in Loops, NEW t \in Tasks, Hang(l, t), NEW w \in Workers, NEW x
  PROVE  RunsOn(w, x)
<1>1. OthersStay(l) /\ live'[l] = live[l] \ {t} /\ hung'[l] = hung[l] \cup {t}
  BY DEF Hang, OthersStay, LoopsOK, LoopTypes, queueVars
<1>2. orphans' = orphans /\ zombies' = zombies
  BY DEF Hang, leftVars
<1> QED BY <1>1, <1>2, LoopRuns

LEMMA TakeRuns ==
  ASSUME LoopsOK, LeftTypes, NEW l \in Loops, NEW j \in Jobs, Take(l, j), NEW w \in Workers, NEW x
  PROVE  RunsOn(w, x)
<1>1. live[l] = {} /\ hung[l] = {}
  BY DEF Take, LoopsOK, LoopOK
<1>2. OthersStay(l)
  BY DEF Take, StartStage, Queue!Take, OthersStay, LoopsOK, LoopTypes
<1>3. orphans' = orphans /\ zombies' = zombies
  BY DEF Take, leftVars
<1> QED BY <1>1, <1>2, <1>3, LoopRuns

LEMMA OrphanRuns ==
  ASSUME LeftTypes, NEW w \in Workers, NEW t \in Tasks, FinishOrphan(w, t),
         NEW v \in Workers, NEW x, v = w => x # t
  PROVE  RunsOn(v, x)
<1>1. /\ orphans' = [orphans EXCEPT ![w][t] = @ - 1]
      /\ UNCHANGED <<live, hung, zombies>>
  BY DEF FinishOrphan, taskVars
<1>2. x \in Tasks => orphans'[v][x] = orphans[v][x]
  BY <1>1 DEF LeftTypes
<1> QED BY <1>1, <1>2, RunningMember, RunningMemberNext DEF RunsOn

LEMMA DieRuns ==
  ASSUME LeftTypes, NEW w \in Workers, Die(w), NEW v \in Workers, v # w, NEW x
  PROVE  RunsOn(v, x)
<1>1. \A l \in LoopsOf(v) : l \in Loops /\ l \notin LoopsOf(w)
  BY WorkerLoops
<1>2. \A l \in LoopsOf(v) : live'[l] = live[l] /\ hung'[l] = hung[l]
  BY <1>1 DEF Die
<1>3. orphans'[v] = orphans[v] /\ zombies'[v] = zombies[v]
  BY DEF Die, LeftTypes
<1> SUFFICES ASSUME x \in Running(v)
             PROVE  \/ \E k \in LoopsOf(v) : x \in live'[k] \cup hung'[k]
                    \/ x \in Tasks /\ orphans'[v][x] > 0
                    \/ x \in zombies'[v]
  BY RunningMemberNext DEF RunsOn
<1> QED BY <1>2, <1>3, RunningMember

\* A step of any other kind changes neither the marks nor what runs.
LEMMA StepCancelled ==
  ASSUME Inv, CancelledAreRunning, [Next]_vars
  PROVE  CancelledAreRunning'
<1>a. LoopsOK /\ LeftTypes
  BY DEF Inv
<1>b. cancelled \in [Workers -> SUBSET Tasks] /\ \A w \in Workers : cancelled[w] \subseteq Running(w)
  BY <1>a DEF LeftTypes, CancelledAreRunning
<1> SUFFICES ASSUME NEW v \in Workers, NEW x \in cancelled'[v]
             PROVE  (x \in Running(v))'
  BY DEF CancelledAreRunning
<1>1. ASSUME x \in cancelled[v], RunsOn(v, x) PROVE (x \in Running(v))'
  BY <1>b, <1>1 DEF RunsOn
<1>2. ASSUME UNCHANGED <<cancelled, live, hung, orphans, zombies>> PROVE (x \in Running(v))'
  BY <1>1, <1>2, SameRunning
<1>3. ASSUME NEW l \in Loops, NEW t \in Tasks, Finish(l, t) \/ FailJob(l, t) PROVE (x \in Running(v))'
  <2>1. cancelled' = [cancelled EXCEPT ![Worker(l)] = @ \ {t}]
    BY <1>3 DEF Finish, FinishTask, FinishStage, FinishJob, TaskDone, FailJob
  <2>2. x \in cancelled[v] /\ (v = Worker(l) => x # t)
    BY <1>b, <2>1
  <2> QED BY <1>a, <1>1, <1>3, <2>2, FinishRuns, FailRuns
<1>4. ASSUME NEW l \in Loops, NEW t \in Tasks, Hang(l, t) PROVE (x \in Running(v))'
  BY <1>a, <1>1, <1>4, HangRuns DEF Hang
<1>5. ASSUME NEW l \in Loops, NEW j \in Jobs, Take(l, j) PROVE (x \in Running(v))'
  BY <1>a, <1>1, <1>5, TakeRuns DEF Take
<1>6. ASSUME NEW w \in Workers, NEW t \in Tasks, FinishOrphan(w, t) PROVE (x \in Running(v))'
  <2>1. x \in cancelled[v] /\ (v = w => x # t)
    BY <1>b, <1>6 DEF FinishOrphan
  <2> QED BY <1>a, <1>1, <1>6, <2>1, OrphanRuns
<1>7. ASSUME NEW w \in Workers, NEW t \in Tasks, Cancel(w, t) PROVE (x \in Running(v))'
  <2>1. UNCHANGED <<live, hung, orphans, zombies>>
    BY <1>7 DEF Cancel, taskVars, leftVars
  <2>2. x \in Running(v)
    BY <1>b, <1>7 DEF Cancel
  <2> QED BY <2>1, <2>2, SameRunning DEF RunsOn
<1>8. ASSUME NEW w \in Workers, Crash(w) \/ Exit(w) \/ HardExit(w) PROVE (x \in Running(v))'
  <2>1. Die(w)
    BY <1>8 DEF Crash, Exit, HardExit
  <2>2. v # w /\ x \in cancelled[v]
    BY <1>b, <2>1 DEF Die
  <2> QED BY <1>a, <1>1, <2>1, <2>2, DieRuns
<1>9. ASSUME NEW w \in Workers, Fork(w) \/ Subscribe(w) \/ GrowOld(w) \/ Restart(w) \/ CheckTimes(w) \/ Pass(w)
      PROVE  (x \in Running(v))'
  BY <1>2, <1>9 DEF Fork, Subscribe, GrowOld, Restart, CheckTimes, Pass, taskVars, leftVars
<1>10. ASSUME NEW l \in Loops, Poll(l) \/ Nothing(l) \/ Acked(l) PROVE (x \in Running(v))'
  BY <1>2, <1>10 DEF Poll, Nothing, Acked, taskVars, leftVars
<1>11. ASSUME NEW j \in Jobs, Submit(j) PROVE (x \in Running(v))'
  BY <1>2, <1>11 DEF Submit, taskVars, leftVars
<1>12. CASE UNCHANGED vars
  BY <1>2, <1>12 DEF vars
<1> QED BY <1>3, <1>4, <1>5, <1>6, <1>7, <1>8, <1>9, <1>10, <1>11, <1>12 DEF Next, Reply

\* No mark for cancellation outlives its task, which would cancel a later task of
\* the same name before it starts.
THEOREM NoStaleMarks == Spec => []CancelledAreRunning
<1>1. Init => CancelledAreRunning
  BY DEF Init, CancelledAreRunning
<1>2. Inv /\ CancelledAreRunning /\ [Next]_vars => CancelledAreRunning'
  BY StepCancelled
<1> QED BY <1>1, <1>2, Invariant, PTL DEF Spec

-----------------------------------------------------------------------------
(* Polls during the shutdown. *)

\* A process that subscribed before its shutdown has no subscription left.
Unsubscribed == \A w \in Workers : shutting[w] /\ process[w] = "ready" => ~polling[w]

LEMMA ShutdownUnsubscribes ==
  ASSUME ProcTypes, Unsubscribed, process' = process, NEW w \in Workers,
         ShutdownWorker(w) \/ UNCHANGED <<polling, shutting>>
  PROVE  Unsubscribed'
BY DEF ShutdownWorker, ProcTypes, Unsubscribed

LEMMA StepUnsubscribed ==
  ASSUME ProcTypes, Unsubscribed, [Next]_vars
  PROVE  Unsubscribed'
<1>1. ASSUME UNCHANGED <<process, polling, shutting>> PROVE Unsubscribed'
  BY <1>1 DEF Unsubscribed
<1>2. ASSUME NEW l \in Loops, NEW t \in Tasks, FinishJob(l, t) \/ FailJob(l, t) PROVE Unsubscribed'
  <2>1. process' = process
    BY <1>2 DEF FinishJob, FailJob, TaskDone
  <2>2. ShutdownWorker(Worker(l)) \/ UNCHANGED <<polling, shutting>>
    BY <1>2 DEF FinishJob, FailJob, EndJob, ExitWorker
  <2> QED BY <2>1, <2>2, LoopWorker, ShutdownUnsubscribes
<1>3. ASSUME NEW w \in Workers, Restart(w) \/ CheckTimes(w) PROVE Unsubscribed'
  <2>1. process' = process /\ (ShutdownWorker(w) \/ UNCHANGED <<polling, shutting>>)
    BY <1>3 DEF Restart, CheckTimes, ExitWorker
  <2> QED BY <2>1, ShutdownUnsubscribes
<1>4. ASSUME NEW w \in Workers, Crash(w) \/ Exit(w) \/ HardExit(w) PROVE Unsubscribed'
  BY <1>4 DEF Crash, Exit, HardExit, Die, ProcTypes, Unsubscribed
<1>5. ASSUME NEW w \in Workers, Fork(w) \/ Subscribe(w) PROVE Unsubscribed'
  BY <1>5 DEF Fork, Subscribe, ProcTypes, Unsubscribed
<1>6. ASSUME NEW w \in Workers, GrowOld(w) \/ Pass(w) PROVE Unsubscribed'
  BY <1>1, <1>6 DEF GrowOld, Pass, procVars
<1>7. ASSUME NEW l \in Loops, Poll(l) \/ Nothing(l) \/ Acked(l) \/ \E j \in Jobs : Take(l, j)
      PROVE  Unsubscribed'
  BY <1>1, <1>7 DEF Poll, Nothing, Acked, Take, procVars
<1>8. ASSUME NEW l \in Loops, NEW t \in Tasks, FinishTask(l, t) \/ FinishStage(l, t) \/ Hang(l, t)
      PROVE  Unsubscribed'
  BY <1>1, <1>8 DEF FinishTask, FinishStage, TaskDone, Hang, procVars
<1>9. ASSUME NEW w \in Workers, NEW t \in Tasks, Cancel(w, t) \/ FinishOrphan(w, t) PROVE Unsubscribed'
  BY <1>1, <1>9 DEF Cancel, FinishOrphan, procVars
<1>10. ASSUME NEW j \in Jobs, Submit(j) PROVE Unsubscribed'
  BY <1>1, <1>10 DEF Submit, procVars
<1>11. CASE UNCHANGED vars
  BY <1>1, <1>11 DEF vars
<1> QED BY <1>2, <1>3, <1>4, <1>5, <1>6, <1>7, <1>8, <1>9, <1>10, <1>11 DEF Next, Reply, Finish

\* A loop is scheduled by schedulePoller, which looks at the subscription, or when
\* its process subscribes.
LEMMA ScheduledBy ==
  ASSUME LoopsOK, Next, NEW l \in Loops, loop'[l] = "idle", loop[l] # "idle"
  PROVE  polling[Worker(l)] \/ process[Worker(l)] = "starting"
<1>1. ASSUME loop' = loop PROVE FALSE
  BY <1>1
<1>2. ASSUME NEW k \in Loops, Nothing(k) \/ Acked(k) PROVE polling[Worker(l)]
  BY <1>2 DEF Nothing, Acked, SchedulePoller, LoopsOK, LoopTypes
<1>3. ASSUME NEW k \in Loops, Poll(k) \/ \E j \in Jobs : Take(k, j) PROVE FALSE
  BY <1>3 DEF Poll, Take, LoopsOK, LoopTypes
<1>4. ASSUME NEW k \in Loops, NEW t \in Tasks, FinishJob(k, t) \/ FailJob(k, t) PROVE FALSE
  BY <1>4 DEF FinishJob, FailJob, EndJob, LoopsOK, LoopTypes
<1>5. ASSUME NEW w \in Workers, Crash(w) \/ Exit(w) \/ HardExit(w) PROVE FALSE
  BY <1>5 DEF Crash, Exit, HardExit, Die
<1>6. ASSUME NEW w \in Workers, Subscribe(w) PROVE process[Worker(l)] = "starting"
  <2>1. l \in LoopsOf(w)
    BY <1>6 DEF Subscribe
  <2> QED BY <1>6, <2>1, WorkerLoops DEF Subscribe
<1>7. ASSUME NEW w \in Workers, Fork(w) \/ Restart(w) \/ CheckTimes(w) \/ GrowOld(w) \/ Pass(w) PROVE FALSE
  BY <1>1, <1>7 DEF Fork, Restart, CheckTimes, GrowOld, Pass
<1>8. ASSUME NEW k \in Loops, NEW t \in Tasks, FinishTask(k, t) \/ FinishStage(k, t) \/ Hang(k, t) PROVE FALSE
  BY <1>1, <1>8 DEF FinishTask, FinishStage, Hang
<1>9. ASSUME NEW w \in Workers, NEW t \in Tasks, Cancel(w, t) \/ FinishOrphan(w, t) PROVE FALSE
  BY <1>1, <1>9 DEF Cancel, FinishOrphan
<1>10. ASSUME NEW j \in Jobs, Submit(j) PROVE FALSE
  BY <1>1, <1>10 DEF Submit
<1> QED BY <1>2, <1>3, <1>4, <1>5, <1>6, <1>7, <1>8, <1>9, <1>10 DEF Next, Reply, Finish

\* After a worker's shutdown has begun its loops poll no more, whatever jobs, errors
\* and replies are still under way.
THEOREM NoPollsInShutdown == Spec => NoNewPolls
<1> DEFINE Quiet == \A l \in Loops :
                      shutting[Worker(l)] /\ process[Worker(l)] = "ready" /\ loop'[l] = "idle"
                        => loop[l] = "idle"
<1>1. Inv /\ Unsubscribed /\ [Next]_vars => [Quiet]_vars
  <2> SUFFICES ASSUME Inv, Unsubscribed, Next, NEW l \in Loops,
                      shutting[Worker(l)], process[Worker(l)] = "ready", loop'[l] = "idle",
                      loop[l] # "idle"
               PROVE  FALSE
    OBVIOUS
  <2>1. polling[Worker(l)]
    BY ScheduledBy DEF Inv
  <2> QED BY <2>1, LoopWorker DEF Unsubscribed
<1>2. Init => Unsubscribed
  BY DEF Init, Unsubscribed
<1>3. Inv /\ Unsubscribed /\ [Next]_vars => Unsubscribed'
  BY StepUnsubscribed DEF Inv
<1>4. Spec => [][Quiet]_vars
  BY <1>1, <1>2, <1>3, Invariant, PTL DEF Spec
<1> QED BY <1>4 DEF NoNewPolls
=============================================================================
