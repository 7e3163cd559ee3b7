---------------------------- MODULE ServerCluster ----------------------------
(***************************************************************************)
(* The processes of a backend (lib/server.js) and the rolling restart of   *)
(* its web workers (lib/ipc.js, lib/api.js).  A parent process, the        *)
(* monitor or the master, starts the web server and starts it again when   *)
(* it dies.  The web server forks maxProcesses web workers and forks a     *)
(* new one for each that dies.  Both use server.respawn, which delays the  *)
(* start, and delays it longer when processes die in quick succession.     *)
(*                                                                         *)
(* When the server has died, the master kills what is left of its workers  *)
(* (SIGKILL).  The monitor only asks them to stop (SIGTERM), which one     *)
(* that hangs does not notice.  The pings that find a worker that hangs    *)
(* are only sent when ping-interval is configured, which it is not by      *)
(* default.  A run starts from either parent, with pings and without.      *)
(*                                                                         *)
(* Time passes in ticks.  crash.time is kept as an age, in which CrashInterval  *)
(* stands for every longer time and for "never".                           *)
(***************************************************************************)
EXTENDS Integers, Sequences, FiniteSets, SequencesExt

CONSTANTS MaxProcesses,  \* workers of the web server
          CrashCount,    \* crash.count, quick exits before the long delay, 0: never
          CrashInterval, \* crash.interval, what is quick
          CrashTimeout,  \* crash.timeout, the usual delay
          CrashDelay,    \* crash.delay, the long delay
          Faults,        \* bound: crashes and hangs
          Signals        \* bound: SIGUSR2 and SIGTERM sent by operators

ASSUME ClusterAssumption ==
    /\ MaxProcesses \in Nat /\ CrashCount \in Nat /\ CrashInterval \in Nat
    /\ CrashTimeout \in Nat /\ CrashDelay \in Nat /\ Faults \in Nat /\ Signals \in Nat
    /\ MaxProcesses > 0 /\ CrashTimeout <= CrashDelay

VARIABLES pings,      \* is ping-interval configured?
          parent,     \* "master", "monitor" or "gone"
          pcrash,     \* server.crash of the parent
          ptimer,     \* the parent's respawn timer, or None
          server,     \* "up", "exiting" or "down"
          unseen,     \* the exit of the server that the parent has not handled yet
          crash,      \* server.crash of the web server
          pending,    \* its respawn timers: the ticks left of each
          workers,    \* cluster.workers, in the order of their ids
          orphans,    \* hanging workers that have outlived their server
          restarting, \* length of ipc.restarting (see NextRestart)
          faults, signals,
          starts,     \* history: age of the last starts of the web server
          calm        \* history: a rolling restart began with all workers ready, and
                      \* nothing has exited, hung or been stopped since but by its order

procs == <<parent, pcrash, ptimer, server, unseen, orphans>>
cluster == <<crash, pending, workers, restarting>>
bounds == <<faults, signals>>
clusterVars == <<pings, procs, cluster, bounds, starts, calm>>

None == -1
Never == [age |-> CrashInterval, events |-> 0]
Worker == [st : {"starting", "ready", "closing", "aborting", "hung", "killed"}, old : BOOLEAN]
NewWorker == [st |-> "starting", old |-> FALSE]

(* How many starts the history keeps, and the least time they may take: either the long *)
(* delay is among them, or one server has run for longer than a quick one.              *)
Kept == CrashCount + 3
Larger(a, b) == IF a < b THEN b ELSE a
Smaller(a, b) == IF a < b THEN a ELSE b
Span == Smaller(CrashDelay, (CrashCount + 1) * CrashTimeout + Larger(CrashInterval, CrashTimeout))

(* Errors the properties must notice are written before the definition they replace. *)
RespawnUncounted(c) ==
    [delay |-> IF c.age < CrashInterval /\ c.events >= CrashCount THEN CrashDelay ELSE CrashTimeout,
     crash |-> [age |-> 0, events |-> 0]]
RespawnUnthrottled(c) ==
    [delay |-> CrashTimeout, crash |-> [age |-> 0, events |-> IF c.age < CrashInterval THEN c.events + 1 ELSE 0]]

(* server.respawn: the delay, and crash afterwards *)
Respawn(c) ==
    LET quick == c.age < CrashInterval
        throttled == quick /\ CrashCount > 0 /\ c.events >= CrashCount
    IN [delay |-> IF throttled THEN CrashDelay ELSE CrashTimeout,
        crash |-> [age |-> 0, events |-> IF quick /\ ~throttled THEN c.events + 1 ELSE 0]]

ClusterInit ==
    /\ pings \in BOOLEAN /\ parent \in {"master", "monitor"}
    /\ pcrash = Never /\ ptimer = None
    /\ server = "up" /\ unseen = FALSE /\ orphans = 0
    /\ crash = Never /\ pending = <<>>
    /\ workers = [i \in 1..MaxProcesses |-> NewWorker]
    /\ restarting = 0
    /\ faults = Faults /\ signals = Signals
    /\ starts = <<0>> /\ calm = FALSE

Asked(w) == [w EXCEPT !.st = CASE w.st = "starting" -> "aborting"
                               [] w.st = "ready"    -> "closing"
                               [] OTHER             -> w.st]

NextRestartAll(ws, n) ==
    IF n > 0
    THEN workers' = [i \in DOMAIN ws |-> Asked(ws[i])] /\ restarting' = 0
    ELSE workers' = ws /\ restarting' = n
NextRestartLast(ws, n) ==
    IF n > 0 /\ ws # <<>>
    THEN workers' = [ws EXCEPT ![Len(ws)] = Asked(@)] /\ restarting' = n - 1
    ELSE workers' = ws /\ restarting' = n

(***************************************************************************)
(* The second half of api:restart, shared with api:ready: one entry leaves *)
(* the list and one worker is told to restart.  Workers have no property   *)
(* pid, so the list holds undefined as often as there were workers, and    *)
(* the first worker matches, whether it was told before or not.            *)
(***************************************************************************)
NextRestart(ws, n) ==
    IF n > 0 /\ ws # <<>>
    THEN workers' = [ws EXCEPT ![1] = Asked(@)] /\ restarting' = n - 1
    ELSE workers' = ws /\ restarting' = n

(* SIGUSR2 sends api:restart. *)
Restart ==
    /\ server # "down" /\ signals > 0
    /\ signals' = signals - 1
    /\ IF restarting > 0
       THEN UNCHANGED <<workers, restarting, calm>>
       ELSE /\ NextRestart([i \in DOMAIN workers |-> [workers[i] EXCEPT !.old = TRUE]], Len(workers))
            /\ calm' = (server = "up" /\ Len(workers) = MaxProcesses
                        /\ \A i \in DOMAIN workers : workers[i].st = "ready")
    /\ UNCHANGED <<pings, procs, crash, pending, faults, starts>>

(* A worker has started and says api:ready; one that is being stopped may still say it. *)
Ready(i) ==
    /\ workers[i].st \in {"starting", "aborting"}
    /\ NextRestart([workers EXCEPT ![i].st = IF @ = "starting" THEN "ready" ELSE "closing"], restarting)
    /\ UNCHANGED <<pings, procs, crash, pending, bounds, starts, calm>>

(* The server has exited: its workers notice that the channel is gone, unless they hang. *)
ServerExits ==
    /\ server' = "down" /\ unseen' = TRUE
    /\ crash' = Never /\ pending' = <<>> /\ restarting' = 0
    /\ workers' = <<>>
    /\ orphans' = orphans + Cardinality({i \in DOMAIN workers : workers[i].st = "hung"})

(* cluster exit in startWeb *)
WorkerExits(i) ==
    LET left == RemoveAt(workers, i)
    IN IF server = "exiting"
       THEN IF left = <<>>
            THEN ServerExits
            ELSE workers' = left /\ UNCHANGED <<server, unseen, orphans, crash, pending, restarting>>
       ELSE LET r == Respawn(crash)
            IN /\ workers' = left
               /\ crash' = r.crash
               /\ pending' = Append(pending, r.delay)
               /\ UNCHANGED <<server, unseen, orphans, restarting>>

(* api.shutdown ends: connections and pools are closed, or time is up. *)
ShutdownDone(i) ==
    /\ workers[i].st \in {"closing", "aborting"}
    /\ WorkerExits(i)
    /\ UNCHANGED <<pings, parent, pcrash, ptimer, bounds, starts, calm>>

Crash(i) ==
    /\ faults > 0 /\ faults' = faults - 1
    /\ WorkerExits(i)
    /\ calm' = FALSE
    /\ UNCHANGED <<pings, parent, pcrash, ptimer, signals, starts>>

Hang(i) ==
    /\ faults > 0 /\ faults' = faults - 1
    /\ workers[i].st \notin {"hung", "killed"}
    /\ workers' = [workers EXCEPT ![i].st = "hung"]
    /\ calm' = FALSE
    /\ UNCHANGED <<pings, procs, crash, pending, restarting, signals, starts>>

PingKillForgotten(i) ==
    /\ pings /\ workers[i].st = "hung"
    /\ workers' = RemoveAt(workers, i)
    /\ UNCHANGED <<pings, procs, crash, pending, restarting, bounds, starts, calm>>

(* No ping from the worker for a long time: SIGTERM, then SIGKILL. *)
PingKill(i) ==
    /\ pings /\ workers[i].st = "hung"
    /\ WorkerExits(i)
    /\ UNCHANGED <<pings, parent, pcrash, ptimer, bounds, starts, calm>>

(***************************************************************************)
(* A worker that has started finds the port in use, by a worker of an      *)
(* earlier server that hangs: it kills all web workers and exits itself.   *)
(***************************************************************************)
PortInUse(i) ==
    /\ orphans > 0 /\ workers[i].st \in {"ready", "closing"}
    /\ orphans' = 0
    /\ workers' = [j \in DOMAIN workers |-> [workers[j] EXCEPT !.st = "killed"]]
    /\ calm' = FALSE
    /\ UNCHANGED <<pings, parent, pcrash, ptimer, server, unseen, crash, pending, restarting, bounds, starts>>

Killed(i) ==
    /\ workers[i].st = "killed"
    /\ WorkerExits(i)
    /\ UNCHANGED <<pings, parent, pcrash, ptimer, bounds, starts, calm>>

(* The timers that are due. *)
Due == {i \in DOMAIN pending : pending[i] = 0}

ForkRepeatedly ==
    /\ Due # {} /\ Len(workers) <= MaxProcesses
    /\ workers' = Append(workers, NewWorker)
    /\ UNCHANGED <<pings, procs, crash, pending, restarting, bounds, starts, calm>>

(* A respawn timer of the web server fires.  It is not cleared by a shutdown. *)
Fork ==
    /\ \E i \in Due : pending' = RemoveAt(pending, i)
    /\ workers' = Append(workers, NewWorker)
    /\ UNCHANGED <<pings, procs, crash, restarting, bounds, starts, calm>>

(* SIGTERM to the web server: the workers are told to stop. *)
TerminateWorkers ==
    /\ server' = "exiting"
    /\ workers' = [i \in DOMAIN workers |-> Asked(workers[i])]
    /\ calm' = FALSE

Terminate ==
    /\ server = "up" /\ signals > 0
    /\ signals' = signals - 1
    /\ TerminateWorkers
    /\ UNCHANGED <<pings, parent, pcrash, ptimer, unseen, orphans, crash, pending, restarting, faults, starts>>

(* SIGTERM to the parent: it exits and passes the signal on to its child. *)
TerminateParent ==
    /\ parent # "gone" /\ signals > 0
    /\ signals' = signals - 1
    /\ parent' = "gone" /\ ptimer' = None
    /\ IF server = "up" THEN TerminateWorkers ELSE UNCHANGED <<server, workers, calm>>
    /\ UNCHANGED <<pings, pcrash, unseen, orphans, crash, pending, restarting, faults, starts>>

HardExitWhenEmpty ==
    /\ server = "exiting" /\ workers = <<>>
    /\ ServerExits
    /\ UNCHANGED <<pings, parent, pcrash, ptimer, bounds, starts, calm>>

(* The timer of 30 seconds in the web server's onProcessTerminate. *)
HardExit ==
    /\ server = "exiting"
    /\ ServerExits
    /\ UNCHANGED <<pings, parent, pcrash, ptimer, bounds, starts, calm>>

ServerCrash ==
    /\ server # "down" /\ faults > 0
    /\ faults' = faults - 1
    /\ ServerExits
    /\ calm' = FALSE
    /\ UNCHANGED <<pings, parent, pcrash, ptimer, signals, starts>>

ServerExitSeenUnkilled ==
    /\ unseen /\ parent # "gone"
    /\ unseen' = FALSE
    /\ LET r == Respawn(pcrash) IN pcrash' = r.crash /\ ptimer' = r.delay
    /\ UNCHANGED <<pings, parent, server, orphans, cluster, bounds, starts, calm>>

(* exit in handleChildProcess and startProcess: killBackend, with SIGKILL or SIGTERM, then *)
(* respawn *)
ServerExitSeen ==
    /\ unseen /\ parent # "gone"
    /\ unseen' = FALSE
    /\ orphans' = IF parent = "master" THEN 0 ELSE orphans
    /\ LET r == Respawn(pcrash) IN pcrash' = r.crash /\ ptimer' = r.delay
    /\ UNCHANGED <<pings, parent, server, cluster, bounds, starts, calm>>

StartServer ==
    /\ ptimer = 0
    /\ ptimer' = None
    /\ server' = "up"
    /\ workers' = [i \in 1..MaxProcesses |-> NewWorker]
    /\ starts' = [m \in 1..Smaller(Len(starts) + 1, Kept) |-> IF m = 1 THEN 0 ELSE starts[m - 1]]
    /\ UNCHANGED <<pings, parent, pcrash, unseen, orphans, crash, pending, restarting, bounds, calm>>

Older(age, limit) == Smaller(age + 1, limit)

Tick ==
    /\ ptimer # 0 /\ Due = {}
    /\ ptimer' = IF ptimer = None THEN None ELSE ptimer - 1
    /\ pending' = [i \in DOMAIN pending |-> pending[i] - 1]
    /\ pcrash' = [pcrash EXCEPT !.age = Older(@, CrashInterval)]
    /\ crash' = [crash EXCEPT !.age = Older(@, CrashInterval)]
    /\ starts' = [i \in DOMAIN starts |-> Older(starts[i], Span)]
    /\ UNCHANGED <<pings, parent, server, unseen, orphans, workers, restarting, bounds, calm>>

Expected ==
    \/ \E i \in DOMAIN workers : Ready(i) \/ ShutdownDone(i) \/ PingKill(i) \/ Killed(i)
    \/ Fork \/ HardExit \/ ServerExitSeen \/ StartServer \/ Tick

ClusterNext ==
    \/ Expected
    \/ Restart \/ Terminate \/ TerminateParent \/ ServerCrash
    \/ \E i \in DOMAIN workers : Crash(i) \/ Hang(i) \/ PortInUse(i)

Fairness ==
    /\ WF_clusterVars(\E i \in DOMAIN workers : Ready(i))
    /\ WF_clusterVars(\E i \in DOMAIN workers : ShutdownDone(i))
    /\ WF_clusterVars(\E i \in DOMAIN workers : PingKill(i))
    /\ WF_clusterVars(\E i \in DOMAIN workers : Killed(i))
    /\ WF_clusterVars(Fork) /\ WF_clusterVars(HardExit)
    /\ WF_clusterVars(ServerExitSeen) /\ WF_clusterVars(StartServer) /\ WF_clusterVars(Tick)

ClusterSpec == ClusterInit /\ [][ClusterNext]_clusterVars /\ Fairness

-----------------------------------------------------------------------------
ReadyOnes == {i \in DOMAIN workers : workers[i].st = "ready"}

ClusterTypeOK ==
    /\ pings \in BOOLEAN
    /\ parent \in {"master", "monitor", "gone"} /\ server \in {"up", "exiting", "down"}
    /\ pcrash \in [age : 0..CrashInterval, events : Nat]
    /\ crash \in [age : 0..CrashInterval, events : Nat]
    /\ ptimer \in {None} \cup 0..CrashDelay
    /\ unseen \in BOOLEAN /\ calm \in BOOLEAN
    /\ pending \in Seq(0..CrashDelay)
    /\ workers \in Seq(Worker)
    /\ orphans \in Nat
    /\ restarting \in 0..MaxProcesses
    /\ faults \in 0..Faults /\ signals \in 0..Signals
    /\ starts \in Seq(0..Span)

(* For each worker that is gone exactly one new one is on its way, however exits, timers, *)
(* shutdowns and the throttle interleave: the server never has more than maxProcesses     *)
(* workers, nor fewer without a timer set (cluster exit, respawn).                        *)
Strength == server # "down" =>
    /\ Len(workers) + Len(pending) <= MaxProcesses
    /\ server = "up" => Len(workers) + Len(pending) = MaxProcesses

(* A server that crashes again and again is not started crash.count + 3 times within    *)
(* the long delay, or, if that is less, within the time that crash.count + 1 usual       *)
(* delays and one exit that is not quick take, with the timers of server.respawn.        *)
StartsAreThrottled == CrashCount > 0 /\ Len(starts) = Kept => starts[Kept] = Span

(* The rolling restart never has two workers out of service at a time, if none dies *)
(* by itself meanwhile (api:restart, api:ready).                                    *)
OneAtATime == calm => Cardinality(ReadyOnes) >= MaxProcesses - 1

(* A master does not start a new web server while workers of the last one may hold the *)
(* port (handleChildProcess).  A monitor does, when one of them hangs (startProcess).   *)
PortIsFree ==
    [][parent = "master" /\ server = "down" /\ server' = "up" => orphans = 0]_clusterVars

(* A worker that hangs and that nobody pings stays. *)
Stuck(i) == workers[i].st = "hung" /\ ~pings

(* Every worker that ran when the rolling restart was ordered is replaced, if none dies *)
(* by itself; and whatever dies, the restart comes to an end, so that the next order is *)
(* not ignored, unless a worker stays that hangs (the list in api:restart, api:ready).   *)
RestartReachesAll ==
    /\ calm ~> (~calm \/ \A i \in DOMAIN workers : ~workers[i].old)
    /\ (restarting > 0) ~> (restarting = 0 \/ \E i \in DOMAIN workers : Stuck(i))

(* A shutdown ends although timers may fork workers during it. *)
ShutdownEnds == /\ (server = "exiting") ~> (server = "down")
                /\ (parent = "gone") ~> [](server = "down")

(* Whatever crashed or hung, and whoever held the port, all processes run in the end,   *)
(* unless the parent was stopped; a worker that hangs takes its place for ever if pings *)
(* are not configured (respawn, killBackend, the pings of initServer).                  *)
BackToStrength ==
    <>[](parent = "gone" \/
         (server = "up" /\ Len(workers) = MaxProcesses
          /\ \A i \in DOMAIN workers : workers[i].st = "ready" \/ Stuck(i)))
=============================================================================
