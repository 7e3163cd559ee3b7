----------------------------- MODULE RedisQueue -----------------------------
(***************************************************************************)
(* lib/ipc_redisq.js: the queue driver that keeps waiting messages in one   *)
(* Redis sorted set and the messages being processed in a second one (the  *)
(* shadow queue, its name ends in #), driven by the poller loop of         *)
(* lib/ipc_client.js in every worker and by the monitor in the master.     *)
(*                                                                         *)
(* The members of a sorted set are the serialized messages, so a message   *)
(* is identified by its body.  A score is a time; it is kept here as an    *)
(* age (now - score), which lets the clock run for ever in a finite model: *)
(* ages stop counting at the visibility timeout, after which nothing tells *)
(* them apart.  A negative age is a score in the future.                   *)
(***************************************************************************)
EXTENDS Integers, FiniteSets

CONSTANTS
  Workers,            \* worker processes, each with one poller loop
  Msgs,               \* message bodies
  NoMsg,              \* no message
  VisibilityTimeout,  \* options.visibilityTimeout, in ticks
  KeepAliveInterval,  \* 0.8 * visibilityTimeout, in ticks
  Delay,              \* ticks a request to Redis may take in good times
  Interval,           \* options.interval: how early a message may be given
  MaxTimeout,         \* options.maxTimeout: how long to hide at most
  Stime,              \* Stime[m]: ticks from the start to the options.stime of m
  Expiring,           \* messages published with an options.etime
  Handles,            \* Handles[w]: the messages w has a listener for
  Overlap,            \* may a body be published while a copy is unfinished?
  MaxPublish,         \* bound: publications of one body
  MaxFaults           \* bound: crashes, lost replies and late timers

ASSUME MsgAssumption == NoMsg \notin Msgs
ASSUME TimeAssumption ==
  /\ VisibilityTimeout \in Nat /\ KeepAliveInterval \in Nat /\ Delay \in Nat
  /\ Interval \in Nat /\ MaxTimeout \in Nat \ {0} /\ Stime \in [Msgs -> Nat]
  /\ 2 * Delay + KeepAliveInterval < VisibilityTimeout
ASSUME BoundAssumption == MaxPublish \in Nat /\ MaxFaults \in Nat
ASSUME ExpiringAssumption == Expiring \subseteq Msgs
ASSUME HandlesAssumption == Handles \in [Workers -> SUBSET Msgs]
ASSUME OverlapAssumption == Overlap \in BOOLEAN

VARIABLES
  queue,    \* sorted set options.queue: member -> age of its score
  active,   \* sorted set options.queue#: member -> age of its score
  phase,    \* where each worker's poller loop is
  held,     \* the message in the hands of each worker
  clock,    \* ticks since the worker sent its request or set its timer
  due,      \* ticks until the stime of each body
  expired,  \* bodies whose etime has passed
  pubs,     \* how often each body was published
  faults,   \* faults so far
  late      \* has a timer or a reply ever been late, or a refresh failed?

redis == <<queue, active>>
loop == <<phase, held, clock>>
vars == <<queue, active, phase, held, clock, due, expired, pubs, faults, late>>

Phases == {"idle", "polling", "popped", "running", "unrefreshed", "acking",
           "rejected", "dead"}
Processing == {"running", "unrefreshed"}
Pending == DOMAIN queue \cup DOMAIN active
Held(m) == \E w \in Workers : held[w] = m

\* Redis sorted sets: zadd adds a member or moves it, zrem removes it.
ZAdd(z, m, age) == [x \in DOMAIN z \cup {m} |-> IF x = m THEN age ELSE z[x]]
ZRem(z, m) == [x \in DOMAIN z \ {m} |-> z[x]]
Oldest(z, m) == m \in DOMAIN z /\ \A x \in DOMAIN z : z[x] <= z[m]

Older(age) == IF age < VisibilityTimeout THEN age + 1 ELSE age
Aged(z) == [x \in DOMAIN z |-> Older(z[x])]

Init == /\ queue = [x \in {} |-> 0]
        /\ active = [x \in {} |-> 0]
        /\ phase = [w \in Workers |-> "idle"]
        /\ held = [w \in Workers |-> NoMsg]
        /\ clock = [w \in Workers |-> 0]
        /\ due = Stime
        /\ expired = {}
        /\ pubs = [m \in Msgs |-> 0]
        /\ faults = 0
        /\ late = FALSE

Move(w, p, m) == /\ phase' = [phase EXCEPT ![w] = p]
                 /\ held' = [held EXCEPT ![w] = m]
                 /\ clock' = [clock EXCEPT ![w] = 0]
\* schedulePoller: the loop will poll again.
SchedulePoller(w) == Move(w, "idle", NoMsg)

Fault == faults < MaxFaults /\ faults' = faults + 1

-----------------------------------------------------------------------------
(* Publishers, and the passing of time. *)

\* IpcRedisClient.publish: the body goes to the work queue with score now.
Publish(m) ==
  /\ pubs[m] < MaxPublish
  /\ Overlap \/ (m \notin Pending /\ ~Held(m))
  /\ pubs' = [pubs EXCEPT ![m] = @ + 1]
  /\ queue' = ZAdd(queue, m, 0)
  /\ UNCHANGED <<active, loop, due, expired, faults, late>>

\* The etime of a message passes.
Lapse(m) ==
  /\ m \in Expiring \ expired
  /\ expired' = expired \cup {m}
  /\ UNCHANGED <<redis, loop, due, pubs, faults, late>>

\* A worker whose reply or keepalive timer cannot wait one more tick.
Overdue(w) == \/ phase[w] \in {"polling", "popped", "acking", "rejected"} /\ clock[w] >= Delay
              \/ phase[w] = "running" /\ clock[w] >= KeepAliveInterval

Advance ==
  /\ queue' = Aged(queue)
  /\ active' = Aged(active)
  /\ clock' = [w \in Workers |-> IF phase[w] \in {"idle", "dead"} THEN 0 ELSE Older(clock[w])]
  /\ due' = [m \in Msgs |-> IF due[m] > 0 THEN due[m] - 1 ELSE 0]
  /\ UNCHANGED <<phase, held, expired, pubs>>

Tick == /\ \A w \in Workers : ~Overdue(w)
        /\ Advance
        /\ UNCHANGED <<faults, late>>

\* A busy event loop or a slow network lets time pass over an overdue event.
LateTick == /\ \E w \in Workers : Overdue(w)
            /\ Advance
            /\ Fault
            /\ late' = TRUE

-----------------------------------------------------------------------------
(* The poller loop of a worker. *)

\* poller: read the clock and send the vpoller1 script.
Poll(w) ==
  /\ phase[w] = "idle"
  /\ Move(w, "polling", NoMsg)
  /\ UNCHANGED <<redis, due, expired, pubs, faults, late>>

\* vpoller1 finds the queue empty: wait for retryInterval.
PollEmpty(w) ==
  /\ phase[w] = "polling"
  /\ DOMAIN queue = {}
  /\ SchedulePoller(w)
  /\ UNCHANGED <<redis, due, expired, pubs, faults, late>>

\* vpoller1: the member with the lowest score moves to the shadow queue, with
\* the time at which the request was sent as its score.
Pop(w, m) ==
  /\ phase[w] = "polling"
  /\ Oldest(queue, m)
  /\ queue' = ZRem(queue, m)
  /\ active' = ZAdd(active, m, clock[w])
  /\ phase' = [phase EXCEPT ![w] = "popped"]
  /\ held' = [held EXCEPT ![w] = m]
  /\ UNCHANGED <<clock, due, expired, pubs, faults, late>>

\* The poll fails, before or after the script ran: the worker sees an error.
PollError(w) ==
  /\ phase[w] \in {"polling", "popped"}
  /\ Fault
  /\ SchedulePoller(w)
  /\ UNCHANGED <<redis, due, expired, pubs, late>>

\* Broken variants, each the mutant of the operator it is named after.
DropExpiredKept(w) ==      \* zrem is forgotten
  /\ phase[w] = "popped" /\ held[w] \in expired
  /\ SchedulePoller(w)
  /\ UNCHANGED <<redis, due, expired, pubs, faults, late>>
DropExpiredStops(w) ==     \* schedulePoller is forgotten
  /\ phase[w] = "popped" /\ held[w] \in expired
  /\ active' = ZRem(active, held[w])
  /\ UNCHANGED <<queue, loop, due, expired, pubs, faults, late>>
HideForUncapped(m) == due[m]

\* The reply: the message has expired and is dropped.
DropExpired(w) ==
  /\ phase[w] = "popped"
  /\ held[w] \in expired
  /\ active' = ZRem(active, held[w])
  /\ SchedulePoller(w)
  /\ UNCHANGED <<queue, due, expired, pubs, faults, late>>

TooEarly(m) == m \notin expired /\ due[m] > Interval
HideFor(m) == IF due[m] > MaxTimeout THEN MaxTimeout ELSE due[m]

\* The reply: it is too early, and the message stays in the shadow queue under
\* a score in the future, where the monitor will find it.
Hide(w) ==
  /\ phase[w] = "popped"
  /\ TooEarly(held[w])
  /\ active' = ZAdd(active, held[w], -HideFor(held[w]))
  /\ SchedulePoller(w)
  /\ UNCHANGED <<queue, due, expired, pubs, faults, late>>

Ready(m) == m \notin expired /\ due[m] <= Interval

\* The reply: emit finds a listener, which starts to process the message; the
\* keepalive timer was set just before.
Start(w) ==
  /\ phase[w] = "popped"
  /\ Ready(held[w])
  /\ held[w] \in Handles[w]
  /\ Move(w, "running", held[w])
  /\ UNCHANGED <<redis, due, expired, pubs, faults, late>>

\* The reply: emit finds no listener; vpoller2 puts the message back.
PutBack(w) ==
  /\ phase[w] = "popped"
  /\ Ready(held[w])
  /\ held[w] \notin Handles[w]
  /\ active' = ZRem(active, held[w])
  /\ queue' = ZAdd(queue, held[w], 0)
  /\ SchedulePoller(w)
  /\ UNCHANGED <<due, expired, pubs, faults, late>>

\* Mutant: the timer runs but does not refresh the score.
KeepAliveNoUpdate(w) ==
  /\ phase[w] = "running" /\ clock[w] >= KeepAliveInterval
  /\ clock' = [clock EXCEPT ![w] = 0]
  /\ UNCHANGED <<redis, phase, held, due, expired, pubs, faults, late>>

\* The interval timer refreshes the score of the message being processed.
KeepAlive(w) ==
  /\ phase[w] = "running"
  /\ clock[w] >= KeepAliveInterval
  /\ active' = ZAdd(active, held[w], 0)
  /\ clock' = [clock EXCEPT ![w] = 0]
  /\ UNCHANGED <<queue, phase, held, due, expired, pubs, faults, late>>

\* The refresh fails: the timer is cleared, and the handler goes on without it.
KeepAliveError(w) ==
  /\ phase[w] = "running"
  /\ clock[w] >= KeepAliveInterval
  /\ Fault
  /\ Move(w, "unrefreshed", held[w])
  /\ late' = TRUE
  /\ UNCHANGED <<redis, due, expired, pubs>>

\* next() without an error, or with one whose status is below 500: the timer
\* is cleared and zrem is sent.
Finish(w) ==
  /\ phase[w] \in Processing
  /\ Move(w, "acking", held[w])
  /\ UNCHANGED <<redis, due, expired, pubs, faults, late>>

\* next() with a status of 500 or more.  The callback reads this.client and
\* this.options, where this is not the client, and throws.  When a task called
\* it, the error handler of the task's domain finishes the task once more, with
\* the TypeError, and that second next() takes the path of an ordinary error.
Reject(w) ==
  /\ phase[w] \in Processing
  /\ Move(w, "rejected", held[w])
  /\ UNCHANGED <<redis, due, expired, pubs, faults, late>>

\* The same outside any task's domain (a job that isJob refuses): the worker dies.
RejectUncaught(w) ==
  /\ phase[w] \in Processing
  /\ Fault
  /\ Move(w, "dead", NoMsg)
  /\ UNCHANGED <<redis, due, expired, pubs, late>>

\* zrem is executed and its reply schedules the poller.
Ack(w) ==
  /\ phase[w] \in {"acking", "rejected"}
  /\ active' = ZRem(active, held[w])
  /\ SchedulePoller(w)
  /\ UNCHANGED <<queue, due, expired, pubs, faults, late>>

\* zrem fails: the error is logged and the poller goes on.
AckError(w) ==
  /\ phase[w] \in {"acking", "rejected"}
  /\ Fault
  /\ SchedulePoller(w)
  /\ UNCHANGED <<redis, due, expired, pubs, late>>

\* The worker process dies; the master forks another one.
Crash(w) ==
  /\ phase[w] # "dead"
  /\ Fault
  /\ Move(w, "dead", NoMsg)
  /\ UNCHANGED <<redis, due, expired, pubs, late>>

Restart(w) ==
  /\ phase[w] = "dead"
  /\ SchedulePoller(w)
  /\ UNCHANGED <<redis, due, expired, pubs, faults, late>>

Stale == {m \in DOMAIN active : active[m] >= VisibilityTimeout}

\* Mutant: the stale members are removed and never added to the work queue.
MonitorDrops ==
  /\ Stale # {}
  /\ active' = [m \in DOMAIN active \ Stale |-> active[m]]
  /\ UNCHANGED <<queue, loop, due, expired, pubs, faults, late>>

\* monitorQueue in the master: what was not refreshed for visibilityTimeout
\* returns to the work queue, ordered by a score of now - visibilityTimeout.
Monitor ==
  /\ Stale # {}
  /\ active' = [m \in DOMAIN active \ Stale |-> active[m]]
  /\ queue' = [m \in DOMAIN queue \cup Stale |->
                 IF m \in Stale THEN VisibilityTimeout ELSE queue[m]]
  /\ UNCHANGED <<loop, due, expired, pubs, faults, late>>

Progress(w) == \/ Poll(w) \/ PollEmpty(w) \/ (\E m \in Msgs : Pop(w, m))
               \/ DropExpired(w) \/ Hide(w) \/ Start(w) \/ PutBack(w)
               \/ KeepAlive(w) \/ Finish(w) \/ Reject(w) \/ Ack(w) \/ Restart(w)

Failure(w) == PollError(w) \/ RejectUncaught(w) \/ AckError(w) \/ Crash(w)

Next == \/ \E m \in Msgs : Publish(m) \/ Lapse(m)
        \/ Tick \/ LateTick \/ Monitor
        \/ \E w \in Workers : Progress(w) \/ Failure(w) \/ KeepAliveError(w)

Spec == Init /\ [][Next]_vars

\* Timers fire and replies arrive, a handler finishes, the monitor runs, time
\* passes.  A worker that has a listener for a waiting message is not always
\* beaten to it by workers that have none: the poll timers are independent.
Fairness == /\ WF_vars(Tick) /\ WF_vars(Monitor)
            /\ \A w \in Workers :
                 /\ WF_vars(Progress(w))
                 /\ WF_vars(Finish(w) \/ Reject(w))
                 /\ \A m \in Handles[w] : /\ SF_vars(Poll(w) /\ Oldest(queue, m))
                                          /\ SF_vars(Pop(w, m))

FairSpec == Spec /\ Fairness

-----------------------------------------------------------------------------
Ages == -MaxTimeout..VisibilityTimeout
SortedSets == UNION {[S -> Ages] : S \in SUBSET Msgs}

\* The type invariant.
TypeOK == /\ queue \in SortedSets
          /\ active \in SortedSets
          /\ phase \in [Workers -> Phases]
          /\ held \in [Workers -> Msgs \cup {NoMsg}]
          /\ clock \in [Workers -> 0..VisibilityTimeout]
          /\ due \in [Msgs -> Nat]
          /\ expired \subseteq Msgs
          /\ pubs \in [Msgs -> 0..MaxPublish]
          /\ faults \in 0..MaxFaults
          /\ late \in BOOLEAN

\* The visibility timeout and the keepalive at 0.8 of it do their work: as long
\* as no timer and no reply is late and no refresh fails, a message being
\* processed is leased (it is in the shadow queue, too young for the monitor,
\* and not in the work queue), and nobody else is processing it.
LeaseHeld ==
  ~late => \A w \in Workers : phase[w] = "running" =>
    /\ held[w] \in DOMAIN active /\ active[held[w]] < VisibilityTimeout
    /\ held[w] \notin DOMAIN queue
    /\ \A v \in Workers \ {w} : held[v] = held[w] => phase[v] # "running"

\* At-least-once delivery: whatever crashes, gets lost or comes late, a message
\* leaves the two sorted sets only through a worker that is through with it.
Queue == INSTANCE JobQueue WITH Consumers <- Workers, pending <- Pending,
                                holder <- held
ImplementsJobQueue == Queue!Spec

\* Every message that is waiting or in process is eventually confirmed,
\* dropped as expired, or given up by its handler.
EventuallyRetired == \A m \in Msgs : m \in Pending ~> m \notin Pending

\* Every path through the poller's callbacks schedules the next poll: no
\* worker stops taking messages.
PollerGoesOn == \A w \in Workers : []<>(phase[w] = "polling")
=============================================================================
