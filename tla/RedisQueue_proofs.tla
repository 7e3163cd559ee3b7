-------------------------- MODULE RedisQueue_proofs --------------------------
(***************************************************************************)
(* Proofs about the Redis queue, for any workers, messages and timings:    *)
(* its type invariant, that it implements JobQueue (at-least-once          *)
(* delivery), that no message leaves it except through its consumer, and   *)
(* that a lease holds as long as nothing is late.                          *)
(***************************************************************************)
EXTENDS RedisQueue, TLAPS

\* Membership in SortedSets, in terms of domain and values.
LEMMA SortedSetsDef ==
  ASSUME NEW z
  PROVE  z \in SortedSets <=>
           /\ z = [x \in DOMAIN z |-> z[x]]
           /\ DOMAIN z \subseteq Msgs
           /\ \A x \in DOMAIN z : z[x] \in Ages
<1>1. ASSUME z \in SortedSets
      PROVE  /\ z = [x \in DOMAIN z |-> z[x]]
             /\ DOMAIN z \subseteq Msgs
             /\ \A x \in DOMAIN z : z[x] \in Ages
  <2>1. PICK S \in SUBSET Msgs : z \in [S -> Ages]
    BY <1>1 DEF SortedSets
  <2> QED BY <2>1
<1>2. ASSUME z = [x \in DOMAIN z |-> z[x]], DOMAIN z \subseteq Msgs,
             \A x \in DOMAIN z : z[x] \in Ages
      PROVE  z \in SortedSets
  <2>1. z \in [DOMAIN z -> Ages]
    BY <1>2
  <2> QED BY <1>2, <2>1 DEF SortedSets
<1> QED BY <1>1, <1>2

\* zadd, zrem and the passing of time keep a sorted set a sorted set.
LEMMA ZAddType ==
  ASSUME NEW z \in SortedSets, NEW m \in Msgs, NEW a \in Ages
  PROVE  /\ ZAdd(z, m, a) \in SortedSets
         /\ DOMAIN ZAdd(z, m, a) = DOMAIN z \cup {m}
<1>1. DOMAIN z \subseteq Msgs /\ \A x \in DOMAIN z : z[x] \in Ages
  BY SortedSetsDef
<1>2. DOMAIN ZAdd(z, m, a) = DOMAIN z \cup {m}
  BY DEF ZAdd
<1>3. \A x \in DOMAIN z \cup {m} : ZAdd(z, m, a)[x] \in Ages
  BY <1>1 DEF ZAdd
<1>4. ZAdd(z, m, a) = [x \in DOMAIN ZAdd(z, m, a) |-> ZAdd(z, m, a)[x]]
  BY <1>2 DEF ZAdd
<1> QED BY <1>1, <1>2, <1>3, <1>4, SortedSetsDef

LEMMA ZRemType ==
  ASSUME NEW z \in SortedSets, NEW m
  PROVE  /\ ZRem(z, m) \in SortedSets
         /\ DOMAIN ZRem(z, m) = DOMAIN z \ {m}
<1>1. DOMAIN z \subseteq Msgs /\ \A x \in DOMAIN z : z[x] \in Ages
  BY SortedSetsDef
<1>2. DOMAIN ZRem(z, m) = DOMAIN z \ {m}
  BY DEF ZRem
<1>3. \A x \in DOMAIN z \ {m} : ZRem(z, m)[x] \in Ages
  BY <1>1 DEF ZRem
<1>4. ZRem(z, m) = [x \in DOMAIN ZRem(z, m) |-> ZRem(z, m)[x]]
  BY <1>2 DEF ZRem
<1> QED BY <1>1, <1>2, <1>3, <1>4, SortedSetsDef

LEMMA OlderType ==
  ASSUME NEW a \in Ages
  PROVE  Older(a) \in Ages
BY TimeAssumption DEF Older, Ages

LEMMA AgedType ==
  ASSUME NEW z \in SortedSets
  PROVE  /\ Aged(z) \in SortedSets
         /\ DOMAIN Aged(z) = DOMAIN z
<1>1. DOMAIN z \subseteq Msgs /\ \A x \in DOMAIN z : z[x] \in Ages
  BY SortedSetsDef
<1>2. DOMAIN Aged(z) = DOMAIN z
  BY DEF Aged
<1>3. \A x \in DOMAIN z : Aged(z)[x] \in Ages
  BY <1>1, OlderType DEF Aged
<1>4. Aged(z) = [x \in DOMAIN Aged(z) |-> Aged(z)[x]]
  BY <1>2 DEF Aged
<1> QED BY <1>1, <1>2, <1>3, <1>4, SortedSetsDef

-----------------------------------------------------------------------------
\* A worker holds a message exactly while it is between the reply of a poll
\* and the reply of the acknowledgement.
HeldOK == \A w \in Workers :
            held[w] = NoMsg <=> phase[w] \in {"idle", "polling", "dead"}

Safe == TypeOK /\ HeldOK

LEMMA SafeInit == Init => Safe
<1> SUFFICES ASSUME Init PROVE Safe
  OBVIOUS
<1>1. [x \in {} |-> 0] \in SortedSets
  BY SortedSetsDef
<1>2. queue \in SortedSets /\ active \in SortedSets
  BY <1>1 DEF Init
<1>3. /\ phase \in [Workers -> Phases]
      /\ held \in [Workers -> Msgs \cup {NoMsg}]
      /\ clock \in [Workers -> 0..VisibilityTimeout]
  BY TimeAssumption DEF Init, Phases
<1>4. due \in [Msgs -> Nat] /\ pubs \in [Msgs -> 0..MaxPublish]
  BY TimeAssumption, BoundAssumption DEF Init
<1>5. expired \subseteq Msgs /\ faults \in 0..MaxFaults
  BY BoundAssumption DEF Init
<1>6. late \in BOOLEAN
  BY Zenon DEF Init
<1>7. HeldOK
  BY DEF Init, HeldOK
<1> QED BY <1>2, <1>3, <1>4, <1>5, <1>6, <1>7 DEF Safe, TypeOK

\* What a step of the poller loop does to the loop variables alone.
LEMMA MoveType ==
  ASSUME Safe, NEW w \in Workers, NEW p \in Phases, NEW m \in Msgs \cup {NoMsg},
         m = NoMsg <=> p \in {"idle", "polling", "dead"}, Move(w, p, m)
  PROVE  /\ phase' \in [Workers -> Phases]
         /\ held' \in [Workers -> Msgs \cup {NoMsg}]
         /\ clock' \in [Workers -> 0..VisibilityTimeout]
         /\ HeldOK'
BY TimeAssumption DEF Safe, TypeOK, HeldOK, Move

LEMMA SafeNext == Safe /\ [Next]_vars => Safe'
<1> SUFFICES ASSUME Safe, [Next]_vars PROVE Safe'
  OBVIOUS
<1> USE DEF Safe
<1>0. 0 \in Ages /\ 0..VisibilityTimeout \subseteq Ages
  BY TimeAssumption DEF Ages
<1>1. ASSUME NEW m \in Msgs, Publish(m) PROVE Safe'
  <2>1. queue' \in SortedSets
    BY <1>0, <1>1, ZAddType DEF Publish, TypeOK
  <2>2. pubs' \in [Msgs -> 0..MaxPublish]
    BY <1>1, BoundAssumption DEF Publish, TypeOK
  <2> QED BY <1>1, <2>1, <2>2 DEF Publish, TypeOK, HeldOK, loop
<1>2. ASSUME NEW m \in Msgs, Lapse(m) PROVE Safe'
  BY <1>2 DEF Lapse, TypeOK, HeldOK, redis, loop
<1>3. ASSUME Advance, faults' \in 0..MaxFaults, late' \in BOOLEAN PROVE Safe'
  <2>1. queue' \in SortedSets /\ active' \in SortedSets
    BY <1>3, AgedType DEF Advance, TypeOK
  <2>2. clock' \in [Workers -> 0..VisibilityTimeout]
    BY <1>3, TimeAssumption DEF Advance, TypeOK, Older
  <2>3. due' \in [Msgs -> Nat]
    BY <1>3 DEF Advance, TypeOK
  <2> QED BY <1>3, <2>1, <2>2, <2>3 DEF Advance, TypeOK, HeldOK
<1>4. CASE Tick
  BY <1>4, <1>3 DEF Tick, TypeOK
<1>5. CASE LateTick
  BY <1>5, <1>3, BoundAssumption DEF LateTick, TypeOK, Fault
<1>6. CASE Monitor
  <2>1. active' \in SortedSets
    <3>1. DOMAIN active \subseteq Msgs /\ \A x \in DOMAIN active : active[x] \in Ages
      BY SortedSetsDef DEF TypeOK
    <3> QED BY <1>6, <3>1, SortedSetsDef DEF Monitor
  <2>2. queue' \in SortedSets
    <3>1. /\ DOMAIN queue \subseteq Msgs /\ \A x \in DOMAIN queue : queue[x] \in Ages
          /\ Stale \subseteq Msgs
      BY SortedSetsDef DEF TypeOK, Stale
    <3>2. VisibilityTimeout \in Ages
      BY TimeAssumption DEF Ages
    <3> QED BY <1>6, <3>1, <3>2, SortedSetsDef DEF Monitor
  <2> QED BY <1>6, <2>1, <2>2 DEF Monitor, TypeOK, HeldOK, loop
<1>7. ASSUME NEW w \in Workers, Progress(w) PROVE Safe'
  <2> USE MsgAssumption DEF SchedulePoller
  <2>0. held[w] \in Msgs \/ phase[w] \in {"idle", "polling", "dead"}
    BY DEF TypeOK, HeldOK
  <2>1. CASE Poll(w)
    BY <2>1, MoveType DEF Poll, TypeOK, redis, Phases
  <2>2. CASE PollEmpty(w)
    BY <2>2, MoveType DEF PollEmpty, TypeOK, redis, Phases
  <2>3. ASSUME NEW m \in Msgs, Pop(w, m) PROVE Safe'
    <3>1. queue' \in SortedSets
      BY <2>3, ZRemType DEF Pop, TypeOK
    <3>2. active' \in SortedSets
      BY <1>0, <2>3, ZAddType DEF Pop, TypeOK
    <3>3. HeldOK'
      BY <2>3 DEF Pop, TypeOK, HeldOK
    <3> QED BY <2>3, <3>1, <3>2, <3>3 DEF Pop, TypeOK, Phases
  <2>4. CASE DropExpired(w)
    <3>1. active' \in SortedSets
      BY <2>4, ZRemType DEF DropExpired, TypeOK
    <3> QED BY <2>4, <3>1, MoveType DEF DropExpired, TypeOK, Phases
  <2>5. CASE Hide(w)
    <3>1. held[w] \in Msgs
      BY <2>0, <2>5 DEF Hide
    <3>2. -HideFor(held[w]) \in Ages
      BY <3>1, TimeAssumption DEF HideFor, Ages, TypeOK
    <3>3. active' \in SortedSets
      BY <2>5, <3>1, <3>2, ZAddType DEF Hide, TypeOK
    <3> QED BY <2>5, <3>3, MoveType DEF Hide, TypeOK, Phases
  <2>6. CASE Start(w)
    BY <2>0, <2>6, MoveType DEF Start, TypeOK, redis, Phases
  <2>7. CASE PutBack(w)
    <3>1. held[w] \in Msgs
      BY <2>0, <2>7 DEF PutBack
    <3>2. active' \in SortedSets /\ queue' \in SortedSets
      BY <1>0, <2>7, <3>1, ZRemType, ZAddType DEF PutBack, TypeOK
    <3> QED BY <2>7, <3>2, MoveType DEF PutBack, TypeOK, Phases
  <2>8. CASE KeepAlive(w)
    <3>1. held[w] \in Msgs
      BY <2>0, <2>8 DEF KeepAlive
    <3>2. active' \in SortedSets
      BY <1>0, <2>8, <3>1, ZAddType DEF KeepAlive, TypeOK
    <3>3. clock' \in [Workers -> 0..VisibilityTimeout]
      BY <2>8, TimeAssumption DEF KeepAlive, TypeOK
    <3> QED BY <2>8, <3>2, <3>3 DEF KeepAlive, TypeOK, HeldOK
  <2>9. CASE Finish(w) \/ Reject(w)
    BY <2>0, <2>9, MoveType DEF Finish, Reject, Processing, TypeOK, redis, Phases
  <2>10. CASE Ack(w)
    <3>1. active' \in SortedSets
      BY <2>10, ZRemType DEF Ack, TypeOK
    <3> QED BY <2>10, <3>1, MoveType DEF Ack, TypeOK, Phases
  <2>11. CASE Restart(w)
    BY <2>11, MoveType DEF Restart, TypeOK, redis, Phases
  <2> QED BY <1>7, <2>1, <2>2, <2>3, <2>4, <2>5, <2>6, <2>7, <2>8, <2>9,
             <2>10, <2>11 DEF Progress
<1>8. ASSUME NEW w \in Workers, Failure(w) PROVE Safe'
  <2>1. faults' \in 0..MaxFaults
    BY <1>8, BoundAssumption
       DEF Failure, PollError, RejectUncaught, AckError, Crash, Fault, TypeOK
  <2>2. Move(w, "idle", NoMsg) \/ Move(w, "dead", NoMsg)
    BY <1>8 DEF Failure, PollError, RejectUncaught, AckError, Crash, SchedulePoller
  <2>3. UNCHANGED <<queue, active, due, expired, pubs, late>>
    BY <1>8 DEF Failure, PollError, RejectUncaught, AckError, Crash, redis
  <2> QED BY <2>1, <2>2, <2>3, MoveType DEF TypeOK, Phases
<1>9. ASSUME NEW w \in Workers, KeepAliveError(w) PROVE Safe'
  <2>1. held[w] # NoMsg /\ held[w] \in Msgs
    BY <1>9 DEF KeepAliveError, TypeOK, HeldOK
  <2>2. faults' \in 0..MaxFaults /\ late' \in BOOLEAN
    BY <1>9, BoundAssumption DEF KeepAliveError, Fault, TypeOK
  <2> QED BY <1>9, <2>1, <2>2, MoveType DEF KeepAliveError, TypeOK, redis, Phases
<1>10. CASE UNCHANGED vars
  BY <1>10 DEF vars, TypeOK, HeldOK
<1> QED BY <1>1, <1>2, <1>4, <1>5, <1>6, <1>7, <1>8, <1>9, <1>10 DEF Next

\* The type invariant, together with what a worker holds in which phase.
THEOREM Typing == Spec => []Safe
BY SafeInit, SafeNext, PTL DEF Spec

\* TypeOK is an invariant for all values of the constants.
THEOREM TypeCorrect == Spec => []TypeOK
<1>1. Safe => TypeOK
  BY DEF Safe
<1> QED BY <1>1, Typing, PTL

-----------------------------------------------------------------------------
(* The queue implements JobQueue. *)

\* What the sorted-set commands do to the set of messages that are owed.
LEMMA PendingDomains ==
  /\ \A z, m, a : DOMAIN ZAdd(z, m, a) = DOMAIN z \cup {m}
  /\ \A z, m : DOMAIN ZRem(z, m) = DOMAIN z \ {m}
  /\ \A z : DOMAIN Aged(z) = DOMAIN z
BY DEF ZAdd, ZRem, Aged

\* Every step of the Redis queue is a step of JobQueue or leaves it unchanged.
LEMMA StepSimulation == Safe /\ [Next]_vars => [Queue!Next]_(Queue!vars)
<1> SUFFICES ASSUME Safe, [Next]_vars PROVE [Queue!Next]_(Queue!vars)
  OBVIOUS
<1> USE PendingDomains DEF Queue!vars
<1>1. ASSUME NEW m \in Msgs, Publish(m) PROVE Queue!Publish(m)
  <2>1. DOMAIN queue' = DOMAIN queue \cup {m}
    BY <1>1 DEF Publish
  <2> QED BY <1>1, <2>1 DEF Publish, Queue!Publish, Pending, loop
<1>2. ASSUME NEW m \in Msgs, Lapse(m) PROVE UNCHANGED Queue!vars
  BY <1>2 DEF Lapse, redis, loop, Pending
<1>3. CASE Tick \/ LateTick
  BY <1>3 DEF Tick, LateTick, Advance, Pending
<1>4. CASE Monitor
  <2>1. Stale \subseteq DOMAIN active
    BY DEF Stale
  <2>2. DOMAIN active' = DOMAIN active \ Stale /\ DOMAIN queue' = DOMAIN queue \cup Stale
    BY <1>4 DEF Monitor
  <2>3. Pending' = Pending
    BY <2>1, <2>2 DEF Pending
  <2> QED BY <1>4, <2>3 DEF Monitor, loop
<1>5. ASSUME NEW w \in Workers, Progress(w) PROVE [Queue!Next]_(Queue!vars)
  <2> USE DEF SchedulePoller, Move, Queue!Next
  <2>1. CASE Poll(w) \/ PollEmpty(w) \/ Restart(w)
    <3>1. held[w] = NoMsg
      BY <2>1 DEF Poll, PollEmpty, Restart, Safe, HeldOK
    <3>2. held' = held
      BY <2>1, <3>1 DEF Poll, PollEmpty, Restart, Safe, TypeOK
    <3> QED BY <2>1, <3>2 DEF Poll, PollEmpty, Restart, redis, Pending
  <2>2. ASSUME NEW m \in Msgs, Pop(w, m) PROVE Queue!Take(w, m)
    <3>1. held[w] = NoMsg /\ m \in Pending
      BY <2>2 DEF Pop, Oldest, Safe, HeldOK, Pending
    <3>2. Pending' = Pending
      <4>1. DOMAIN queue' = DOMAIN queue \ {m} /\ DOMAIN active' = DOMAIN active \cup {m}
        BY <2>2 DEF Pop
      <4> QED BY <3>1, <4>1, <2>2 DEF Pop, Oldest, Pending
    <3> QED BY <2>2, <3>1, <3>2 DEF Pop, Queue!Take
  <2>3. CASE DropExpired(w) \/ Ack(w)
    <3>1. held[w] # NoMsg
      BY <2>3 DEF DropExpired, Ack, Safe, HeldOK
    <3>2. DOMAIN active' = DOMAIN active \ {held[w]} /\ queue' = queue
      BY <2>3 DEF DropExpired, Ack
    <3>3. Pending' = Pending \ {held[w]} \/ Pending' = Pending
      BY <3>2 DEF Pending
    <3>4. held' = [held EXCEPT ![w] = NoMsg]
      BY <2>3 DEF DropExpired, Ack
    <3> QED BY <3>1, <3>3, <3>4 DEF Queue!Retire, Queue!Release
  <2>4. CASE Hide(w) \/ PutBack(w)
    <3>1. held[w] # NoMsg
      BY <2>4 DEF Hide, PutBack, Safe, HeldOK
    <3>2. Pending' = Pending \cup {held[w]}
      <4>1. CASE Hide(w)
        <5>1. DOMAIN active' = DOMAIN active \cup {held[w]} /\ queue' = queue
          BY <4>1 DEF Hide
        <5> QED BY <5>1 DEF Pending
      <4>2. CASE PutBack(w)
        <5>1. /\ DOMAIN active' = DOMAIN active \ {held[w]}
              /\ DOMAIN queue' = DOMAIN queue \cup {held[w]}
          BY <4>2 DEF PutBack
        <5> QED BY <5>1 DEF Pending
      <4> QED BY <2>4, <4>1, <4>2
    <3>3. held' = [held EXCEPT ![w] = NoMsg]
      BY <2>4 DEF Hide, PutBack
    <3> QED BY <3>1, <3>2, <3>3 DEF Queue!Return
  <2>5. CASE Start(w) \/ Finish(w) \/ Reject(w)
    <3>1. held' = held
      BY <2>5 DEF Start, Finish, Reject, Safe, TypeOK
    <3> QED BY <2>5, <3>1 DEF Start, Finish, Reject, redis, Pending
  <2>6. CASE KeepAlive(w)
    <3>1. held[w] # NoMsg
      BY <2>6 DEF KeepAlive, Safe, HeldOK
    <3>2. Pending' = Pending \cup {held[w]}
      <4>1. DOMAIN active' = DOMAIN active \cup {held[w]} /\ queue' = queue
        BY <2>6 DEF KeepAlive
      <4> QED BY <4>1 DEF Pending
    <3> QED BY <2>6, <3>1, <3>2 DEF KeepAlive, Queue!Renew
  <2> QED BY <1>5, <2>1, <2>2, <2>3, <2>4, <2>5, <2>6 DEF Progress
<1>6. ASSUME NEW w \in Workers, Failure(w) PROVE [Queue!Next]_(Queue!vars)
  <2>1. held' = [held EXCEPT ![w] = NoMsg] /\ Pending' = Pending
    BY <1>6 DEF Failure, PollError, RejectUncaught, AckError, Crash,
                SchedulePoller, Move, redis, Pending
  <2>2. CASE held[w] = NoMsg
    <3>1. held' = held
      BY <2>1, <2>2 DEF Safe, TypeOK
    <3> QED BY <2>1, <3>1
  <2>3. CASE held[w] # NoMsg
    BY <2>1, <2>3 DEF Queue!Release, Queue!Next
  <2> QED BY <2>2, <2>3
<1>7. ASSUME NEW w \in Workers, KeepAliveError(w) PROVE UNCHANGED Queue!vars
  <2>1. held' = held
    BY <1>7 DEF KeepAliveError, Move, Safe, TypeOK
  <2> QED BY <1>7, <2>1 DEF KeepAliveError, redis, Pending
<1>8. CASE UNCHANGED vars
  BY <1>8 DEF vars, Pending
<1> QED BY <1>1, <1>2, <1>3, <1>4, <1>5, <1>6, <1>7, <1>8 DEF Next, Queue!Next

\* At-least-once delivery: the Redis queue implements JobQueue, whatever
\* crashes, is lost or comes late, for any number of workers and messages.
THEOREM AtLeastOnce == Spec => ImplementsJobQueue
<1>1. Init => Queue!Init
  BY DEF Init, Queue!Init, Pending
<1> QED BY <1>1, StepSimulation, Typing, PTL
     DEF Spec, ImplementsJobQueue, Queue!Spec

\* Stated over the two sorted sets: a message disappears from them only when a
\* worker that holds it lets go of it.
THEOREM NothingLost == Spec => Queue!NoLoss
<1>1. Safe /\ [Queue!Next]_(Queue!vars) =>
        [\A m \in Pending \ Pending' :
           \E c \in Workers : held[c] = m /\ held'[c] = NoMsg]_(Queue!vars)
  <2> SUFFICES ASSUME Safe, Queue!Next, NEW m \in Pending \ Pending'
               PROVE \E c \in Workers : held[c] = m /\ held'[c] = NoMsg
    OBVIOUS
  <2>1. PICK c \in Workers : Queue!Retire(c)
    BY DEF Queue!Next, Queue!Publish, Queue!Take, Queue!Release, Queue!Return,
           Queue!Renew
  <2>2. held[c] = m
    BY <2>1 DEF Queue!Retire
  <2>3. held'[c] = NoMsg
    BY <2>1 DEF Queue!Retire, Safe, TypeOK
  <2> QED BY <2>2, <2>3
<1> QED BY <1>1, AtLeastOnce, Typing, PTL
     DEF ImplementsJobQueue, Queue!Spec, Queue!NoLoss

-----------------------------------------------------------------------------
(* The lease: as long as nothing is late, nobody else gets the message. *)

InHand == {"popped", "running", "acking", "rejected"}

\* How old the score of a message in hand can be: the request that took it,
\* then the wait for the keepalive timer, then the acknowledgement.
AgeLimit(w) == IF phase[w] = "popped" THEN clock[w]
               ELSE IF phase[w] = "running" THEN Delay + clock[w]
               ELSE Delay + KeepAliveInterval + clock[w]

Timely == \A w \in Workers :
  /\ phase[w] \in {"polling", "popped", "acking", "rejected"} => clock[w] <= Delay
  /\ phase[w] = "running" => clock[w] <= KeepAliveInterval
  /\ phase[w] # "unrefreshed"

Lease == \A w \in Workers : phase[w] \in InHand =>
  /\ held[w] \in DOMAIN active
  /\ active[held[w]] <= AgeLimit(w)
  /\ held[w] \notin DOMAIN queue
  /\ \A v \in Workers \ {w} : held[v] # held[w]

LeaseInv == Safe /\ (~late => Timely /\ Lease)

\* Within its age limit a message is out of the monitor's reach.
LEMMA LimitBelowTimeout ==
  ASSUME Safe, Timely, NEW w \in Workers, phase[w] \in InHand
  PROVE  AgeLimit(w) < VisibilityTimeout
BY TimeAssumption DEF Safe, TypeOK, Timely, InHand, AgeLimit

LEMMA LeaseInit == Init => LeaseInv
<1>1. Init => Timely /\ Lease
  BY TimeAssumption DEF Init, Timely, Lease, InHand
<1> QED BY <1>1, SafeInit DEF LeaseInv

\* A worker that lets go of its message disturbs nobody's lease, as long as it
\* changes the score of no other message.
LEMMA LetGo ==
  ASSUME Safe, Timely, Lease, NEW w \in Workers, NEW p \in {"idle", "dead"},
         Move(w, p, NoMsg),
         \A v \in Workers \ {w} : phase[v] \in InHand =>
           /\ held[v] \in DOMAIN active'
           /\ active'[held[v]] = active[held[v]]
           /\ held[v] \notin DOMAIN queue'
  PROVE  Timely' /\ Lease'
<1>1. /\ phase'[w] = p /\ held'[w] = NoMsg /\ clock'[w] = 0
      /\ \A v \in Workers \ {w} : phase'[v] = phase[v] /\ held'[v] = held[v] /\ clock'[v] = clock[v]
  BY DEF Move, Safe, TypeOK
<1>2. Timely'
  BY <1>1, TimeAssumption DEF Timely
<1>3. Lease'
  <2> SUFFICES ASSUME NEW v \in Workers, phase'[v] \in InHand
               PROVE  /\ held'[v] \in DOMAIN active'
                      /\ active'[held'[v]] <= AgeLimit(v)'
                      /\ held'[v] \notin DOMAIN queue'
                      /\ \A u \in Workers \ {v} : held'[u] # held'[v]
    BY DEF Lease
  <2>1. v # w /\ phase[v] \in InHand
    BY <1>1 DEF InHand
  <2>2. AgeLimit(v)' = AgeLimit(v)
    BY <1>1, <2>1 DEF AgeLimit
  <2>3. held[v] # NoMsg
    BY <2>1 DEF InHand, Safe, HeldOK
  <2> QED BY <1>1, <2>1, <2>2, <2>3 DEF Lease
<1> QED BY <1>2, <1>3

\* A worker that keeps its message in a new phase, the sorted sets unchanged.
LEMMA KeepHold ==
  ASSUME Safe, Timely, Lease, NEW w \in Workers, phase[w] \in InHand,
         NEW p \in {"running", "acking", "rejected"},
         phase[w] = "popped" => p = "running",
         phase[w] = "running" => p \in {"acking", "rejected"},
         phase[w] \in {"popped", "running"},
         Move(w, p, held[w]), UNCHANGED redis
  PROVE  Timely' /\ Lease'
<1>1. /\ phase'[w] = p /\ held' = held /\ clock'[w] = 0
      /\ \A v \in Workers \ {w} : phase'[v] = phase[v] /\ clock'[v] = clock[v]
  BY DEF Move, Safe, TypeOK
<1>2. Timely'
  BY <1>1, TimeAssumption DEF Timely
<1>3. AgeLimit(w) <= AgeLimit(w)'
  BY <1>1, TimeAssumption DEF AgeLimit, Timely, Safe, TypeOK
<1>4. AgeLimit(w) \in Nat /\ AgeLimit(w)' \in Nat
  BY <1>1, TimeAssumption DEF AgeLimit, Safe, TypeOK
<1>5. \A v \in Workers \ {w} : AgeLimit(v)' = AgeLimit(v)
  BY <1>1 DEF AgeLimit
<1>6. \A v \in Workers : phase'[v] \in InHand => phase[v] \in InHand
  BY <1>1
<1>7. \A x \in DOMAIN active : active[x] \in Int
  BY SortedSetsDef, TimeAssumption DEF Safe, TypeOK, Ages
<1>8. active' = active /\ queue' = queue
  BY DEF redis
<1>9. \A v \in Workers : phase'[v] \in InHand => active[held[v]] <= AgeLimit(v)'
  BY <1>3, <1>4, <1>5, <1>6, <1>7 DEF Lease
<1>10. Lease'
  BY <1>1, <1>6, <1>8, <1>9 DEF Lease
<1> QED BY <1>2, <1>10

\* No step breaks the lease unless it is the one that is late.
LEMMA LeaseNext ==
  ASSUME Overlap = FALSE, LeaseInv, [Next]_vars, ~late'
  PROVE  Timely' /\ Lease'
<1>0. Safe
  BY DEF LeaseInv
<1>a. ~late
  <2>1. [Next]_vars => late' = late \/ late' = TRUE
    BY DEF Next, Publish, Lapse, Tick, LateTick, Advance, Monitor, Progress,
           Failure, Poll, PollEmpty, Pop, DropExpired, Hide, Start, PutBack,
           KeepAlive, KeepAliveError, Finish, Reject, Ack, Restart, PollError,
           RejectUncaught, AckError, Crash, vars
  <2> QED BY <2>1
<1>b. Timely /\ Lease
  BY <1>a DEF LeaseInv
<1>c. \A x \in DOMAIN active : active[x] \in Int
  BY <1>0, SortedSetsDef, TimeAssumption DEF Safe, TypeOK, Ages
<1>d. \A w \in Workers : phase[w] \in InHand => held[w] \in Msgs
  BY <1>0 DEF Safe, TypeOK, HeldOK, InHand
<1> USE <1>0, <1>b
<1>1. ASSUME NEW m \in Msgs, Publish(m) PROVE Timely' /\ Lease'
  <2>1. DOMAIN queue' = DOMAIN queue \cup {m}
    BY <1>1, PendingDomains DEF Publish
  <2>2. \A w \in Workers : held[w] # m
    BY <1>1 DEF Publish, Held
  <2> QED BY <1>1, <2>1, <2>2 DEF Publish, loop, Timely, Lease, AgeLimit
<1>2. ASSUME NEW m \in Msgs, Lapse(m) PROVE Timely' /\ Lease'
  BY <1>2 DEF Lapse, redis, loop, Timely, Lease, AgeLimit
<1>3. CASE Tick
  <2>1. phase' = phase /\ held' = held
    BY <1>3 DEF Tick, Advance
  <2>2. \A w \in Workers : phase[w] \notin {"idle", "dead"} => clock'[w] = clock[w] + 1
    <3> SUFFICES ASSUME NEW w \in Workers, phase[w] \notin {"idle", "dead"}
                 PROVE clock'[w] = clock[w] + 1
      OBVIOUS
    <3>1. clock[w] < VisibilityTimeout
      BY <1>3, TimeAssumption DEF Tick, Overdue, Safe, TypeOK, Phases, Timely
    <3> QED BY <1>3, <3>1 DEF Tick, Advance, Older
  <2>3. Timely'
    BY <1>3, <2>1, <2>2, TimeAssumption DEF Tick, Overdue, Timely, Safe, TypeOK
  <2>4. DOMAIN queue' = DOMAIN queue /\ DOMAIN active' = DOMAIN active
    BY <1>3, PendingDomains DEF Tick, Advance
  <2>5. \A x \in DOMAIN active : active'[x] <= active[x] + 1
    BY <1>3, <1>c, TimeAssumption DEF Tick, Advance, Aged, Older
  <2>6. \A w \in Workers : phase[w] \in InHand => AgeLimit(w)' = AgeLimit(w) + 1
    BY <2>1, <2>2, TimeAssumption DEF AgeLimit, InHand, Safe, TypeOK
  <2>7. \A w \in Workers : phase[w] \in InHand => AgeLimit(w) \in Int
    BY TimeAssumption DEF AgeLimit, Safe, TypeOK
  <2>8. \A x \in DOMAIN active : active'[x] \in Int
    BY <1>3, <1>c, TimeAssumption DEF Tick, Advance, Aged, Older
  <2>9. \A w \in Workers : phase[w] \in InHand => active'[held[w]] <= AgeLimit(w)'
    BY <1>c, <2>5, <2>6, <2>7, <2>8 DEF Lease
  <2>10. Lease'
    BY <2>1, <2>4, <2>9 DEF Lease
  <2> QED BY <2>3, <2>10
<1>4. CASE LateTick
  BY <1>4 DEF LateTick
<1>5. CASE Monitor
  <2>1. phase' = phase /\ held' = held /\ clock' = clock
    BY <1>5 DEF Monitor, loop
  <2>2. \A w \in Workers : phase[w] \in InHand => held[w] \notin Stale
    BY <1>c, LimitBelowTimeout, TimeAssumption
       DEF Stale, Lease, AgeLimit, Safe, TypeOK
  <2>3. /\ DOMAIN active' = DOMAIN active \ Stale
        /\ DOMAIN queue' = DOMAIN queue \cup Stale
        /\ \A x \in DOMAIN active \ Stale : active'[x] = active[x]
    BY <1>5 DEF Monitor
  <2>4. Lease'
    BY <2>1, <2>2, <2>3 DEF Lease, AgeLimit
  <2> QED BY <2>1, <2>4 DEF Timely
<1>6. ASSUME NEW w \in Workers, Progress(w) PROVE Timely' /\ Lease'
  <2>0. \A v \in Workers \ {w} : phase[v] \in InHand =>
          held[v] \in DOMAIN active /\ held[v] \notin DOMAIN queue /\ held[v] # held[w]
    BY DEF Lease
  <2>1. CASE Poll(w)
    <3>1. held' = held /\ phase'[w] = "polling" /\ clock'[w] = 0
      BY <2>1 DEF Poll, Move, Safe, TypeOK, HeldOK
    <3>2. \A v \in Workers \ {w} : phase'[v] = phase[v] /\ clock'[v] = clock[v]
      BY <2>1 DEF Poll, Move, Safe, TypeOK
    <3>3. active' = active /\ queue' = queue
      BY <2>1 DEF Poll, redis
    <3>4. Timely'
      BY <3>1, <3>2, TimeAssumption DEF Timely
    <3>5. Lease'
      BY <3>1, <3>2, <3>3 DEF Lease, AgeLimit, InHand
    <3> QED BY <3>4, <3>5
  <2>2. CASE PollEmpty(w) \/ Restart(w)
    <3>1. Move(w, "idle", NoMsg) /\ active' = active /\ queue' = queue
      BY <2>2 DEF PollEmpty, Restart, SchedulePoller, redis
    <3> QED BY <2>0, <3>1, LetGo
  <2>3. ASSUME NEW m \in Msgs, Pop(w, m) PROVE Timely' /\ Lease'
    <3>1. /\ phase'[w] = "popped" /\ held'[w] = m /\ clock' = clock
          /\ \A v \in Workers \ {w} : phase'[v] = phase[v] /\ held'[v] = held[v]
      BY <2>3 DEF Pop, Safe, TypeOK
    <3>2. /\ DOMAIN queue' = DOMAIN queue \ {m} /\ DOMAIN active' = DOMAIN active \cup {m}
          /\ active'[m] = clock[w] /\ m \in DOMAIN queue
          /\ \A x \in DOMAIN active \ {m} : active'[x] = active[x]
      BY <2>3 DEF Pop, ZAdd, ZRem, Oldest
    <3>3. \A v \in Workers : held[v] # m
      BY <3>2, MsgAssumption DEF Lease, Safe, TypeOK, HeldOK, InHand, Phases, Timely
    <3>4. Timely'
      BY <2>3, <3>1 DEF Timely, Pop
    <3>5. AgeLimit(w)' = clock[w] /\ \A v \in Workers \ {w} : AgeLimit(v)' = AgeLimit(v)
      BY <3>1 DEF AgeLimit
    <3>6. active'[held'[w]] <= AgeLimit(w)'
      BY <3>1, <3>2, <3>5, TimeAssumption DEF Safe, TypeOK
    <3>7. Lease'
      BY <3>1, <3>2, <3>3, <3>5, <3>6 DEF Lease
    <3> QED BY <3>4, <3>7
  <2>4. CASE DropExpired(w) \/ Ack(w)
    <3>1. /\ Move(w, "idle", NoMsg) /\ queue' = queue
          /\ DOMAIN active' = DOMAIN active \ {held[w]}
          /\ \A x \in DOMAIN active \ {held[w]} : active'[x] = active[x]
      BY <2>4 DEF DropExpired, Ack, SchedulePoller, ZRem
    <3> QED BY <2>0, <3>1, LetGo
  <2>5. CASE Hide(w)
    <3>1. /\ Move(w, "idle", NoMsg) /\ queue' = queue
          /\ DOMAIN active' = DOMAIN active \cup {held[w]}
          /\ \A x \in DOMAIN active \ {held[w]} : active'[x] = active[x]
      BY <2>5 DEF Hide, SchedulePoller, ZAdd
    <3> QED BY <2>0, <3>1, LetGo
  <2>6. CASE Start(w) \/ Finish(w) \/ Reject(w)
    BY <2>6, KeepHold DEF Start, Finish, Reject, Processing, Timely, InHand
  <2>7. CASE PutBack(w)
    <3>1. /\ Move(w, "idle", NoMsg) /\ DOMAIN queue' = DOMAIN queue \cup {held[w]}
          /\ DOMAIN active' = DOMAIN active \ {held[w]}
          /\ \A x \in DOMAIN active \ {held[w]} : active'[x] = active[x]
      BY <2>7 DEF PutBack, SchedulePoller, ZAdd, ZRem
    <3> QED BY <2>0, <3>1, LetGo
  <2>8. CASE KeepAlive(w)
    <3>1. /\ phase' = phase /\ held' = held /\ queue' = queue /\ clock'[w] = 0
          /\ \A v \in Workers \ {w} : clock'[v] = clock[v]
      BY <2>8 DEF KeepAlive, Safe, TypeOK
    <3>2. /\ DOMAIN active' = DOMAIN active \cup {held[w]} /\ active'[held[w]] = 0
          /\ \A x \in DOMAIN active \ {held[w]} : active'[x] = active[x]
      BY <2>8 DEF KeepAlive, ZAdd
    <3>3. Timely'
      BY <3>1, TimeAssumption DEF Timely
    <3>4. AgeLimit(w)' = Delay + 0 /\ \A v \in Workers \ {w} : AgeLimit(v)' = AgeLimit(v)
      BY <2>8, <3>1 DEF AgeLimit, KeepAlive
    <3>5. 0 <= AgeLimit(w)'
      BY <3>4, TimeAssumption
    <3>6. Lease'
      BY <2>0, <3>1, <3>2, <3>4, <3>5 DEF Lease
    <3> QED BY <3>3, <3>6
  <2> QED BY <1>6, <2>1, <2>2, <2>3, <2>4, <2>5, <2>6, <2>7, <2>8 DEF Progress
<1>7. ASSUME NEW w \in Workers, Failure(w) PROVE Timely' /\ Lease'
  <2>1. Move(w, "idle", NoMsg) \/ Move(w, "dead", NoMsg)
    BY <1>7 DEF Failure, PollError, RejectUncaught, AckError, Crash, SchedulePoller
  <2>2. active' = active /\ queue' = queue
    BY <1>7 DEF Failure, PollError, RejectUncaught, AckError, Crash, redis
  <2> QED BY <2>1, <2>2, LetGo DEF Lease
<1>8. ASSUME NEW w \in Workers, KeepAliveError(w) PROVE FALSE
  BY <1>8 DEF KeepAliveError
<1>9. CASE UNCHANGED vars
  BY <1>9 DEF vars, Timely, Lease, AgeLimit
<1> QED BY <1>1, <1>2, <1>3, <1>4, <1>5, <1>6, <1>7, <1>8, <1>9 DEF Next

\* Exclusive processing: if applications do not publish a body while a copy of
\* it is unfinished, then for any timings with two requests and one keepalive
\* interval below the visibility timeout, LeaseHeld is an invariant.
THEOREM LeaseTheorem == ASSUME Overlap = FALSE PROVE Spec => []LeaseHeld
<1>1. LeaseInv /\ [Next]_vars => LeaseInv'
  BY LeaseNext, SafeNext DEF LeaseInv
<1>2. LeaseInv => LeaseHeld
  <2> SUFFICES ASSUME LeaseInv, ~late, NEW w \in Workers, phase[w] = "running"
               PROVE  /\ held[w] \in DOMAIN active /\ active[held[w]] < VisibilityTimeout
                      /\ held[w] \notin DOMAIN queue
                      /\ \A v \in Workers \ {w} : held[v] # held[w]
    BY DEF LeaseHeld
  <2>1. Safe /\ Timely /\ Lease /\ phase[w] \in InHand
    BY DEF LeaseInv, InHand
  <2>2. AgeLimit(w) < VisibilityTimeout /\ AgeLimit(w) \in Int
    BY <2>1, LimitBelowTimeout, TimeAssumption DEF AgeLimit, Safe, TypeOK
  <2>3. \A x \in DOMAIN active : active[x] \in Int
    BY <2>1, SortedSetsDef, TimeAssumption DEF Safe, TypeOK, Ages
  <2> QED BY <2>1, <2>2, <2>3, TimeAssumption DEF Lease
<1> QED BY <1>1, <1>2, LeaseInit, PTL DEF Spec
=============================================================================
