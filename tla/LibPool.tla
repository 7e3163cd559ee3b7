------------------------------- MODULE LibPool -------------------------------
(***************************************************************************)
(* lib/lib.js, lib.Pool: a pool of resource items, used for database       *)
(* connections.  The state of each pool and what its methods do to it; who *)
(* calls the methods is left to the module that uses the pool (DbQuery).   *)
(*                                                                         *)
(* The order of the idle items matters to no property, so avail is a set.  *)
(* Idle items never expire: the branch of _timer that would destroy them   *)
(* reads the undeclared variable pool first and throws a ReferenceError.   *)
(***************************************************************************)
EXTENDS Integers, FiniteSets

CONSTANTS
  Pools,       \* pool objects
  Clients,     \* callers of acquire
  Items,       \* resource items; an item that was destroyed can be made again
  NoItem,      \* no item
  MinItems,    \* options.min
  MaxItems,    \* options.max
  MaxQueue,    \* options.max_queue
  Validating,  \* pools that have a _validate method
  MaxMaking    \* bound: items under construction by the timer of a pool

ASSUME LimitAssumption ==
  MinItems \in Nat /\ MaxItems \in Nat /\ MaxQueue \in Nat /\ MaxMaking \in Nat
ASSUME ItemAssumption == NoItem \notin Items /\ IsFiniteSet(Items)
ASSUME ValidatingAssumption == Validating \subseteq Pools

VARIABLES
  avail,       \* idle items
  busy,        \* items that were handed out
  queue,       \* clients in the waiting queue
  queueCount,  \* queue_count
  shut,        \* has shutdown been called (max is -1 from then on)?
  making       \* items that the timer is creating

poolVars == <<avail, busy, queue, queueCount, shut, making>>

Size(S) == Cardinality(S)
MaxOfOpen(p) == MaxItems   \* mutant of MaxOf: shutdown does not lower the limit
MaxOf(p) == IF shut[p] THEN -1 ELSE MaxItems
Live == UNION {avail[p] \cup busy[p] : p \in Pools}

PoolInit == /\ avail = [p \in Pools |-> {}]
            /\ busy = [p \in Pools |-> {}]
            /\ queue = [p \in Pools |-> {}]
            /\ queueCount = [p \in Pools |-> 0]
            /\ shut = [p \in Pools |-> FALSE]
            /\ making = [p \in Pools |-> 0]

-----------------------------------------------------------------------------
(* acquire *)

\* Mutant of AcquireIdle: the item is not taken out of avail.
AcquireIdleKept(p, i) == /\ i \in avail[p]
                         /\ busy' = [busy EXCEPT ![p] = @ \cup {i}]
                         /\ UNCHANGED <<avail, queue, queueCount, shut, making>>

\* An idle item is handed out at once.
AcquireIdle(p, i) == /\ i \in avail[p]
                     /\ avail' = [avail EXCEPT ![p] = @ \ {i}]
                     /\ busy' = [busy EXCEPT ![p] = @ \cup {i}]
                     /\ UNCHANGED <<queue, queueCount, shut, making>>

Full(p) == avail[p] = {} /\ Size(busy[p]) >= MaxOf(p)

\* All items are in use: the caller waits, or is refused.
AcquireWait(p, c) == /\ Full(p)
                     /\ queueCount[p] < MaxQueue
                     /\ queueCount' = [queueCount EXCEPT ![p] = @ + 1]
                     /\ queue' = [queue EXCEPT ![p] = @ \cup {c}]
                     /\ UNCHANGED <<avail, busy, shut, making>>

AcquireRefused(p) == /\ Full(p)
                     /\ queueCount[p] >= MaxQueue
                     /\ UNCHANGED poolVars

\* Nothing idle and room for more: _create is called; busy is not touched
\* before its callback.
AcquireCreates(p) == /\ avail[p] = {}
                     /\ Size(busy[p]) < MaxOf(p)
                     /\ UNCHANGED poolVars

AcquireCreated(p, i) == /\ i \in Items \ Live
                        /\ busy' = [busy EXCEPT ![p] = @ \cup {i}]
                        /\ UNCHANGED <<avail, queue, queueCount, shut, making>>

\* Mutant of AcquireTimeout: the timer looks the waiter up in the present queue.
AcquireTimeoutLost(p, c) == /\ c \in queue[p]
                            /\ queue' = [queue EXCEPT ![p] = @ \ {c}]
                            /\ UNCHANGED <<avail, busy, queueCount, shut, making>>

\* onDeferCallback at the timeout: the waiter is forgotten and told of the
\* timeout.  queue_count is not decremented.
AcquireTimeout(p, c) == /\ queue' = [queue EXCEPT ![p] = @ \ {c}]
                        /\ UNCHANGED <<avail, busy, queueCount, shut, making>>

-----------------------------------------------------------------------------
(* release *)

\* An item the pool does not know as busy: an error is logged.
ReleaseUnknown(p, i) == i \notin busy[p] /\ UNCHANGED poolVars

\* Somebody waits.  The item is noted in the queue's entry and runCallback is
\* called with the entry, which has no __deferId: nothing is run.
ReleaseToWaiter(p, i) == /\ i \in busy[p]
                         /\ queue[p] # {}
                         /\ queueCount' = [queueCount EXCEPT ![p] = @ - 1]
                         /\ UNCHANGED <<avail, busy, queue, shut, making>>

\* The item becomes idle, unless there are too many idle items.
ReleaseIdle(p, i) == /\ i \in busy[p]
                     /\ queue[p] = {}
                     /\ p \in Validating
                     /\ Size(avail[p]) <= MaxOf(p)
                     /\ avail' = [avail EXCEPT ![p] = @ \cup {i}]
                     /\ busy' = [busy EXCEPT ![p] = @ \ {i}]
                     /\ UNCHANGED <<queue, queueCount, shut, making>>

\* The item is destroyed: too many are idle, or _validate refuses it.  For a pool
\* without _validate, _call returns false, and no item ever becomes idle again.
ReleaseDestroy(p, i) == /\ i \in busy[p]
                        /\ queue[p] = {}
                        /\ busy' = [busy EXCEPT ![p] = @ \ {i}]
                        /\ UNCHANGED <<avail, queue, queueCount, shut, making>>

Release(p, i) == \/ ReleaseUnknown(p, i)
                 \/ ReleaseToWaiter(p, i)
                 \/ ReleaseIdle(p, i)
                 \/ ReleaseDestroy(p, i)

-----------------------------------------------------------------------------
\* shutdown: the idle items are destroyed and the queue is replaced.  The timer
\* of a waiter still refers to the old queue object and will find it there.
Shutdown(p) == /\ shut' = [shut EXCEPT ![p] = TRUE]
               /\ avail' = [avail EXCEPT ![p] = {}]
               /\ queue' = [queue EXCEPT ![p] = {}]
               /\ UNCHANGED <<busy, queueCount, making>>

\* _timer: start as many creations as items are missing, not counting those
\* already started.
Refill(p) == /\ ~shut[p]
             /\ LET missing == MinItems - Size(avail[p]) - Size(busy[p])
                IN  /\ missing > 0
                    /\ making[p] + missing <= MaxMaking
                    /\ making' = [making EXCEPT ![p] = @ + missing]
             /\ UNCHANGED <<avail, busy, queue, queueCount, shut>>

RefillDone(p, i) == /\ making[p] > 0
                    /\ i \in Items \ Live
                    /\ making' = [making EXCEPT ![p] = @ - 1]
                    /\ avail' = [avail EXCEPT ![p] = @ \cup {i}]
                    /\ UNCHANGED <<busy, queue, queueCount, shut>>

\* Mutant of RefillFails: a creation is counted down twice.
RefillFailsTwice(p) == /\ making[p] > 0
                       /\ making' = [making EXCEPT ![p] = @ - 2]
                       /\ UNCHANGED <<avail, busy, queue, queueCount, shut>>

RefillFails(p) == /\ making[p] > 0
                  /\ making' = [making EXCEPT ![p] = @ - 1]
                  /\ UNCHANGED <<avail, busy, queue, queueCount, shut>>
=============================================================================
