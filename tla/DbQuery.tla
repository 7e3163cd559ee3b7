------------------------------- MODULE DbQuery -------------------------------
(***************************************************************************)
(* lib/db.js: query, queryRun and queryEnd over the connection pools of    *)
(* LibPool.  A query keeps the pool object it acquired its connection from *)
(* in a closure, and the pool's name in the request.  db.init replaces the *)
(* pool object under a name when its url changes and shuts the old one     *)
(* down, with queries in flight.                                           *)
(***************************************************************************)
EXTENDS LibPool

CONSTANT LastPool      \* bound: pool objects are 1..LastPool
ASSUME PoolsAssumption == LastPool \in Nat \ {0} /\ Pools = 1..LastPool

VARIABLES
  current,   \* this.pools[name]
  phase,     \* where each query is
  pool,      \* the pool object in the closure of each query
  conn       \* req.client of each query

queryVars == <<phase, pool, conn>>
vars == <<avail, busy, queue, queueCount, shut, making, current, phase, pool, conn>>

Phases == {"idle", "waiting", "creating", "running"}
Running == {q \in Clients : phase[q] = "running"}

Init == /\ PoolInit
        /\ current = 1
        /\ phase = [q \in Clients |-> "idle"]
        /\ pool = [q \in Clients |-> 1]
        /\ conn = [q \in Clients |-> NoItem]

\* queryEnd: the caller of the query gets its callback.
EndQuery(q) == /\ phase' = [phase EXCEPT ![q] = "idle"]
               /\ conn' = [conn EXCEPT ![q] = NoItem]
               /\ UNCHANGED <<pool, current>>

\* The query is sent over connection i.
RunQuery(q, i) == /\ phase' = [phase EXCEPT ![q] = "running"]
                  /\ conn' = [conn EXCEPT ![q] = i]

\* query: acquire a connection from the pool that has the name now.
Query(q) ==
  /\ phase[q] = "idle"
  /\ \/ \E i \in Items : AcquireIdle(current, i) /\ RunQuery(q, i)
     \/ /\ AcquireWait(current, q)
        /\ phase' = [phase EXCEPT ![q] = "waiting"] /\ UNCHANGED conn
     \/ /\ AcquireCreates(current)
        /\ phase' = [phase EXCEPT ![q] = "creating"] /\ UNCHANGED conn
  /\ pool' = [pool EXCEPT ![q] = current]
  /\ UNCHANGED current

\* The waiting queue is full as well: the query fails at once.
QueryRefused(q) == /\ phase[q] = "idle"
                   /\ AcquireRefused(current)
                   /\ EndQuery(q)

Created(q) == /\ phase[q] = "creating"
              /\ \E i \in Items : AcquireCreated(pool[q], i) /\ RunQuery(q, i)
              /\ UNCHANGED <<pool, current>>

CreateFails(q) == /\ phase[q] = "creating"
                  /\ EndQuery(q)
                  /\ UNCHANGED poolVars

WaitTimeout(q) == /\ phase[q] = "waiting"
                  /\ AcquireTimeout(pool[q], q)
                  /\ EndQuery(q)

\* The rows arrive: queryRun releases the client to the pool of its closure.
Succeed(q) == /\ phase[q] = "running"
              /\ Release(pool[q], conn[q])
              /\ EndQuery(q)

\* The query fails, or the driver throws: queryEnd releases the client to the
\* pool that has the name by now.
Fail(q) == /\ phase[q] = "running"
           /\ Release(current, conn[q])
           /\ EndQuery(q)

\* db.init with another url: a new pool takes the name, the old is shut down.
Replace == /\ current < LastPool
           /\ current' = current + 1
           /\ Shutdown(current)
           /\ UNCHANGED queryVars

\* api.shutdownWeb: the current pool is shut down and keeps its name.
ShutdownCurrent == /\ ~shut[current]
                   /\ Shutdown(current)
                   /\ UNCHANGED <<current, queryVars>>

Timer(p) == /\ Refill(p) \/ RefillFails(p) \/ \E i \in Items : RefillDone(p, i)
            /\ UNCHANGED <<current, queryVars>>

Step(q) == Created(q) \/ CreateFails(q) \/ WaitTimeout(q) \/ Succeed(q) \/ Fail(q)

Next == \/ \E q \in Clients : Query(q) \/ QueryRefused(q) \/ Step(q)
        \/ Replace \/ ShutdownCurrent
        \/ \E p \in Pools : Timer(p)

Spec == Init /\ [][Next]_vars

\* Callbacks of the database and timers of the pool come in the end.
FairSpec == Spec /\ \A q \in Clients : WF_vars(Step(q))

-----------------------------------------------------------------------------
\* The type invariant.
TypeOK == /\ avail \in [Pools -> SUBSET Items]
          /\ busy \in [Pools -> SUBSET Items]
          /\ queue \in [Pools -> SUBSET Clients]
          /\ queueCount \in [Pools -> Int]
          /\ shut \in [Pools -> BOOLEAN]
          /\ making \in [Pools -> 0..MaxMaking]
          /\ current \in Pools
          /\ phase \in [Clients -> Phases]
          /\ pool \in [Clients -> Pools]
          /\ conn \in [Clients -> Items \cup {NoItem}]

\* Two queries never share a connection, and the connection of a running query
\* stays out of everybody's reach: it is busy in the pool it came from, and
\* idle in none.  Replacing and shutting down pools does not break this.
ConnectionsAreExclusive ==
  \A q \in Running :
    /\ conn[q] \in busy[pool[q]]
    /\ \A p \in Pools : conn[q] \notin avail[p]
    /\ \A r \in Running \ {q} : conn[r] # conn[q]

\* No connection becomes idle in a pool that was shut down, where nobody would
\* ever close it: not by the queries that were in flight, only by a creation the
\* housekeeping timer had started before.
ShutPoolStaysEmpty ==
  [][\A p \in Pools : shut[p] =>
       avail'[p] \subseteq avail[p] \/ making'[p] < making[p]]_vars

\* Every query gets its callback, with rows or with an error, also when the
\* pool is shut down under it or its connection is never handed over.
EveryQueryAnswered == \A q \in Clients : phase[q] # "idle" ~> phase[q] = "idle"
=============================================================================
