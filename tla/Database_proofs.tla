-------------------------- MODULE Database_proofs --------------------------
(***************************************************************************)
(* Proofs about the database layer.  First the queries over the connection *)
(* pools, for any number of queries, connections and pool objects and any  *)
(* limits: the type invariant, that connections are never shared, and that *)
(* no query leaves an idle connection in a pool that was shut down.  Then  *)
(* the operations that read a table page by page, for any keys, pages,     *)
(* limits, writes of clients and faults: which rows a scan may miss or     *)
(* give twice, that a migration and the archive lose no row, and the       *)
(* counts of a page.                                                       *)
(***************************************************************************)
EXTENDS DbQuery, DbPages, FiniteSetTheorems, WellFoundedInduction, TLAPS

\* The number of items in a set of items is a natural number.
LEMMA SizeType == \A S \in SUBSET Items : Size(S) \in Nat
BY ItemAssumption, FS_Subset, FS_CardinalityType DEF Size

-----------------------------------------------------------------------------
(* Types. *)

\* What a pool method may do to the state of the pools, as far as types go.
PoolTypeOK == /\ avail \in [Pools -> SUBSET Items]
              /\ busy \in [Pools -> SUBSET Items]
              /\ queue \in [Pools -> SUBSET Clients]
              /\ queueCount \in [Pools -> Int]
              /\ shut \in [Pools -> BOOLEAN]
              /\ making \in [Pools -> 0..MaxMaking]

QueryTypeOK == /\ current \in Pools
               /\ phase \in [Clients -> Phases]
               /\ pool \in [Clients -> Pools]
               /\ conn \in [Clients -> Items \cup {NoItem}]

LEMMA TypeSplit == TypeOK <=> PoolTypeOK /\ QueryTypeOK
BY DEF TypeOK, PoolTypeOK, QueryTypeOK

LEMMA TypeInit == Init => TypeOK
<1> SUFFICES ASSUME Init PROVE PoolTypeOK /\ QueryTypeOK
  BY TypeSplit
<1>1. PoolTypeOK
  BY LimitAssumption DEF Init, PoolInit, PoolTypeOK
<1>2. QueryTypeOK
  BY PoolsAssumption DEF Init, QueryTypeOK, Phases
<1> QED BY <1>1, <1>2

\* release keeps the types.
LEMMA ReleaseType ==
  ASSUME PoolTypeOK, NEW p \in Pools, NEW i \in Items \cup {NoItem}, Release(p, i)
  PROVE  PoolTypeOK'
<1>1. CASE ReleaseUnknown(p, i)
  BY <1>1 DEF ReleaseUnknown, poolVars, PoolTypeOK
<1>2. CASE ReleaseToWaiter(p, i)
  BY <1>2 DEF ReleaseToWaiter, PoolTypeOK
<1>3. CASE ReleaseIdle(p, i)
  <2>1. i \in Items
    BY <1>3 DEF ReleaseIdle, PoolTypeOK
  <2> QED BY <1>3, <2>1 DEF ReleaseIdle, PoolTypeOK
<1>4. CASE ReleaseDestroy(p, i)
  BY <1>4 DEF ReleaseDestroy, PoolTypeOK
<1> QED BY <1>1, <1>2, <1>3, <1>4 DEF Release

LEMMA TypeNext == TypeOK /\ [Next]_vars => TypeOK'
<1> SUFFICES ASSUME PoolTypeOK, QueryTypeOK, [Next]_vars PROVE PoolTypeOK' /\ QueryTypeOK'
  BY TypeSplit DEF TypeOK, PoolTypeOK, QueryTypeOK
<1>1. ASSUME NEW q \in Clients, Query(q) PROVE PoolTypeOK' /\ QueryTypeOK'
  <2>1. PoolTypeOK'
    <3>1. ASSUME NEW i \in Items, AcquireIdle(current, i) PROVE PoolTypeOK'
      BY <3>1 DEF AcquireIdle, PoolTypeOK, QueryTypeOK
    <3>2. CASE AcquireWait(current, q)
      BY <3>2 DEF AcquireWait, PoolTypeOK, QueryTypeOK
    <3>3. CASE AcquireCreates(current)
      BY <3>3 DEF AcquireCreates, PoolTypeOK, poolVars
    <3> QED BY <1>1, <3>1, <3>2, <3>3 DEF Query
  <2>2. QueryTypeOK'
    BY <1>1 DEF Query, RunQuery, QueryTypeOK, Phases
  <2> QED BY <2>1, <2>2
<1>2. ASSUME NEW q \in Clients, QueryRefused(q) PROVE PoolTypeOK' /\ QueryTypeOK'
  BY <1>2 DEF QueryRefused, AcquireRefused, EndQuery, PoolTypeOK, QueryTypeOK,
              poolVars, Phases
<1>3. ASSUME NEW q \in Clients, Created(q) PROVE PoolTypeOK' /\ QueryTypeOK'
  <2>1. pool[q] \in Pools
    BY DEF QueryTypeOK
  <2>2. PICK i \in Items : AcquireCreated(pool[q], i) /\ RunQuery(q, i)
    BY <1>3 DEF Created
  <2>3. PoolTypeOK'
    BY <2>1, <2>2 DEF AcquireCreated, PoolTypeOK
  <2>4. QueryTypeOK'
    BY <1>3, <2>2 DEF Created, RunQuery, QueryTypeOK, Phases
  <2> QED BY <2>3, <2>4
<1>4. ASSUME NEW q \in Clients, CreateFails(q) PROVE PoolTypeOK' /\ QueryTypeOK'
  BY <1>4 DEF CreateFails, EndQuery, PoolTypeOK, QueryTypeOK, poolVars, Phases
<1>5. ASSUME NEW q \in Clients, WaitTimeout(q) PROVE PoolTypeOK' /\ QueryTypeOK'
  BY <1>5 DEF WaitTimeout, AcquireTimeout, EndQuery, PoolTypeOK, QueryTypeOK, Phases
<1>6. ASSUME NEW q \in Clients, Succeed(q) \/ Fail(q) PROVE PoolTypeOK' /\ QueryTypeOK'
  <2>1. pool[q] \in Pools /\ current \in Pools /\ conn[q] \in Items \cup {NoItem}
    BY DEF QueryTypeOK
  <2>2. PoolTypeOK'
    BY <1>6, <2>1, ReleaseType DEF Succeed, Fail
  <2>3. QueryTypeOK'
    BY <1>6 DEF Succeed, Fail, EndQuery, QueryTypeOK, Phases
  <2> QED BY <2>2, <2>3
<1>7. CASE Replace
  <2>1. current + 1 \in Pools
    BY <1>7, PoolsAssumption DEF Replace, QueryTypeOK
  <2> QED BY <1>7, <2>1 DEF Replace, Shutdown, PoolTypeOK, QueryTypeOK, queryVars
<1>8. CASE ShutdownCurrent
  BY <1>8 DEF ShutdownCurrent, Shutdown, PoolTypeOK, QueryTypeOK, queryVars
<1>9. ASSUME NEW p \in Pools, Timer(p) PROVE PoolTypeOK' /\ QueryTypeOK'
  <2>1. CASE Refill(p)
    <3> DEFINE missing == MinItems - Size(avail[p]) - Size(busy[p])
    <3>1. missing \in Int
      BY SizeType, LimitAssumption DEF PoolTypeOK
    <3>2. /\ missing > 0 /\ making[p] + missing <= MaxMaking
          /\ making' = [making EXCEPT ![p] = @ + missing]
      BY <2>1 DEF Refill
    <3> HIDE DEF missing
    <3>3. making' \in [Pools -> 0..MaxMaking]
      BY <3>1, <3>2, LimitAssumption DEF PoolTypeOK
    <3> QED BY <1>9, <2>1, <3>3 DEF Timer, Refill, PoolTypeOK, QueryTypeOK, queryVars
  <2>2. CASE RefillFails(p)
    BY <1>9, <2>2, LimitAssumption
       DEF Timer, RefillFails, PoolTypeOK, QueryTypeOK, queryVars
  <2>3. ASSUME NEW i \in Items, RefillDone(p, i) PROVE PoolTypeOK' /\ QueryTypeOK'
    BY <1>9, <2>3, LimitAssumption
       DEF Timer, RefillDone, PoolTypeOK, QueryTypeOK, queryVars
  <2> QED BY <1>9, <2>1, <2>2, <2>3 DEF Timer
<1>10. CASE UNCHANGED vars
  BY <1>10 DEF vars, PoolTypeOK, QueryTypeOK
<1> QED BY <1>1, <1>2, <1>3, <1>4, <1>5, <1>6, <1>7, <1>8, <1>9, <1>10 DEF Next, Step

\* TypeOK is an invariant for all values of the constants.
THEOREM TypeCorrect == Spec => []TypeOK
BY TypeInit, TypeNext, PTL DEF Spec

-----------------------------------------------------------------------------
(* No query leaves an idle connection behind in a pool that was shut down. *)

\* Only ReleaseIdle, AcquireIdle, Shutdown and RefillDone change avail, and the
\* limit of -1 keeps ReleaseIdle from a pool that was shut down.
LEMMA ShutStep ==
  ASSUME TypeOK, Next, NEW p \in Pools, shut[p]
  PROVE  avail'[p] \subseteq avail[p] \/ making'[p] < making[p]
<1>0. Size(avail[p]) \in Nat /\ making \in [Pools -> Int] /\ avail \in [Pools -> SUBSET Items]
  BY SizeType DEF TypeOK
<1>1. ASSUME NEW r \in Pools, NEW i, Release(r, i) PROVE avail'[p] \subseteq avail[p]
  <2>1. CASE ReleaseIdle(r, i)
    <3>1. r # p
      BY <1>0, <2>1 DEF ReleaseIdle, MaxOf
    <3> QED BY <1>0, <2>1, <3>1 DEF ReleaseIdle
  <2>2. CASE avail' = avail
    BY <2>2
  <2> QED BY <1>1, <2>1, <2>2
          DEF Release, ReleaseUnknown, ReleaseToWaiter, ReleaseDestroy, poolVars
<1>2. ASSUME NEW q \in Clients, Query(q) PROVE avail'[p] \subseteq avail[p]
  BY <1>0, <1>2 DEF Query, AcquireIdle, AcquireWait, AcquireCreates, poolVars
<1>3. ASSUME NEW q \in Clients, QueryRefused(q) \/ Created(q) \/ CreateFails(q) \/ WaitTimeout(q)
      PROVE avail' = avail
  BY <1>3 DEF QueryRefused, AcquireRefused, Created, AcquireCreated, CreateFails,
              WaitTimeout, AcquireTimeout, poolVars
<1>4. ASSUME NEW q \in Clients, Succeed(q) \/ Fail(q) PROVE avail'[p] \subseteq avail[p]
  <2>1. pool[q] \in Pools /\ current \in Pools
    BY DEF TypeOK
  <2> QED BY <1>1, <1>4, <2>1 DEF Succeed, Fail
<1>5. CASE Replace \/ ShutdownCurrent
  BY <1>0, <1>5 DEF Replace, ShutdownCurrent, Shutdown
<1>6. ASSUME NEW r \in Pools, Timer(r)
      PROVE  avail'[p] \subseteq avail[p] \/ making'[p] < making[p]
  BY <1>0, <1>6 DEF Timer, Refill, RefillFails, RefillDone
<1> QED BY <1>2, <1>3, <1>4, <1>5, <1>6 DEF Next, Step

\* No query leaves an idle connection in a pool that was shut down, whatever the
\* limits of the pools are.
THEOREM ShutPools == Spec => ShutPoolStaysEmpty
<1>1. TypeOK /\ [Next]_vars =>
        [\A p \in Pools : shut[p] =>
           avail'[p] \subseteq avail[p] \/ making'[p] < making[p]]_vars
  BY ShutStep
<1> QED BY <1>1, TypeCorrect, PTL DEF Spec, ShutPoolStaysEmpty

-----------------------------------------------------------------------------
(* Connections are exclusive. *)

\* An item is in one place: idle or busy, in one pool.
OnePlace == /\ \A p \in Pools : avail[p] \cap busy[p] = {}
            /\ \A p, r \in Pools : p # r =>
                 (avail[p] \cup busy[p]) \cap (avail[r] \cup busy[r]) = {}

\* The connection of a running query is busy where it was taken from, and is
\* the connection of no other query.
Owned == \A q \in Running : /\ conn[q] \in busy[pool[q]]
                            /\ \A r \in Running \ {q} : conn[r] # conn[q]

Exclusive == TypeOK /\ OnePlace /\ Owned

LEMMA ExclusiveInit == Init => Exclusive
<1>1. Init => OnePlace /\ Owned
  BY DEF Init, PoolInit, OnePlace, Owned, Running
<1> QED BY <1>1, TypeInit DEF Exclusive

\* A query that starts to run on an item nobody has, which becomes busy.
LEMMA RunStep ==
  ASSUME Exclusive, NEW q \in Clients, phase[q] # "running", NEW p \in Pools, NEW i \in Items,
         RunQuery(q, i), pool' = [pool EXCEPT ![q] = p],
         busy' = [busy EXCEPT ![p] = @ \cup {i}],
         \A r \in Running : conn[r] # i
  PROVE  Owned'
<1>1. /\ Running' = Running \cup {q} /\ q \notin Running
      /\ \A r \in Running : conn'[r] = conn[r] /\ pool'[r] = pool[r]
      /\ conn'[q] = i /\ pool'[q] = p
  BY DEF RunQuery, Running, Exclusive, TypeOK
<1>2. \A x \in Pools : busy[x] \subseteq busy'[x] /\ i \in busy'[p]
  BY DEF Exclusive, TypeOK
<1>3. \A r \in Running : pool[r] \in Pools
  BY DEF Running, Exclusive, TypeOK
<1> QED BY <1>1, <1>2, <1>3 DEF Owned, Exclusive

\* A query that stops running, or was not running; other queries' items stay busy.
LEMMA EndStep ==
  ASSUME Exclusive, NEW q \in Clients, EndQuery(q),
         \A r \in Running \ {q} : conn[r] \in busy'[pool[r]]
  PROVE  Owned'
<1>1. /\ Running' = Running \ {q}
      /\ \A r \in Running \ {q} : conn'[r] = conn[r] /\ pool'[r] = pool[r]
  BY DEF EndQuery, Running, Exclusive, TypeOK
<1> QED BY <1>1 DEF Owned, Exclusive

\* release disturbs no other query, to whichever pool the item is given back.
LEMMA ReleaseStep ==
  ASSUME Exclusive, NEW q \in Running, NEW p \in Pools, Release(p, conn[q]), EndQuery(q)
  PROVE  OnePlace' /\ Owned'
<1>1. OnePlace'
  <2>1. CASE ReleaseIdle(p, conn[q])
    BY <2>1 DEF ReleaseIdle, OnePlace, Exclusive, TypeOK
  <2>2. CASE ReleaseDestroy(p, conn[q])
    BY <2>2 DEF ReleaseDestroy, OnePlace, Exclusive, TypeOK
  <2>3. CASE avail' = avail /\ busy' = busy
    BY <2>3 DEF OnePlace, Exclusive
  <2> QED BY <2>1, <2>2, <2>3 DEF Release, ReleaseUnknown, ReleaseToWaiter, poolVars
<1>2. \A x \in Pools : busy[x] \ {conn[q]} \subseteq busy'[x]
  BY DEF Release, ReleaseUnknown, ReleaseToWaiter, ReleaseIdle, ReleaseDestroy,
         poolVars, Exclusive, TypeOK
<1>3. \A r \in Running \ {q} : conn[r] \in busy'[pool[r]]
  <2> SUFFICES ASSUME NEW r \in Running \ {q} PROVE conn[r] \in busy'[pool[r]]
    OBVIOUS
  <2>1. pool[r] \in Pools /\ conn[r] \in busy[pool[r]] /\ conn[r] # conn[q]
    BY DEF Exclusive, Owned, Running, TypeOK
  <2> QED BY <1>2, <2>1
<1>4. q \in Clients
  BY DEF Running
<1> QED BY <1>1, <1>3, <1>4, EndStep

LEMMA ExclusiveNext == Exclusive /\ [Next]_vars => Exclusive'
<1> SUFFICES ASSUME Exclusive, [Next]_vars PROVE OnePlace' /\ Owned'
  BY TypeNext DEF Exclusive
<1> USE DEF Exclusive
<1>0. \A r \in Running : /\ r \in Clients /\ pool[r] \in Pools
                         /\ conn[r] \in busy[pool[r]] /\ conn[r] \in Live
  BY DEF Owned, Running, TypeOK, Live
<1>1. ASSUME NEW q \in Clients, Query(q) PROVE OnePlace' /\ Owned'
  <2>0. phase[q] # "running" /\ current \in Pools /\ pool' = [pool EXCEPT ![q] = current]
    BY <1>1 DEF Query, TypeOK
  <2>1. ASSUME NEW i \in Items, AcquireIdle(current, i), RunQuery(q, i)
        PROVE  OnePlace' /\ Owned'
    <3>1. OnePlace'
      BY <2>0, <2>1 DEF AcquireIdle, OnePlace, TypeOK
    <3>2. \A r \in Running : conn[r] # i
      BY <1>0, <2>0, <2>1 DEF AcquireIdle, OnePlace
    <3> QED BY <2>0, <2>1, <3>1, <3>2, RunStep DEF AcquireIdle
  <2>2. ASSUME avail' = avail, busy' = busy, conn' = conn, Running' = Running
        PROVE  OnePlace' /\ Owned'
    <3>1. \A r \in Running : pool'[r] = pool[r]
      BY <2>0, <1>0 DEF Running, TypeOK
    <3> QED BY <2>2, <3>1 DEF OnePlace, Owned
  <2>3. ASSUME phase' = [phase EXCEPT ![q] = "waiting"] \/ phase' = [phase EXCEPT ![q] = "creating"]
        PROVE  Running' = Running
    BY <2>0, <2>3 DEF Running, TypeOK
  <2> QED BY <1>1, <2>1, <2>2, <2>3 DEF Query, AcquireWait, AcquireCreates, poolVars
<1>2. ASSUME NEW q \in Clients, QueryRefused(q) \/ CreateFails(q) \/ WaitTimeout(q)
      PROVE  OnePlace' /\ Owned'
  <2>1. avail' = avail /\ busy' = busy /\ EndQuery(q)
    BY <1>2 DEF QueryRefused, AcquireRefused, CreateFails, WaitTimeout, AcquireTimeout, poolVars
  <2> QED BY <1>0, <2>1, EndStep DEF OnePlace
<1>3. ASSUME NEW q \in Clients, Created(q) PROVE OnePlace' /\ Owned'
  <2>1. PICK i \in Items : AcquireCreated(pool[q], i) /\ RunQuery(q, i)
    BY <1>3 DEF Created
  <2>2. pool[q] \in Pools /\ phase[q] # "running" /\ pool' = [pool EXCEPT ![q] = pool[q]]
    BY <1>3 DEF Created, TypeOK
  <2>3. i \notin Live /\ \A p \in Pools : i \notin avail[p] /\ i \notin busy[p]
    BY <2>1 DEF AcquireCreated, Live
  <2>4. OnePlace'
    BY <2>1, <2>2, <2>3 DEF AcquireCreated, OnePlace, TypeOK
  <2>5. \A r \in Running : conn[r] # i
    BY <1>0, <2>3
  <2> QED BY <2>1, <2>2, <2>4, <2>5, RunStep DEF AcquireCreated
<1>4. ASSUME NEW q \in Clients, Succeed(q) \/ Fail(q) PROVE OnePlace' /\ Owned'
  <2>1. q \in Running /\ pool[q] \in Pools /\ current \in Pools
    BY <1>4 DEF Succeed, Fail, Running, TypeOK
  <2> QED BY <1>4, <2>1, ReleaseStep DEF Succeed, Fail
<1>5. CASE Replace \/ ShutdownCurrent
  <2>1. /\ UNCHANGED <<phase, pool, conn, busy>>
        /\ \A p \in Pools : avail'[p] \subseteq avail[p]
    BY <1>5 DEF Replace, ShutdownCurrent, Shutdown, queryVars, TypeOK
  <2> QED BY <2>1 DEF OnePlace, Owned, Running
<1>6. ASSUME NEW p \in Pools, Timer(p) PROVE OnePlace' /\ Owned'
  <2>1. UNCHANGED <<phase, pool, conn, busy>>
    BY <1>6 DEF Timer, Refill, RefillFails, RefillDone, queryVars
  <2>2. Owned'
    BY <2>1 DEF Owned, Running
  <2>3. CASE avail' = avail
    BY <2>1, <2>2, <2>3 DEF OnePlace
  <2>4. ASSUME NEW i \in Items, RefillDone(p, i) PROVE OnePlace'
    <3>1. \A r \in Pools : i \notin avail[r] /\ i \notin busy[r]
      BY <2>4 DEF RefillDone, Live
    <3> QED BY <2>1, <2>4, <3>1 DEF RefillDone, OnePlace, TypeOK
  <2> QED BY <1>6, <2>2, <2>3, <2>4 DEF Timer, Refill, RefillFails
<1>7. CASE UNCHANGED vars
  BY <1>7 DEF vars, OnePlace, Owned, Running
<1> QED BY <1>1, <1>2, <1>3, <1>4, <1>5, <1>6, <1>7 DEF Next, Step

\* No two queries share a connection and none loses its connection to a pool,
\* for any number of pools that replace each other under the running queries.
THEOREM ConnectionsExclusive == Spec => []ConnectionsAreExclusive
<1>1. Exclusive => ConnectionsAreExclusive
  <2> SUFFICES ASSUME Exclusive, NEW q \in Running
               PROVE  /\ conn[q] \in busy[pool[q]]
                      /\ \A p \in Pools : conn[q] \notin avail[p]
                      /\ \A r \in Running \ {q} : conn[r] # conn[q]
    BY DEF ConnectionsAreExclusive
  <2>1. pool[q] \in Pools
    BY DEF Exclusive, TypeOK, Running
  <2> QED BY <2>1 DEF Exclusive, OnePlace, Owned
<1> QED BY <1>1, ExclusiveInit, ExclusiveNext, PTL DEF Spec

-----------------------------------------------------------------------------
(* Sizes of sets of rows, and the rows that come first.                    *)

\* Sets of rows are finite, and have a size that their subsets do not exceed.
LEMMA KeySets ==
  ASSUME NEW A \in SUBSET Keys
  PROVE  /\ IsFiniteSet(A) /\ Cardinality(A) \in Nat
         /\ Cardinality(A) = 0 <=> A = {}
         /\ \A B \in SUBSET A : Cardinality(B) <= Cardinality(A)
<1>1. IsFiniteSet(A)
  BY KeyAssumption, FS_Subset
<1> QED
  BY <1>1, FS_CardinalityType, FS_EmptySet, FS_Subset

\* Two sets of rows that have none in common.
LEMMA Disjoint ==
  ASSUME NEW A \in SUBSET Keys, NEW B \in SUBSET Keys, A \cap B = {}
  PROVE  Cardinality(A \cup B) = Cardinality(A) + Cardinality(B)
<1>1. IsFiniteSet(A) /\ IsFiniteSet(B) /\ Cardinality(A) \in Nat /\ Cardinality(B) \in Nat
  BY KeySets
<1>2. Cardinality(A \cup B) = Cardinality(A) + Cardinality(B) - Cardinality(A \cap B)
  BY <1>1, FS_Union
<1>3. Cardinality(A \cap B) = 0
  BY FS_EmptySet
<1> QED
  BY <1>1, <1>2, <1>3

\* A set with one more row.
LEMMA OneRow ==
  ASSUME NEW A \in SUBSET Keys, NEW B \in SUBSET Keys, NEW k, B \subseteq A \cup {k}
  PROVE  Cardinality(B) <= Cardinality(A) + 1
<1>1. IsFiniteSet(A) /\ Cardinality(A) \in Nat
  BY KeySets
<1>2. IsFiniteSet(A \cup {k}) /\ Cardinality(A \cup {k}) <= Cardinality(A) + 1
  BY <1>1, FS_AddElement
<1>3. Cardinality(B) <= Cardinality(A \cup {k}) /\ Cardinality(A \cup {k}) \in Nat
  BY <1>2, FS_Subset, FS_CardinalityType
<1>4. Cardinality(B) \in Nat
  BY KeySets
<1> QED
  BY <1>1, <1>2, <1>3, <1>4

\* A page has a least row.
LEMMA Least ==
  ASSUME NEW T \in SUBSET Keys, T # {}
  PROVE  \E x \in T : \A y \in T : x <= y
<1> DEFINE R == OpToRel(<, Nat)
<1>1. IsWellFoundedOn(R, Nat)
  BY NatLessThanWellFounded
<1>2. \A x, y \in Nat : <<y, x>> \in R <=> y < x
  BY DEF OpToRel
<1>3. T \subseteq Nat
  BY KeyAssumption
<1> HIDE DEF R
<1>4. PICK x \in T : \A y \in T : ~(<<y, x>> \in R)
  BY <1>1, <1>3, WFMin
<1>5. \A y \in T : ~(y < x)
  BY <1>2, <1>3, <1>4
<1> QED
  BY <1>3, <1>5

\* The rows of S before k.
Before(S, k) == {j \in S : j < k}

\* An earlier row has fewer rows before it.
LEMMA BeforeSize ==
  ASSUME NEW S \in SUBSET Keys, NEW k \in Keys
  PROVE  /\ Before(S, k) \in SUBSET Keys /\ Cardinality(Before(S, k)) \in Nat
         /\ \A j \in Before(S, k) : Cardinality(Before(S, j)) < Cardinality(Before(S, k))
<1>1. Before(S, k) \in SUBSET Keys
  BY DEF Before
<1>2. IsFiniteSet(Before(S, k)) /\ Cardinality(Before(S, k)) \in Nat
  BY <1>1, KeySets
<1>3. ASSUME NEW j \in Before(S, k)
      PROVE  Cardinality(Before(S, j)) < Cardinality(Before(S, k))
  <2>1. Before(S, j) \subseteq Before(S, k) /\ j \notin Before(S, j)
    <3>1. j \in S /\ j < k /\ j \in Nat /\ k \in Nat
      BY KeyAssumption DEF Before
    <3>2. ASSUME NEW x \in Before(S, j) PROVE x \in Before(S, k)
      <4>1. x \in S /\ x < j /\ x \in Nat
        BY KeyAssumption DEF Before
      <4> QED
        BY <3>1, <4>1 DEF Before
    <3>3. j \notin Before(S, j)
      <4>1. ~(j < j)
        BY <3>1
      <4> QED
        BY <4>1 DEF Before
    <3> QED
      BY <3>2, <3>3
  <2>2. Before(S, j) \in SUBSET Before(S, k) /\ Before(S, j) # Before(S, k)
    BY <2>1
  <2>3. /\ Cardinality(Before(S, j)) <= Cardinality(Before(S, k))
        /\ Cardinality(Before(S, k)) # Cardinality(Before(S, j))
    BY <1>2, <2>2, FS_Subset
  <2>4. Cardinality(Before(S, j)) \in Nat
    BY <2>1, <1>1, KeySets
  <2> QED
    BY <1>2, <2>3, <2>4
<1> QED
  BY <1>1, <1>2, <1>3

\* First takes n rows, or all.
LEMMA FirstSize ==
  ASSUME NEW S \in SUBSET Keys, NEW n \in Nat
  PROVE  /\ First(S, n) \in SUBSET S
         /\ Cardinality(First(S, n)) = IF Cardinality(S) < n THEN Cardinality(S) ELSE n
         /\ Cardinality(First(S, n)) < n => First(S, n) = S
<1> DEFINE F == First(S, n)
<1>0. S \subseteq Nat /\ IsFiniteSet(S) /\ Cardinality(S) \in Nat
  BY KeyAssumption, KeySets
<1>1. F \in SUBSET S /\ \A k \in S : k \in F <=> Cardinality(Before(S, k)) < n
  BY DEF First, Before
<1> HIDE DEF F
<1>2. F \in SUBSET Keys /\ IsFiniteSet(F) /\ Cardinality(F) \in Nat /\ Cardinality(F) <= Cardinality(S)
  <2>1. F \in SUBSET Keys
    BY <1>1
  <2> QED
    BY <1>1, <2>1, KeySets
<1>3. Cardinality(F) <= n
  <2> DEFINE rank == [k \in F |-> Cardinality(Before(S, k))]
  <2>1. \A k \in F : k \in Keys /\ Cardinality(Before(S, k)) \in 0 .. n - 1
    <3>1. ASSUME NEW k \in F PROVE k \in Keys /\ Cardinality(Before(S, k)) \in 0 .. n - 1
      <4>1. k \in Keys /\ Cardinality(Before(S, k)) \in Nat /\ Cardinality(Before(S, k)) < n
        BY <1>1, <1>2, BeforeSize
      <4> QED
        BY <4>1
    <3> QED
      BY <3>1
  <2>2. rank \in [F -> 0 .. n - 1]
    BY <2>1
  <2>3. ASSUME NEW i \in F, NEW k \in F, rank[i] = rank[k] PROVE i = k
    <3>1. i \in S /\ k \in S /\ i \in Keys /\ k \in Keys /\ i \in Nat /\ k \in Nat
      BY <1>0, <1>1, <1>2
    <3>2. CASE i < k
      <4>1. i \in Before(S, k)
        BY <3>1, <3>2 DEF Before
      <4>2. Cardinality(Before(S, i)) < Cardinality(Before(S, k))
        BY <3>1, <4>1, BeforeSize
      <4>3. Cardinality(Before(S, i)) \in Nat /\ Cardinality(Before(S, k)) \in Nat
        BY <3>1, BeforeSize
      <4> QED
        BY <2>3, <4>2, <4>3
    <3>3. CASE k < i
      <4>1. k \in Before(S, i)
        BY <3>1, <3>3 DEF Before
      <4>2. Cardinality(Before(S, k)) < Cardinality(Before(S, i))
        BY <3>1, <4>1, BeforeSize
      <4>3. Cardinality(Before(S, i)) \in Nat /\ Cardinality(Before(S, k)) \in Nat
        BY <3>1, BeforeSize
      <4> QED
        BY <2>3, <4>2, <4>3
    <3> QED
      BY <3>1, <3>2, <3>3
  <2> HIDE DEF rank
  <2>4. rank \in Injection(F, 0 .. n - 1)
    BY <2>2, <2>3 DEF Injection, IsInjective
  <2>5. IsFiniteSet(0 .. n - 1) /\ Cardinality(0 .. n - 1) = n
    <3>1. 0 \in Int /\ n - 1 \in Int
      OBVIOUS
    <3>2. IsFiniteSet(0 .. n - 1)
          /\ Cardinality(0 .. n - 1) = IF 0 > n - 1 THEN 0 ELSE n - 1 - 0 + 1
      BY <3>1, FS_Interval
    <3> QED
      BY <3>2
  <2> QED
    BY <2>4, <2>5, FS_Injection
<1>4. ASSUME F # S PROVE Cardinality(F) >= n
  <2>1. PICK k \in S \ F : \A j \in S \ F : k <= j
    <3>1. S \ F \in SUBSET Keys /\ S \ F # {}
      BY <1>1, <1>4
    <3> QED
      BY <3>1, Least
  <2>2. Before(S, k) \subseteq F
    <3>1. ASSUME NEW j \in S, j < k, j \notin F PROVE FALSE
      BY <1>0, <2>1, <3>1
    <3> QED
      BY <3>1 DEF Before
  <2>3. k \in Keys /\ Cardinality(Before(S, k)) >= n /\ Cardinality(Before(S, k)) \in Nat
    <3>1. k \in Keys /\ Cardinality(Before(S, k)) \in Nat
      BY BeforeSize
    <3>2. ~(Cardinality(Before(S, k)) < n)
      BY <1>1
    <3> QED
      BY <3>1, <3>2
  <2>4. Cardinality(Before(S, k)) <= Cardinality(F)
    BY <1>2, <2>2, KeySets
  <2> QED
    BY <1>2, <2>3, <2>4
<1>5. Cardinality(F) < n => F = S
  BY <1>2, <1>4
<1>6. Cardinality(F) = IF Cardinality(S) < n THEN Cardinality(S) ELSE n
  <2>1. CASE F = S
    BY <1>0, <1>3, <2>1
  <2>2. CASE F # S
    BY <1>0, <1>2, <1>3, <1>4, <2>2
  <2> QED
    BY <2>1, <2>2
<1> QED
  BY <1>1, <1>5, <1>6 DEF F

\* What is left after the first n rows of S, when another row is inserted.
LEMMA RestShifts ==
  ASSUME NEW S \in SUBSET Keys, NEW n \in Nat, NEW x \in Keys, x \notin S
  PROVE  LET T == S \cup {x}
         IN /\ S \ First(S, n) \subseteq T \ First(T, n)
            /\ \E y \in Keys : T \ First(T, n) \subseteq (S \ First(S, n)) \cup {y}
<1> DEFINE T == S \cup {x}
           A == S \ First(S, n)
           B == T \ First(T, n)
<1>0. T \in SUBSET Keys /\ IsFiniteSet(S) /\ Cardinality(S) \in Nat
      /\ Cardinality(T) = Cardinality(S) + 1
  BY KeySets, FS_AddElement
<1>1. A \subseteq B
  <2> SUFFICES ASSUME NEW k \in A PROVE k \in B
    OBVIOUS
  <2>1. k \in S /\ k \in Keys /\ ~(Cardinality(Before(S, k)) < n)
    BY DEF First, Before
  <2>2. Before(S, k) \subseteq Before(T, k) /\ Before(T, k) \in SUBSET Keys
    BY <1>0 DEF Before
  <2>3. Cardinality(Before(S, k)) <= Cardinality(Before(T, k)) /\ Cardinality(Before(T, k)) \in Nat
    BY <2>2, KeySets
  <2>4. Cardinality(Before(S, k)) \in Nat
    BY <2>1, BeforeSize
  <2>5. ~(Cardinality(Before(T, k)) < n)
    BY <2>1, <2>3, <2>4
  <2>6. k \notin First(T, n)
    BY <2>5 DEF First, Before
  <2> QED
    BY <2>1, <2>6
<1>2. /\ Cardinality(A) = Cardinality(S) - Cardinality(First(S, n))
      /\ Cardinality(B) = Cardinality(T) - Cardinality(First(T, n))
  <2>1. ASSUME NEW U \in SUBSET Keys
        PROVE  Cardinality(U \ First(U, n)) = Cardinality(U) - Cardinality(First(U, n))
    <3>1. First(U, n) \in SUBSET U
      BY FirstSize
    <3>2. (U \ First(U, n)) \cup First(U, n) = U /\ (U \ First(U, n)) \cap First(U, n) = {}
      BY <3>1
    <3>3. Cardinality(U) = Cardinality(U \ First(U, n)) + Cardinality(First(U, n))
      <4>1. U \ First(U, n) \in SUBSET Keys /\ First(U, n) \in SUBSET Keys
        BY <3>1
      <4>2. Cardinality((U \ First(U, n)) \cup First(U, n))
              = Cardinality(U \ First(U, n)) + Cardinality(First(U, n))
        BY <3>2, <4>1, Disjoint
      <4> QED
        BY <3>2, <4>2
    <3>4. Cardinality(U \ First(U, n)) \in Nat /\ Cardinality(First(U, n)) \in Nat
      BY <3>1, KeySets
    <3> QED
      BY <3>3, <3>4
  <2> QED
    BY <1>0, <2>1
<1>3. Cardinality(B) <= Cardinality(A) + 1
  <2>1. /\ Cardinality(First(S, n)) = IF Cardinality(S) < n THEN Cardinality(S) ELSE n
        /\ Cardinality(First(T, n)) = IF Cardinality(T) < n THEN Cardinality(T) ELSE n
    BY <1>0, FirstSize
  <2> QED
    BY <1>0, <1>2, <2>1
<1>4. A \in SUBSET Keys /\ B \in SUBSET Keys
  BY <1>0
<1> HIDE DEF A, B, T
<1>5. Cardinality(B \ A) <= 1 /\ Cardinality(B \ A) \in Nat /\ IsFiniteSet(B \ A)
  <2>1. Cardinality(B) = Cardinality(A) + Cardinality(B \ A)
    <3>1. A \cup (B \ A) = B /\ A \cap (B \ A) = {} /\ B \ A \in SUBSET Keys
      BY <1>1, <1>4
    <3>2. Cardinality(A \cup (B \ A)) = Cardinality(A) + Cardinality(B \ A)
      BY <1>4, <3>1, Disjoint
    <3> QED
      BY <3>1, <3>2
  <2>2. Cardinality(A) \in Nat /\ Cardinality(B \ A) \in Nat /\ IsFiniteSet(B \ A)
    BY <1>4, KeySets
  <2> QED
    BY <1>3, <2>1, <2>2
<1>6. \E y \in Keys : B \subseteq A \cup {y}
  <2>1. CASE B \ A = {}
    BY <2>1
  <2>2. CASE B \ A # {}
    <3>1. Cardinality(B \ A) # 0
      BY <1>5, <2>2, FS_EmptySet
    <3>2. Cardinality(B \ A) = 1
      BY <1>5, <3>1
    <3>3. PICK y : B \ A = {y}
      BY <1>5, <3>2, FS_Singleton
    <3> QED
      BY <1>4, <3>3
  <2> QED
    BY <2>1, <2>2
<1> QED
  BY <1>1, <1>6 DEF A, B, T

-----------------------------------------------------------------------------
(* What the operators of the scan leave. *)

Places == {"dropTemp", "select", "rows", "unlink", "call", "drop", "create", "cleanup",
           "done", "failed"}
Scans == [start : Nat, count : Int, got : SUBSET Keys, page : SUBSET Keys, nrows : Nat,
          box : 1..NBoxes, returned : Nat]

\* What Give leaves.
LEMMA Given ==
  ASSUME PagesTypeOK, NEW S \in SUBSET Keys, Give(S)
  PROVE  /\ seen' = seen \cup S /\ seen' \subseteq Keys /\ repeats' \in Nat
         /\ repeats' <= repeats + Cardinality(S \cap seen)
         /\ repeats <= MaxWrites => repeats' <= MaxWrites + 1
<1>1. S \cap seen \in SUBSET Keys /\ seen \subseteq Keys /\ repeats \in Nat
  BY DEF PagesTypeOK
<1>2. Cardinality(S \cap seen) \in Nat
  BY <1>1, KeySets
<1> DEFINE again == repeats + Cardinality(S \cap seen)
<1>3. again \in Nat /\ MaxWrites \in Nat
  BY <1>1, <1>2, CountAssumption
<1>4. seen' = seen \cup S /\ repeats' = IF again <= MaxWrites THEN again ELSE MaxWrites + 1
  BY DEF Give
<1> HIDE DEF again
<1>5. repeats' \in Nat /\ repeats' <= again
  BY <1>3, <1>4
<1> QED
  BY <1>1, <1>3, <1>4, <1>5 DEF again

\* What a scan begins with.
LEMMA StartedType ==
  ASSUME task \in Tasks
  PROVE  /\ Started \in Scans /\ Started.start = 0 /\ Started.got = {} /\ Started.page = {}
         /\ Started.box = 1 /\ Started.nrows = 0 /\ Started.returned = 0
         /\ Started.count \in Nat \ {0}
         /\ Started.count = IF task.limit > 0 /\ task.limit < Count THEN task.limit ELSE Count
<1>1. task.limit \in Nat
  <2>1. 0 \in Nat /\ Limits \subseteq Nat
    BY CountAssumption
  <2> QED
    BY <2>1 DEF Tasks
<1>2. 1 \in 1..NBoxes
  BY BoxAssumption
<1> QED
  BY <1>1, <1>2, CountAssumption DEF Started, FirstScan, Scans

\* Advance keeps all of the scan but its count.
LEMMA AdvanceScan ==
  ASSUME task \in Tasks, leg \in 1..2, NEW sc \in Scans, Advance(sc)
  PROVE  /\ scan' \in Scans
         /\ scan'.start = sc.start /\ scan'.got = sc.got /\ scan'.page = sc.page
         /\ scan'.box = sc.box /\ scan'.nrows = sc.nrows /\ scan'.returned = sc.returned
         /\ \/ at' = "select" /\ More(sc) /\ scan'.count = PageCount(sc)
            \/ at' = ScanEnd /\ ~More(sc) /\ scan'.count = sc.count
         /\ at' \in {"select", "drop", "cleanup", "done"}
         /\ PageCount(sc) \in Int /\ task.limit \in Nat
<1>1. task.limit \in Nat
  <2>1. 0 \in Nat /\ Limits \subseteq Nat
    BY CountAssumption
  <2> QED
    BY <2>1 DEF Tasks
<1>2. PageCount(sc) \in Int
  BY <1>1 DEF PageCount, Scans
<1>3. CASE More(sc)
  <2>1. at' = "select" /\ scan' = [sc EXCEPT !.count = PageCount(sc)]
    BY <1>3 DEF Advance
  <2> HIDE DEF Advance
  <2> QED
    BY <1>1, <1>2, <1>3, <2>1 DEF Scans
<1>4. CASE ~More(sc)
  <2>1. at' = ScanEnd /\ scan' = sc
    BY <1>4 DEF Advance
  <2>2. ScanEnd \in {"drop", "cleanup", "done"}
    BY DEF ScanEnd
  <2> QED
    BY <1>1, <1>2, <1>4, <2>1, <2>2 DEF Scans
<1> QED
  BY <1>3, <1>4

\* The least row of a page.
LEMMA RowOfPage ==
  ASSUME scan \in Scans, scan.page # {}
  PROVE  Row \in scan.page /\ Row \in Keys /\ \A j \in scan.page : Row <= j
<1>1. scan.page \in SUBSET Keys
  BY DEF Scans
<1>2. \E k \in scan.page : \A j \in scan.page : k <= j
  BY <1>1, Least
<1> QED
  BY <1>1, <1>2 DEF Row

\* RowDone takes the row off the page and goes on with the next row or page.
LEMMA RowDoneScan ==
  ASSUME task \in Tasks, leg \in 1..2, scan \in Scans, scan.page # {}, RowDone
  PROVE  /\ scan' \in Scans
         /\ scan'.start = scan.start /\ scan'.got = scan.got /\ scan'.page = scan.page \ {Row}
         /\ scan'.box = scan.box /\ scan'.nrows = scan.nrows /\ scan'.returned = scan.returned
         /\ \/ at' = "rows" /\ scan'.page # {} /\ scan'.count = scan.count
            \/ /\ at' = "select" /\ scan'.page = {} /\ More(scan)
               /\ scan'.count = PageCount(scan)
            \/ at' = ScanEnd /\ scan'.page = {} /\ ~More(scan) /\ scan'.count = scan.count
         /\ at' \in {"rows", "select", "drop", "cleanup", "done"}
<1> DEFINE sc == [scan EXCEPT !.page = @ \ {Row}]
<1>1. /\ sc \in Scans
      /\ sc.start = scan.start /\ sc.got = scan.got /\ sc.page = scan.page \ {Row}
      /\ sc.box = scan.box /\ sc.nrows = scan.nrows /\ sc.returned = scan.returned
      /\ sc.count = scan.count
  BY DEF Scans
<1>2. IF sc.page = {} THEN Advance(sc) ELSE at' = "rows" /\ scan' = sc
  BY DEF RowDone
<1> HIDE DEF sc
<1>3. CASE sc.page = {}
  <2>1. Advance(sc)
    BY <1>2, <1>3
  <2>2. (More(sc) <=> More(scan)) /\ PageCount(sc) = PageCount(scan)
    BY <1>1 DEF More, PageCount
  <2> QED
    BY <1>1, <1>3, <2>1, <2>2, AdvanceScan
<1>4. CASE sc.page # {}
  BY <1>1, <1>2, <1>4
<1> QED
  BY <1>3, <1>4

\* What the end of db.getLocations leaves of the search.
LEMMA CallEndScan ==
  ASSUME NEW sc \in Scans, CallEnd(sc)
  PROVE  /\ scan' \in Scans
         /\ scan'.start = sc.start /\ scan'.got = sc.got /\ scan'.page = sc.page
         /\ scan'.nrows = sc.nrows /\ scan'.returned = sc.returned
         /\ \/ /\ at' = "call" /\ scan'.count = Count /\ (sc.start # 0 \/ sc.box < NBoxes)
               /\ scan'.box = IF sc.start = 0 THEN sc.box + 1 ELSE sc.box
            \/ at' = "done" /\ scan' = sc /\ sc.start = 0 /\ sc.box = NBoxes
<1>1. NBoxes \in Nat /\ Count \in Nat /\ sc.box \in 1..NBoxes /\ sc.start \in Nat
  BY BoxAssumption, CountAssumption DEF Scans
<1>2. CASE sc.start # 0 \/ sc.box < NBoxes
  <2>1. /\ at' = "call"
        /\ scan' = [sc EXCEPT !.count = Count, !.box = IF sc.start = 0 THEN @ + 1 ELSE @]
    BY <1>2 DEF CallEnd
  <2> DEFINE b == IF sc.start = 0 THEN sc.box + 1 ELSE sc.box
  <2>2. b \in 1..NBoxes
    BY <1>1, <1>2
  <2>3. scan' = [sc EXCEPT !.count = Count, !.box = b]
    BY <2>1
  <2> HIDE DEF b
  <2> DEFINE s1 == [sc EXCEPT !.count = Count]
  <2>4. /\ s1 \in Scans /\ s1.start = sc.start /\ s1.count = Count /\ s1.got = sc.got
        /\ s1.page = sc.page /\ s1.nrows = sc.nrows /\ s1.box = sc.box
        /\ s1.returned = sc.returned
    BY <1>1 DEF Scans
  <2>5. scan' = [s1 EXCEPT !.box = b]
    BY <2>3
  <2> HIDE DEF s1
  <2>6. /\ scan' \in Scans /\ scan'.start = s1.start /\ scan'.count = s1.count
        /\ scan'.got = s1.got /\ scan'.page = s1.page /\ scan'.nrows = s1.nrows
        /\ scan'.box = b /\ scan'.returned = s1.returned
    BY <2>2, <2>4, <2>5 DEF Scans
  <2> QED
    BY <1>2, <2>1, <2>4, <2>6 DEF b
<1>3. CASE ~(sc.start # 0 \/ sc.box < NBoxes)
  <2>1. at' = "done" /\ scan' = sc
    BY <1>3 DEF CallEnd
  <2> QED
    BY <1>1, <1>3, <2>1
<1> QED
  BY <1>2, <1>3

\* What a page of a scan leaves.
LEMMA PageScan ==
  ASSUME task \in Tasks, leg \in 1..2, scan \in Scans,
         NEW found \in SUBSET Keys, NEW token \in Nat, NEW count \in Int,
         ScanPage(found, token, count)
  PROVE  /\ scan' \in Scans /\ UNCHANGED given
         /\ scan'.start = token /\ scan'.got = {} /\ scan'.page = found
         /\ scan'.box = scan.box /\ scan'.returned = scan.returned
         /\ scan'.nrows = scan.nrows + Cardinality(found)
         /\ \/ at' = "rows" /\ found # {} /\ scan'.count = count
            \/ /\ at' = "select" /\ found = {} /\ token # 0
               /\ ~(task.limit > 0 /\ scan'.nrows >= task.limit)
               /\ scan'.count = IF task.limit > 0 /\ task.limit - scan'.nrows < count
                                THEN task.limit - scan'.nrows ELSE count
            \/ /\ at' = ScanEnd /\ found = {} /\ scan'.count = count
               /\ ~(token # 0 /\ ~(task.limit > 0 /\ scan'.nrows >= task.limit))
<1> DEFINE sc == [scan EXCEPT !.start = token, !.count = count, !.got = {},
                              !.page = found, !.nrows = @ + Cardinality(found)]
<1>1. Cardinality(found) \in Nat
  BY KeySets
<1>2. /\ sc \in Scans
      /\ sc.start = token /\ sc.got = {} /\ sc.page = found
      /\ sc.box = scan.box /\ sc.nrows = scan.nrows + Cardinality(found)
      /\ sc.returned = scan.returned /\ sc.count = count
  <2> DEFINE s1 == [scan EXCEPT !.start = token]
             s2 == [s1 EXCEPT !.count = count]
             s3 == [s2 EXCEPT !.got = {}]
             s4 == [s3 EXCEPT !.page = found]
  <2>1. /\ s1 \in Scans /\ s1.start = token /\ s1.nrows = scan.nrows
        /\ s1.box = scan.box /\ s1.returned = scan.returned
    BY DEF Scans
  <2>2. /\ s2 = [s1 EXCEPT !.count = count] /\ s3 = [s2 EXCEPT !.got = {}]
        /\ s4 = [s3 EXCEPT !.page = found] /\ {} \in SUBSET Keys
        /\ sc = [s4 EXCEPT !.nrows = scan.nrows + Cardinality(found)]
    OBVIOUS
  <2> HIDE DEF s1, s2, s3, s4, sc
  <2>3. /\ s2 \in Scans /\ s2.start = token /\ s2.count = count /\ s2.nrows = scan.nrows
        /\ s2.box = scan.box /\ s2.returned = scan.returned
    BY <2>1, <2>2 DEF Scans
  <2>4. /\ s3 \in Scans /\ s3.start = token /\ s3.count = count /\ s3.nrows = scan.nrows
        /\ s3.got = {} /\ s3.box = scan.box /\ s3.returned = scan.returned
    BY <2>2, <2>3 DEF Scans
  <2>5. /\ s4 \in Scans /\ s4.start = token /\ s4.count = count /\ s4.nrows = scan.nrows
        /\ s4.got = {} /\ s4.page = found /\ s4.box = scan.box /\ s4.returned = scan.returned
    BY <2>2, <2>4 DEF Scans
  <2>6. scan.nrows + Cardinality(found) \in Nat
    BY <1>1 DEF Scans
  <2> QED
    BY <2>2, <2>5, <2>6 DEF Scans
<1>3. /\ IF found = {} THEN Advance(sc) ELSE at' = "rows" /\ scan' = sc
      /\ UNCHANGED given
  BY DEF ScanPage
<1> HIDE DEF sc
<1>4. CASE found = {}
  <2>1. Advance(sc)
    BY <1>3, <1>4
  <2>2. /\ More(sc) <=> token # 0 /\ ~(task.limit > 0 /\ sc.nrows >= task.limit)
        /\ PageCount(sc) = IF task.limit > 0 /\ task.limit - sc.nrows < count
                           THEN task.limit - sc.nrows ELSE count
    BY <1>2 DEF More, PageCount
  <2> QED
    BY <1>2, <1>3, <1>4, <2>1, <2>2, AdvanceScan
<1>5. CASE found # {}
  BY <1>2, <1>3, <1>5
<1> QED
  BY <1>4, <1>5

\* What a page of a search leaves.
LEMMA PageSearch ==
  ASSUME PagesTypeOK, NEW found \in SUBSET Keys, NEW token \in Nat, NEW count \in Int,
         LocationsPage(found, token, count)
  PROVE  LET n == Cardinality(found \cap Within)
         IN /\ scan' \in Scans /\ Give(found \cap Within) /\ found \cap Within \in SUBSET Keys
            /\ n \in Nat
            /\ scan'.start = token /\ scan'.got = {} /\ scan'.page = scan.page
            /\ scan'.nrows = scan.nrows /\ scan'.returned = scan.returned + n
            /\ \/ /\ at' = "done" /\ token = 0 /\ scan.box = NBoxes /\ scan'.box = scan.box
               \/ /\ at' = "call" /\ (token # 0 \/ scan.box < NBoxes)
                  /\ scan'.box = IF token = 0 THEN scan.box + 1 ELSE scan.box
                  /\ scan'.count = Count
                  /\ scan'.returned >= Count \/ (token = 0 /\ scan.box = NBoxes)
               \/ /\ at' = "select" /\ (token # 0 \/ scan.box < NBoxes)
                  /\ scan'.box = IF token = 0 THEN scan.box + 1 ELSE scan.box
                  /\ scan'.returned < Count
                  /\ scan'.count = IF count > n THEN count - n
                                   ELSE IF count > 0 THEN 0 ELSE count
<1> DEFINE near == found \cap Within
           n == Cardinality(near)
           left == IF count > n THEN count - n ELSE IF count > 0 THEN 0 ELSE count
           sc == [scan EXCEPT !.start = token, !.count = left, !.got = {}, !.returned = @ + n]
<1>0. scan \in Scans /\ NBoxes \in Nat /\ Count \in Nat
  BY BoxAssumption, CountAssumption DEF PagesTypeOK, Scans
<1>1. near \in SUBSET Keys /\ n \in Nat
  <2>1. near \in SUBSET Keys
    OBVIOUS
  <2> QED
    BY <2>1, KeySets
<1>2. left \in Int
  BY <1>1
<1>3. /\ Give(near)
      /\ IF sc.returned >= Count \/ (token = 0 /\ sc.box = NBoxes) THEN CallEnd(sc)
         ELSE /\ at' = "select"
              /\ scan' = [sc EXCEPT !.box = IF token = 0 THEN @ + 1 ELSE @]
  BY DEF LocationsPage
<1> HIDE DEF left, n, near
<1>4. /\ sc \in Scans
      /\ sc.start = token /\ sc.got = {} /\ sc.page = scan.page /\ sc.count = left
      /\ sc.box = scan.box /\ sc.nrows = scan.nrows /\ sc.returned = scan.returned + n
  <2> DEFINE s1 == [scan EXCEPT !.start = token]
             s2 == [s1 EXCEPT !.count = left]
             s3 == [s2 EXCEPT !.got = {}]
  <2>1. /\ s1 \in Scans /\ s1.start = token /\ s1.page = scan.page /\ s1.nrows = scan.nrows
        /\ s1.box = scan.box /\ s1.returned = scan.returned
    BY <1>0 DEF Scans
  <2>2. /\ s2 = [s1 EXCEPT !.count = left] /\ s3 = [s2 EXCEPT !.got = {}]
        /\ {} \in SUBSET Keys
        /\ sc = [s3 EXCEPT !.returned = @ + n]
    OBVIOUS
  <2> HIDE DEF s1, s2, s3, sc
  <2>3. /\ s2 \in Scans /\ s2.start = token /\ s2.count = left /\ s2.page = scan.page
        /\ s2.nrows = scan.nrows /\ s2.box = scan.box /\ s2.returned = scan.returned
    BY <1>2, <2>1, <2>2 DEF Scans
  <2>4. /\ s3 \in Scans /\ s3.start = token /\ s3.count = left /\ s3.page = scan.page
        /\ s3.got = {} /\ s3.nrows = scan.nrows /\ s3.box = scan.box
        /\ s3.returned = scan.returned
    BY <2>2, <2>3 DEF Scans
  <2>5. s3.returned + n \in Nat /\ sc = [s3 EXCEPT !.returned = s3.returned + n]
    BY <1>0, <1>1, <2>2, <2>4 DEF Scans
  <2> QED
    BY <2>4, <2>5 DEF Scans
<1>5. sc.returned \in Nat /\ scan.box \in 1..NBoxes
  BY <1>0, <1>4 DEF Scans
<1> HIDE DEF sc
<1>6. CASE sc.returned >= Count \/ (token = 0 /\ sc.box = NBoxes)
  <2>1. CallEnd(sc)
    BY <1>3, <1>6
  <2> QED
    BY <1>0, <1>1, <1>3, <1>4, <1>6, <2>1, CallEndScan DEF near, n
<1>7. CASE ~(sc.returned >= Count \/ (token = 0 /\ sc.box = NBoxes))
  <2> DEFINE b == IF token = 0 THEN sc.box + 1 ELSE sc.box
  <2>1. at' = "select" /\ scan' = [sc EXCEPT !.box = b]
    BY <1>3, <1>7
  <2>2. b \in 1..NBoxes /\ (token # 0 \/ scan.box < NBoxes) /\ sc.returned < Count
    BY <1>0, <1>4, <1>5, <1>7
  <2> HIDE DEF b
  <2>3. /\ scan' \in Scans /\ scan'.box = b
        /\ scan'.start = token /\ scan'.got = {} /\ scan'.page = scan.page
        /\ scan'.count = left /\ scan'.nrows = scan.nrows /\ scan'.returned = scan.returned + n
    BY <1>4, <2>1, <2>2 DEF Scans
  <2> QED
    BY <1>1, <1>3, <1>4, <2>1, <2>2, <2>3 DEF near, n, left, b
<1> QED
  BY <1>6, <1>7

-----------------------------------------------------------------------------
(* What a select reads. *)

\* The rows of this box that the scan has not read when it goes on at s, those of the
\* boxes to come, and both, while there is another select to come.
AheadAt(s) == IF Sql THEN Scanned \ First(Scanned, s) ELSE {k \in Scanned : k > s}
LaterThan(b) == IF Op("locations") THEN {k \in table : BoxOf[k] > b} ELSE {}
Scanning == \/ at \in {"dropTemp", "select", "call"}
            \/ at \in {"rows", "unlink"} /\ scan.start # 0
Unscanned == AheadAt(scan.start) \cup LaterThan(scan.box)
Rest == IF Scanning THEN Unscanned ELSE {}

\* The rows that were read and not given to the callback yet.
Taken == CASE at = "failed" -> {}
           [] at = "unlink" -> scan.page \ {Row}
           [] OTHER -> scan.got \cup scan.page

PlaceInv ==
  /\ at \in {"rows", "unlink"} => scan.page # {} /\ ~Op("locations")
  /\ at \notin {"rows", "unlink", "failed"} => scan.page = {}
  /\ at \notin {"select", "failed"} => scan.got = {}
  /\ Sql => scan.got = {}
  /\ at = "unlink" => Op("archive") /\ Row \in seen
  /\ leg = 2 => Op("migrate")
  /\ at \in {"dropTemp", "drop", "create", "cleanup"} => Op("migrate")
  /\ at \in {"dropTemp", "drop", "create"} => leg = 1
  /\ at \in {"cleanup", "done"} /\ Op("migrate") => leg = 2
  /\ at = "call" => Op("locations")
  /\ task.limit > 0 => Op("del") \/ Op("update")
  /\ at = "dropTemp" => seen = {} /\ scan.start = 0

\* A request reads the rows N and ends with the token.
Reads(N, token) ==
  /\ N \subseteq AheadAt(scan.start)
  /\ token # 0 => AheadAt(token) = AheadAt(scan.start) \ N
  /\ token = 0 => AheadAt(scan.start) = N
  /\ ~Sql /\ token # 0 => scan.start <= token /\ \A k \in N : k <= token

\* The types of what a select looks at.
LEMMA ScannedType ==
  ASSUME PagesTypeOK
  PROVE  /\ Scanned \in SUBSET Keys /\ IsFiniteSet(Scanned) /\ Cardinality(Scanned) \in Nat
         /\ scan \in Scans /\ scan.start \in Nat /\ scan.count \in Int /\ scan.nrows \in Nat
         /\ scan.returned \in Nat /\ scan.box \in 1..NBoxes
         /\ scan.got \in SUBSET Keys /\ scan.page \in SUBSET Keys
<1>1. Scanned \in SUBSET Keys
  BY DEF PagesTypeOK, Scanned
<1>2. scan \in Scans
  BY DEF PagesTypeOK, Scans
<1> QED
  BY <1>1, <1>2, KeySets DEF Scans

\* A page of a SQL driver is what the offset and the count cut out of the table.
LEMMA SqlReads ==
  ASSUME PagesTypeOK, Sql,
         NEW found,
         found = IF scan.count > 0
                 THEN First(Scanned, scan.start + scan.count) \ First(Scanned, scan.start)
                 ELSE Scanned \ First(Scanned, scan.start)
  PROVE  /\ found \in SUBSET Keys /\ NextToken(found) \in Nat
         /\ Reads(found, NextToken(found))
         /\ scan.count > 0 => /\ Cardinality(found) <= scan.count
                              /\ NextToken(found) # 0 => Cardinality(found) = scan.count
<1> DEFINE s == scan.start
           c == scan.count
           A == First(Scanned, s)
<1>1. /\ Scanned \in SUBSET Keys /\ IsFiniteSet(Scanned) /\ Cardinality(Scanned) \in Nat
      /\ s \in Nat /\ c \in Int
  BY ScannedType
<1>2. AheadAt(s) = Scanned \ A
  BY DEF AheadAt
<1>3. /\ A \in SUBSET Scanned
      /\ Cardinality(A) = IF Cardinality(Scanned) < s THEN Cardinality(Scanned) ELSE s
  BY <1>1, FirstSize
<1>4. A \in SUBSET Keys /\ IsFiniteSet(A) /\ Cardinality(A) \in Nat
  <2>1. A \in SUBSET Keys
    BY <1>1, <1>3
  <2> QED
    BY <2>1, KeySets
<1>5. CASE c > 0
  <2> DEFINE B == First(Scanned, s + c)
  <2>1. s + c \in Nat
    BY <1>1, <1>5
  <2>2. /\ B \in SUBSET Scanned
        /\ Cardinality(B) = IF Cardinality(Scanned) < s + c THEN Cardinality(Scanned) ELSE s + c
        /\ Cardinality(B) < s + c => B = Scanned
    BY <1>1, <2>1, FirstSize
  <2>3. A \subseteq B
    <3>1. ASSUME NEW k \in A PROVE k \in B
      <4>1. k \in Scanned /\ k \in Keys /\ Cardinality(Before(Scanned, k)) < s
        BY <1>1 DEF First, Before
      <4>2. Cardinality(Before(Scanned, k)) \in Nat
        BY <1>1, <4>1, BeforeSize
      <4>3. Cardinality(Before(Scanned, k)) < s + c
        BY <1>1, <1>5, <4>1, <4>2
      <4> QED
        BY <4>1, <4>3 DEF First, Before
    <3> QED
      BY <3>1
  <2>4. found = B \ A
    BY <1>5
  <2> HIDE DEF A, B
  <2>5. found \in SUBSET Keys /\ B \in SUBSET Keys /\ A \cup found = B /\ A \cap found = {}
    BY <1>1, <2>2, <2>3, <2>4
  <2>6. /\ Cardinality(B) = Cardinality(A) + Cardinality(found)
        /\ Cardinality(found) \in Nat /\ Cardinality(B) \in Nat
    BY <1>4, <2>5, Disjoint, KeySets
  <2>7. NextToken(found) = IF Cardinality(found) = c THEN s + c ELSE 0
    BY <1>5 DEF NextToken
  <2>8. Cardinality(found) <= c
    BY <1>1, <1>3, <1>4, <1>5, <2>2, <2>6
  <2>9. CASE Cardinality(found) = c
    <3>1. NextToken(found) = s + c /\ s + c # 0
      BY <1>1, <1>5, <2>7, <2>9
    <3>2. AheadAt(s + c) = Scanned \ B
      BY DEF AheadAt, B
    <3>3. Scanned \ B = (Scanned \ A) \ found /\ found \subseteq Scanned \ A
      BY <2>2, <2>3, <2>4
    <3> QED
      BY <1>2, <1>5, <2>1, <2>5, <2>8, <2>9, <3>1, <3>2, <3>3 DEF Reads
  <2>10. CASE Cardinality(found) # c
    <3>1. NextToken(found) = 0
      BY <2>7, <2>10
    <3>2. Cardinality(B) < s + c
      BY <1>1, <1>3, <1>4, <1>5, <2>2, <2>6, <2>8, <2>10
    <3>3. found = Scanned \ A
      BY <2>2, <2>4, <3>2
    <3> QED
      BY <1>2, <2>5, <2>8, <3>1, <3>3 DEF Reads
  <2> QED
    BY <2>9, <2>10
<1>6. CASE ~(c > 0)
  <2>1. found = Scanned \ A /\ NextToken(found) = 0
    BY <1>6 DEF NextToken
  <2> QED
    BY <1>1, <1>2, <1>6, <2>1 DEF Reads
<1> QED
  BY <1>5, <1>6

Unread == {k \in Scanned : k > scan.start}
UpTo(last) == {k \in Unread : k <= last}

\* A request of the DynamoDB driver reads the rows after the last key, up to a row.
LEMMA DynamoReads ==
  ASSUME PagesTypeOK, ~Sql, NEW last \in Unread, NEW token \in {0, last},
         token = 0 => Unread = UpTo(last)
  PROVE  token \in Nat /\ Reads(UpTo(last), token)
<1> DEFINE rows == Unread
           N == UpTo(last)
<1>1. Scanned \in SUBSET Keys /\ scan.start \in Nat /\ Keys \subseteq Nat \ {0}
  BY ScannedType, KeyAssumption
<1>2. rows \in SUBSET Keys /\ N \in SUBSET rows /\ AheadAt(scan.start) = rows
  BY <1>1 DEF AheadAt, Unread, UpTo
<1>3. last \in Nat /\ last # 0 /\ last > scan.start
  BY <1>1, <1>2 DEF Unread
<1>4. CASE token = 0
  BY <1>2, <1>4 DEF Reads
<1>5. CASE token = last
  <2>1. AheadAt(token) = {k \in Scanned : k > last}
    BY <1>5 DEF AheadAt
  <2>2. \A k \in Scanned : k \in Nat
    BY <1>1
  <2>3. {k \in Scanned : k > last} = rows \ N
    <3>1. \A k \in Scanned : k > last <=> (k > scan.start /\ ~(k <= last))
      BY <1>1, <1>3, <2>2
    <3> QED
      BY <3>1 DEF Unread, UpTo
  <2>4. \A k \in N : k <= last
    BY DEF UpTo
  <2>5. scan.start <= last
    BY <1>1, <1>3
  <2> QED
    BY <1>2, <1>3, <1>5, <2>1, <2>3, <2>4, <2>5 DEF Reads
<1> QED
  BY <1>4, <1>5

\* What a select reads, and what becomes of it.
LEMMA SelectReads ==
  ASSUME PagesTypeOK, Sql => scan.got = {}, SelectSql \/ SelectDynamo
  PROVE  \E N \in SUBSET Keys, token \in Nat, count \in Int :
           /\ Reads(N, token)
           /\ Sql => /\ count = scan.count
                     /\ count > 0 => /\ Cardinality(N) <= count
                                     /\ token # 0 => Cardinality(N) = count
           /\ \/ Selected(scan.got \cup N, token, count)
              \/ /\ ~Sql /\ token # 0 /\ UNCHANGED <<at, given>>
                 /\ scan' = [scan EXCEPT !.start = token, !.count = count,
                                         !.got = scan.got \cup N]
<1>1. /\ Scanned \in SUBSET Keys /\ scan.start \in Nat /\ scan.count \in Int
      /\ scan.got \in SUBSET Keys
  BY ScannedType
<1>2. CASE SelectSql
  <2> DEFINE found == IF scan.count > 0
                      THEN First(Scanned, scan.start + scan.count) \ First(Scanned, scan.start)
                      ELSE Scanned \ First(Scanned, scan.start)
  <2>1. Sql /\ Selected(found, NextToken(found), scan.count)
    BY <1>2 DEF SelectSql
  <2> DEFINE token == NextToken(found)
  <2>2. /\ found \in SUBSET Keys /\ token \in Nat /\ Reads(found, token)
        /\ scan.count > 0 => /\ Cardinality(found) <= scan.count
                             /\ token # 0 => Cardinality(found) = scan.count
    BY <2>1, SqlReads
  <2> HIDE DEF found, token
  <2>3. scan.got \cup found = found
    BY <2>1
  <2>4. Selected(scan.got \cup found, token, scan.count)
    BY <2>1, <2>3 DEF token
  <2> QED
    BY <1>1, <2>1, <2>2, <2>4
<1>3. CASE SelectDynamo
  <2> DEFINE rows == {k \in Scanned : k > scan.start}
  <2>1. /\ ~Sql
        /\ \/ rows = {} /\ Selected(scan.got, 0, scan.count)
           \/ \E last \in rows : Request(rows, last, Cardinality({k \in rows : k <= last}))
    BY <1>3 DEF SelectDynamo
  <2>2. CASE rows = {} /\ Selected(scan.got, 0, scan.count)
    <3>1. AheadAt(scan.start) = {}
      BY <2>1, <2>2 DEF AheadAt
    <3>2. Reads({}, 0)
      BY <3>1 DEF Reads
    <3>3. scan.got \cup {} = scan.got /\ {} \in SUBSET Keys /\ 0 \in Nat
      OBVIOUS
    <3>4. Selected(scan.got \cup {}, 0, scan.count)
      BY <2>2, <3>3
    <3> HIDE DEF rows
    <3> QED
      BY <1>1, <2>1, <3>2, <3>3, <3>4
  <2>3. ASSUME NEW last \in rows,
               Request(rows, last, Cardinality({k \in rows : k <= last}))
        PROVE  \E N \in SUBSET Keys, token \in Nat, count \in Int :
                 /\ Reads(N, token)
                 /\ \/ Selected(scan.got \cup N, token, count)
                    \/ /\ token # 0 /\ UNCHANGED <<at, given>>
                       /\ scan' = [scan EXCEPT !.start = token, !.count = count,
                                               !.got = scan.got \cup N]
    <3> DEFINE N == {k \in rows : k <= last}
               n == Cardinality(N)
               count == scan.count - n
    <3>1. N \in SUBSET Keys /\ n \in Nat
      <4>1. N \in SUBSET Keys
        BY <1>1
      <4> QED
        BY <4>1, KeySets
    <3>2. count \in Int
      BY <1>1, <3>1
    <3>3. PICK token \in (IF rows = N THEN {0} ELSE {last})
                         \cup (IF n = scan.count THEN {last} ELSE {}) :
            IF token # 0 /\ count > 0
            THEN /\ scan' = [scan EXCEPT !.start = token, !.count = count,
                                         !.got = scan.got \cup N]
                 /\ UNCHANGED <<at, given>>
            ELSE Selected(scan.got \cup N, token, count)
      BY <2>3 DEF Request
    <3>4. token \in {0, last} /\ (token = 0 => rows = N)
      <4>1. last # 0
        BY <1>1, KeyAssumption
      <4> HIDE DEF rows, N, n
      <4> QED
        BY <3>3, <4>1
    <3>5. token \in Nat /\ Reads(N, token)
      <4>1. ~Sql
        BY <2>1
      <4>2. rows = Unread /\ N = UpTo(last)
        BY DEF Unread, UpTo
      <4> HIDE DEF rows, N
      <4> QED
        BY <3>4, <4>1, <4>2, DynamoReads
    <3> HIDE DEF N, rows, count
    <3> QED
      BY <3>1, <3>2, <3>3, <3>5
  <2> HIDE DEF rows
  <2> QED
    BY <2>1, <2>2, <2>3
<1> QED
  BY <1>2, <1>3

-----------------------------------------------------------------------------
(* Types. *)

\* Types of the options.
LEMMA LimitType == task \in Tasks => task.limit \in Nat /\ task.driver \in Drivers
<1> SUFFICES ASSUME task \in Tasks PROVE task.limit \in Nat /\ task.driver \in Drivers
  OBVIOUS
<1>1. 0 \in Nat /\ Limits \subseteq Nat
  BY CountAssumption
<1> QED
  BY <1>1 DEF Tasks

\* The operations by their options.
LEMMA TaskKinds ==
  ASSUME task \in Tasks
  PROVE  /\ task.op \in {"del", "update", "archive", "locations", "migrate"}
         /\ task.limit > 0 => Op("del") \/ Op("update")
         /\ task.ignore => Op("del") \/ Op("update")
<1>1. 0 \in Nat /\ ~(0 > 0)
  OBVIOUS
<1> QED
  BY <1>1 DEF Tasks, Op

\* The initial states have the right types.
LEMMA PagesInitType == PagesInit => PagesTypeOK
<1> SUFFICES ASSUME PagesInit PROVE PagesTypeOK
  OBVIOUS
<1>1. task \in Tasks /\ scan = Started
  BY DEF PagesInit
<1>2. scan \in Scans
  BY <1>1, StartedType
<1>3. at \in Places
  BY DEF PagesInit, Places
<1>4. MaxWrites \in Nat /\ MaxFaults \in Nat
  BY CountAssumption
<1>5. exists \in BOOLEAN /\ excused \in BOOLEAN
  BY Zenon DEF PagesInit
<1>6. table \subseteq Keys /\ other \subseteq Keys /\ stayed \subseteq Keys /\ owed \subseteq Keys
  BY DEF PagesInit
<1>8. seen = {} /\ repeats = 0 /\ removed = 0 /\ inserted = 0 /\ writes = 0 /\ faults = 0 /\ leg = 1
  BY DEF PagesInit
<1>7. /\ seen \subseteq Keys /\ repeats \in Nat /\ removed \in Nat /\ inserted \in Nat
      /\ writes \in 0..MaxWrites /\ faults \in 0..MaxFaults /\ leg \in 1..2
  BY <1>4, <1>8
<1> QED
  BY <1>1, <1>2, <1>3, <1>5, <1>6, <1>7 DEF PagesTypeOK, Scans, Places

\* Types of what most actions change: where the operation is, its scan, the rows given.
ScanTypes == at' \in Places /\ scan' \in Scans /\ seen' \subseteq Keys /\ repeats' \in Nat

\* Types after the callback of a row.
LEMMA RowDoneType ==
  ASSUME PagesTypeOK, PlaceInv, at \in {"rows", "unlink"}, RowDone
  PROVE  at' \in Places /\ scan' \in Scans /\ Row \in Keys /\ Row \in scan.page
<1>1. scan.page # {} /\ scan \in Scans /\ task \in Tasks /\ leg \in 1..2
  BY DEF PlaceInv, PagesTypeOK, Scans
<1> QED
  BY <1>1, RowOfPage, RowDoneScan DEF Places

\* Types after the callback of a select.
LEMMA SelectedType ==
  ASSUME PagesTypeOK, PlaceInv, NEW found \in SUBSET Keys, NEW token \in Nat, NEW count \in Int,
         Selected(found, token, count)
  PROVE  ScanTypes
<1>1. task \in Tasks /\ leg \in 1..2 /\ scan \in Scans /\ seen \subseteq Keys /\ repeats \in Nat
  BY DEF PagesTypeOK, Scans
<1>2. CASE Op("locations")
  <2>1. LocationsPage(found, token, count)
    BY <1>2 DEF Selected
  <2>2. at' \in Places /\ scan' \in Scans /\ Give(found \cap Within) /\ found \cap Within \in SUBSET Keys
    BY <2>1, PageSearch DEF Places
  <2> QED
    BY <2>2, Given DEF ScanTypes
<1>3. CASE ~Op("locations")
  <2>1. ScanPage(found, token, count)
    BY <1>3 DEF Selected
  <2>2. ScanEnd \in Places
    BY DEF ScanEnd, Places
  <2>3. at' \in Places /\ scan' \in Scans /\ UNCHANGED given
    BY <1>1, <2>1, <2>2, PageScan DEF Places
  <2> QED
    BY <1>1, <2>3 DEF ScanTypes, given
<1> QED
  BY <1>2, <1>3

\* Types after a select.
LEMMA SelectType ==
  ASSUME PagesTypeOK, PlaceInv, SelectSql \/ SelectDynamo
  PROVE  ScanTypes
<1>1. /\ scan \in Scans /\ scan.got \in SUBSET Keys /\ at \in Places /\ seen \subseteq Keys
      /\ repeats \in Nat
  BY ScannedType DEF PagesTypeOK, Places
<1>2. Sql => scan.got = {}
  BY DEF PlaceInv
<1>3. PICK N \in SUBSET Keys, token \in Nat, count \in Int :
        \/ Selected(scan.got \cup N, token, count)
        \/ /\ UNCHANGED <<at, given>>
           /\ scan' = [scan EXCEPT !.start = token, !.count = count, !.got = scan.got \cup N]
  BY <1>2, SelectReads
<1>4. scan.got \cup N \in SUBSET Keys
  BY <1>1
<1>5. CASE Selected(scan.got \cup N, token, count)
  BY <1>4, <1>5, SelectedType
<1>6. CASE /\ UNCHANGED <<at, given>>
           /\ scan' = [scan EXCEPT !.start = token, !.count = count, !.got = scan.got \cup N]
  <2>1. scan' \in Scans
    BY <1>1, <1>4, <1>6 DEF Scans
  <2> QED
    BY <1>1, <1>6, <2>1 DEF ScanTypes, given
<1> QED
  BY <1>3, <1>5, <1>6

\* The row of the page is given to the callback.
LEMMA VisitType ==
  ASSUME PagesTypeOK, PlaceInv, at \in {"rows", "unlink"}, Visit
  PROVE  /\ seen' = seen \cup {Row} /\ seen' \subseteq Keys /\ repeats' \in Nat
         /\ repeats' <= repeats + Cardinality({Row} \cap seen)
<1>1. {Row} \in SUBSET Keys
  BY RowOfPage DEF PlaceInv, PagesTypeOK, Scans
<1> QED
  BY <1>1, Given DEF Visit

\* Types after a row is taken out of the table.
LEMMA TakeOutType ==
  ASSUME PagesTypeOK, NEW k \in Keys, TakeOut(k)
  PROVE  table' \subseteq Keys /\ removed' \in Nat
<1>1. table' = table \ {k} /\ (removed' = removed + 1 \/ removed' = removed + 0)
  BY DEF TakeOut
<1>2. table \subseteq Keys /\ removed \in Nat
  BY DEF PagesTypeOK
<1> QED
  BY <1>1, <1>2

\* Every step keeps the types.  The least row of a page exists only where PlaceInv holds.
LEMMA PagesTypeStep == PagesTypeOK /\ PlaceInv /\ [PagesNext]_pagesVars => PagesTypeOK'
<1> SUFFICES ASSUME PagesTypeOK, PlaceInv, [PagesNext]_pagesVars PROVE PagesTypeOK'
  OBVIOUS
<1>0. /\ task \in Tasks /\ table \subseteq Keys /\ other \subseteq Keys /\ exists \in BOOLEAN
      /\ at \in Places /\ scan \in Scans
      /\ leg \in 1..2 /\ seen \subseteq Keys /\ repeats \in Nat
      /\ stayed \subseteq Keys /\ owed \subseteq Keys
      /\ removed \in Nat /\ inserted \in Nat /\ excused \in BOOLEAN
      /\ writes \in 0..MaxWrites /\ faults \in 0..MaxFaults
  BY DEF PagesTypeOK, Places, Scans
<1>f. MaxWrites \in Nat /\ MaxFaults \in Nat
  BY CountAssumption
<1>t. PagesTypeOK' <=>
      /\ task' \in Tasks /\ table' \subseteq Keys /\ other' \subseteq Keys /\ exists' \in BOOLEAN
      /\ at' \in Places /\ scan' \in Scans
      /\ leg' \in 1..2 /\ seen' \subseteq Keys /\ repeats' \in Nat
      /\ stayed' \subseteq Keys /\ owed' \subseteq Keys
      /\ removed' \in Nat /\ inserted' \in Nat /\ excused' \in BOOLEAN
      /\ writes' \in 0..MaxWrites /\ faults' \in 0..MaxFaults
  BY DEF PagesTypeOK, Places, Scans, Tasks, Drivers
<1>1. CASE SelectSql \/ SelectDynamo
  <2>1. ScanTypes
    BY <1>1, SelectType
  <2>2. UNCHANGED <<task, table, exists, other, leg, stayed, owed, removed, excused, faults, clients>>
    BY <1>1 DEF SelectSql, SelectDynamo
  <2> QED
    BY <1>0, <1>t, <2>1, <2>2 DEF ScanTypes, clients
<1>2. CASE NextCall
  <2>1. /\ at' = "select" /\ scan' = [scan EXCEPT !.returned = 0]
        /\ UNCHANGED <<task, table, exists, other, leg, given, stayed, owed, removed, excused,
                       faults, clients>>
    BY <1>2 DEF NextCall
  <2>2. scan' \in Scans
    BY <1>0, <2>1 DEF Scans
  <2> QED
    BY <1>0, <1>t, <2>1, <2>2 DEF clients, given, Places
<1>3. CASE UpdateRow
  <2>1. /\ at = "rows" /\ Visit /\ RowDone
        /\ UNCHANGED <<task, table, exists, other, leg, stayed, owed, removed, excused, faults,
                       clients>>
    BY <1>3 DEF UpdateRow
  <2> QED
    BY <1>0, <1>t, <2>1, VisitType, RowDoneType DEF clients
<1>4. CASE DelRow
  <2>1. /\ at = "rows" /\ Visit /\ RowDone /\ TakeOut(Row)
        /\ UNCHANGED <<task, exists, other, leg, stayed, owed, excused, faults, clients>>
    BY <1>4 DEF DelRow
  <2>2. at' \in Places /\ scan' \in Scans /\ Row \in Keys
    BY <2>1, RowDoneType
  <2>3. table' \subseteq Keys /\ removed' \in Nat
    BY <2>1, <2>2, TakeOutType
  <2> QED
    BY <1>0, <1>t, <2>1, <2>2, <2>3, VisitType DEF clients
<1>5. CASE ArchiveRow
  <2>1. /\ at = "rows" /\ Visit /\ other' = other \cup {Row} /\ at' = "unlink"
        /\ UNCHANGED <<task, table, exists, leg, scan, stayed, owed, removed, excused, faults,
                       clients>>
    BY <1>5 DEF ArchiveRow
  <2>2. Row \in Keys
    BY <1>0, <2>1, RowOfPage DEF PlaceInv
  <2> QED
    BY <1>0, <1>t, <2>1, <2>2, VisitType DEF clients, Places
<1>6. CASE UnlinkRow
  <2>1. /\ at = "unlink" /\ RowDone /\ TakeOut(Row)
        /\ UNCHANGED <<task, exists, other, leg, given, stayed, owed, excused, faults, clients>>
    BY <1>6 DEF UnlinkRow
  <2>2. at' \in Places /\ scan' \in Scans /\ Row \in Keys
    BY <2>1, RowDoneType
  <2>3. table' \subseteq Keys /\ removed' \in Nat
    BY <2>1, <2>2, TakeOutType
  <2> QED
    BY <1>0, <1>t, <2>1, <2>2, <2>3 DEF clients, given
<1>7. CASE CopyRow
  <2>1. /\ at = "rows" /\ Visit /\ RowDone
        /\ IF leg = 1 THEN other' = other \cup {Row} /\ UNCHANGED table
                      ELSE table' = table \cup {Row} /\ UNCHANGED other
        /\ UNCHANGED <<task, exists, leg, stayed, owed, removed, excused, faults, clients>>
    BY <1>7 DEF CopyRow
  <2>2. at' \in Places /\ scan' \in Scans /\ Row \in Keys
    BY <2>1, RowDoneType
  <2>3. table' \subseteq Keys /\ other' \subseteq Keys
    BY <1>0, <2>1, <2>2
  <2> QED
    BY <1>0, <1>t, <2>1, <2>2, <2>3, VisitType DEF clients
<1>8. CASE DropTemp \/ Drop \/ Cleanup \/ StepFails \/ Crash
  <2>1. /\ UNCHANGED <<task, leg, scan, given, stayed, owed, removed, excused, clients>>
        /\ table' \in {table, {}} /\ other' \in {other, {}} /\ exists' \in {exists, FALSE}
        /\ at' \in {"select", "create", "done", "failed"}
        /\ faults' = faults \/ (faults < MaxFaults /\ faults' = faults + 1)
    BY <1>8 DEF DropTemp, Drop, Cleanup, StepFails, Crash
  <2>2. faults' \in 0..MaxFaults
    BY <1>0, <1>f, <2>1
  <2>3. table' \subseteq Keys /\ other' \subseteq Keys /\ exists' \in BOOLEAN /\ at' \in Places
    BY <1>0, <2>1 DEF Places
  <2> QED
    BY <1>0, <1>t, <2>1, <2>2, <2>3 DEF clients, given
<1>9. CASE Create \/ Again
  <2>1. /\ scan' = Started /\ seen' = {} /\ repeats' = 0 /\ removed' = 0 /\ inserted' = 0
        /\ leg' = 1 \/ leg' = 2
        /\ at' \in {"select", "dropTemp"}
        /\ stayed' = table \/ stayed' = other
        /\ UNCHANGED <<task, table, other, writes, faults>>
        /\ owed' = owed \/ owed' = owed \cup table
    BY <1>9, Zenon DEF Create, Again
  <2>2. exists' \in BOOLEAN
    BY <1>0, <1>9 DEF Create, Again
  <2>3. excused' \in BOOLEAN
    BY <1>0, <1>9 DEF Create, Again
  <2>4. scan' \in Scans
    BY <1>0, <2>1, StartedType
  <2>5. at' \in Places
    BY <2>1 DEF Places
  <2>6. leg' \in 1..2 /\ repeats' \in Nat /\ removed' \in Nat /\ inserted' \in Nat
    <3>1. leg' = 1 \/ leg' = 2
      BY <2>1
    <3>2. repeats' = 0 /\ removed' = 0 /\ inserted' = 0
      BY <2>1
    <3> QED
      BY <3>1, <3>2
  <2>7. stayed' \subseteq Keys
    BY <1>0, <2>1
  <2>8. seen' \subseteq Keys
    BY <2>1
  <2> QED
    BY <1>0, <1>t, <2>1, <2>2, <2>3, <2>4, <2>5, <2>6, <2>7, <2>8
<1>10. CASE SelectFails
  <2>1. /\ IF exists \/ leg = 2 THEN faults < MaxFaults /\ faults' = faults + 1
           ELSE UNCHANGED faults
        /\ UNCHANGED <<task, table, exists, other, leg, given, stayed, owed, removed, clients>>
    BY <1>10 DEF SelectFails
  <2>2. faults' \in 0..MaxFaults
    BY <1>0, <1>f, <2>1
  <2>3. CASE Op("locations")
    <3>1. CallEnd([scan EXCEPT !.got = {}]) /\ excused' = TRUE
      BY <1>10, <2>3 DEF SelectFails
    <3>2. [scan EXCEPT !.got = {}] \in Scans
      BY <1>0 DEF Scans
    <3>3. scan' \in Scans /\ at' \in Places
      BY <3>1, <3>2, CallEndScan DEF Places
    <3> QED
      BY <1>0, <1>t, <2>1, <2>2, <3>1, <3>3 DEF clients, given
  <2>4. CASE ~Op("locations")
    <3>1. at' = "failed" /\ UNCHANGED <<scan, excused>>
      BY <1>10, <2>4 DEF SelectFails
    <3> QED
      BY <1>0, <1>t, <2>1, <2>2, <3>1 DEF clients, given, Places
  <2> QED
    BY <2>3, <2>4
<1>11. CASE RowFails
  <2>1. /\ at \in {"rows", "unlink"} /\ faults < MaxFaults /\ faults' = faults + 1
        /\ IF at = "rows" THEN Visit ELSE UNCHANGED given
        /\ RowDone \/ (at' = "failed" /\ UNCHANGED scan)
        /\ UNCHANGED <<task, table, exists, other, leg, stayed, owed, removed, clients>>
    BY <1>11 DEF RowFails
  <2>2. excused' \in BOOLEAN
    BY <1>0, <1>11 DEF RowFails
  <2>3. faults' \in 0..MaxFaults
    BY <1>0, <1>f, <2>1
  <2>4. at' \in Places /\ scan' \in Scans
    BY <1>0, <2>1, RowDoneType DEF Places
  <2>5. seen' \subseteq Keys /\ repeats' \in Nat
    BY <1>0, <2>1, VisitType DEF given
  <2> QED
    BY <1>0, <1>t, <2>1, <2>2, <2>3, <2>4, <2>5 DEF clients
<1>12. CASE \E k \in Keys : Insert(k)
  <2>1. PICK k \in Keys : Insert(k)
    BY <1>12
  <2>2. writes' \in 0..MaxWrites /\ inserted' \in Nat /\ table' \subseteq Keys
    BY <1>0, <1>f, <2>1 DEF Insert
  <2> QED
    BY <1>0, <1>t, <2>1, <2>2 DEF Insert, given
<1>13. CASE \E k \in Keys : Delete(k)
  <2>1. PICK k \in Keys : Delete(k)
    BY <1>13
  <2>2. writes' \in 0..MaxWrites
    BY <1>0, <1>f, <2>1 DEF Delete
  <2>3. excused' \in BOOLEAN
    BY <1>0, <2>1 DEF Delete
  <2>4. stayed' \subseteq Keys /\ owed' \subseteq Keys /\ table' \subseteq Keys /\ removed' \in Nat
    BY <1>0, <2>1, TakeOutType DEF Delete
  <2> QED
    BY <1>0, <1>t, <2>1, <2>2, <2>3, <2>4 DEF Delete, given
<1>14. CASE UNCHANGED pagesVars
  BY <1>0, <1>t, <1>14 DEF pagesVars, given
<1> QED
  BY <1>1, <1>2, <1>3, <1>4, <1>5, <1>6, <1>7, <1>8, <1>9, <1>10, <1>11, <1>12, <1>13, <1>14
  DEF PagesNext, PagesStep, Fault

-----------------------------------------------------------------------------
(* Where the operation is, and what it holds there. *)

\* The callback of a row ends with the next row, the next select, or the end of the scan.
LEMMA RowDonePlace ==
  ASSUME PagesTypeOK, PlaceInv, at \in {"rows", "unlink"}, RowDone, UNCHANGED <<task, leg>>
  PROVE  PlaceInv'
<1>1. scan.page # {} /\ scan \in Scans /\ task \in Tasks /\ leg \in 1..2 /\ scan.got = {}
  BY DEF PlaceInv, PagesTypeOK, Scans
<1>2. /\ scan'.got = {} /\ scan'.page = scan.page \ {Row}
      /\ \/ at' = "rows" /\ scan'.page # {}
         \/ at' = "select" /\ scan'.page = {}
         \/ at' = ScanEnd /\ scan'.page = {}
  BY <1>1, RowDoneScan
<1>3. /\ ScanEnd = "drop" => Op("migrate") /\ leg = 1
      /\ ScanEnd = "cleanup" => Op("migrate") /\ leg = 2
      /\ ScanEnd = "done" => ~Op("migrate")
      /\ ScanEnd \in {"drop", "cleanup", "done"}
  BY <1>1 DEF ScanEnd
<1>4. ~Op("locations")
  BY DEF PlaceInv
<1> QED
  BY <1>2, <1>3, <1>4 DEF PlaceInv, Op, Sql

\* The callback of a select ends with its rows, the next select, or the end.
LEMMA SelectedPlace ==
  ASSUME PagesTypeOK, PlaceInv, at = "select", UNCHANGED <<task, leg>>,
         NEW found \in SUBSET Keys, NEW token \in Nat, NEW count \in Int,
         Selected(found, token, count)
  PROVE  PlaceInv'
<1>1. task \in Tasks /\ leg \in 1..2 /\ scan \in Scans /\ scan.page = {}
  BY DEF PagesTypeOK, Scans, PlaceInv
<1>2. CASE Op("locations")
  <2>1. LocationsPage(found, token, count)
    BY <1>2 DEF Selected
  <2>2. scan'.got = {} /\ scan'.page = {} /\ at' \in {"done", "call", "select"}
    BY <1>1, <2>1, PageSearch
  <2>3. ~Op("migrate") /\ leg = 1
    BY <1>1, <1>2 DEF Op, PlaceInv
  <2> QED
    BY <1>2, <2>2, <2>3 DEF PlaceInv, Op, Sql
<1>3. CASE ~Op("locations")
  <2>1. ScanPage(found, token, count)
    BY <1>3 DEF Selected
  <2>2. /\ ScanEnd = "drop" => Op("migrate") /\ leg = 1
        /\ ScanEnd = "cleanup" => Op("migrate") /\ leg = 2
        /\ ScanEnd = "done" => ~Op("migrate")
        /\ ScanEnd \in {"drop", "cleanup", "done"}
    BY <1>1 DEF ScanEnd
  <2>3. /\ scan'.got = {} /\ scan'.page = found
        /\ \/ at' = "rows" /\ found # {}
           \/ at' = "select" /\ found = {}
           \/ at' = ScanEnd /\ found = {}
    BY <1>1, <2>1, PageScan
  <2> QED
    BY <1>3, <2>2, <2>3 DEF PlaceInv, Op, Sql
<1> QED
  BY <1>2, <1>3

\* The operation begins in its place.
LEMMA PlaceInit == PagesInit => PlaceInv
<1> SUFFICES ASSUME PagesInit PROVE PlaceInv
  OBVIOUS
<1>1. task \in Tasks /\ scan = Started /\ leg = 1 /\ seen = {}
  BY DEF PagesInit
<1>2. at = (IF Op("migrate") THEN "dropTemp" ELSE "select")
  BY DEF PagesInit
<1>3. scan.start = 0 /\ scan.got = {} /\ scan.page = {}
  BY <1>1, StartedType
<1>4. task.limit > 0 => Op("del") \/ Op("update")
  BY <1>1, TaskKinds
<1>5. CASE Op("migrate")
  <2>1. at = "dropTemp"
    BY <1>2, <1>5
  <2> QED
    BY <1>1, <1>3, <1>4, <1>5, <2>1 DEF PlaceInv
<1>6. CASE ~Op("migrate")
  <2>1. at = "select"
    BY <1>2, <1>6
  <2> QED
    BY <1>1, <1>3, <1>4, <1>6, <2>1 DEF PlaceInv
<1> QED
  BY <1>5, <1>6

\* Every step of an operation leads to a place of that operation.
LEMMA PlaceStep == PagesTypeOK /\ PlaceInv /\ [PagesNext]_pagesVars => PlaceInv'
<1> SUFFICES ASSUME PagesTypeOK, PlaceInv, [PagesNext]_pagesVars PROVE PlaceInv'
  OBVIOUS
<1>0. task \in Tasks /\ at \in Places /\ scan \in Scans /\ leg \in 1..2
  BY DEF PagesTypeOK, Places, Scans
<1>1. CASE SelectSql \/ SelectDynamo
  <2>1. at = "select" /\ UNCHANGED <<task, leg>> /\ scan.got \in SUBSET Keys
    BY <1>0, <1>1 DEF SelectSql, SelectDynamo, Scans
  <2>2. Sql => scan.got = {}
    BY DEF PlaceInv
  <2>3. PICK N \in SUBSET Keys, token \in Nat, count \in Int :
          \/ Selected(scan.got \cup N, token, count)
          \/ /\ ~Sql /\ UNCHANGED <<at, given>>
             /\ scan' = [scan EXCEPT !.start = token, !.count = count, !.got = scan.got \cup N]
    BY <1>1, <2>2, SelectReads
  <2>4. scan.got \cup N \in SUBSET Keys
    BY <2>1
  <2>5. CASE Selected(scan.got \cup N, token, count)
    BY <2>1, <2>4, <2>5, SelectedPlace
  <2>6. CASE /\ ~Sql /\ UNCHANGED <<at, given>>
             /\ scan' = [scan EXCEPT !.start = token, !.count = count, !.got = scan.got \cup N]
    <3>1. scan'.page = scan.page
      BY <1>0, <2>6 DEF Scans
    <3> QED
      BY <2>1, <2>6, <3>1 DEF PlaceInv, Op, Sql
  <2> QED
    BY <2>3, <2>5, <2>6
<1>2. CASE UpdateRow \/ DelRow \/ UnlinkRow \/ CopyRow
  <2>1. at \in {"rows", "unlink"} /\ RowDone /\ UNCHANGED <<task, leg>>
    BY <1>2 DEF UpdateRow, DelRow, UnlinkRow, CopyRow
  <2> QED
    BY <2>1, RowDonePlace
<1>3. CASE RowFails
  <2>1. /\ at \in {"rows", "unlink"} /\ UNCHANGED <<task, leg>>
        /\ RowDone \/ (at' = "failed" /\ UNCHANGED scan)
    BY <1>3 DEF RowFails
  <2>2. CASE RowDone
    BY <2>1, <2>2, RowDonePlace
  <2>3. CASE at' = "failed" /\ UNCHANGED scan
    BY <2>1, <2>3 DEF PlaceInv, Op, Sql
  <2> QED
    BY <2>1, <2>2, <2>3
<1>4. CASE ArchiveRow
  <2>1. /\ at = "rows" /\ Op("archive") /\ Visit /\ at' = "unlink" /\ UNCHANGED <<task, leg, scan>>
    BY <1>4 DEF ArchiveRow
  <2>2. Row \in seen' /\ Row' = Row
    BY <2>1, VisitType DEF Row
  <2> QED
    BY <2>1, <2>2 DEF PlaceInv, Op, Sql
<1>5. CASE NextCall
  <2>1. at = "call" /\ at' = "select" /\ UNCHANGED <<task, leg>>
        /\ scan' = [scan EXCEPT !.returned = 0]
    BY <1>5 DEF NextCall
  <2>2. scan'.page = scan.page /\ scan'.got = scan.got
    BY <1>0, <2>1 DEF Scans
  <2> QED
    BY <2>1, <2>2 DEF PlaceInv, Op, Sql
<1>6. CASE DropTemp
  BY <1>6 DEF DropTemp, PlaceInv, Op, Sql
<1>7. CASE Drop \/ Cleanup
  BY <1>7 DEF Drop, Cleanup, PlaceInv, Op, Sql
<1>8. CASE StepFails \/ Crash
  BY <1>8 DEF StepFails, Crash, PlaceInv, Op, Sql
<1>9. CASE Create
  <2>1. /\ at = "create" /\ at' = "select" /\ leg' = 2 /\ scan' = Started /\ UNCHANGED task
    BY <1>9 DEF Create
  <2>2. scan'.start = 0 /\ scan'.got = {} /\ scan'.page = {}
    BY <1>0, <2>1, StartedType
  <2> QED
    BY <2>1, <2>2 DEF PlaceInv, Op, Sql
<1>10. CASE Again
  <2>1. /\ at' = IF Op("migrate") THEN "dropTemp" ELSE "select"
        /\ leg' = 1 /\ scan' = Started /\ seen' = {} /\ UNCHANGED task
    BY <1>10 DEF Again
  <2>2. scan'.start = 0 /\ scan'.got = {} /\ scan'.page = {}
    BY <1>0, <2>1, StartedType
  <2>3. CASE Op("migrate")
    <3>1. at' = "dropTemp"
      BY <2>1, <2>3
    <3> QED
      BY <2>1, <2>2, <2>3, <3>1 DEF PlaceInv, Op, Sql
  <2>4. CASE ~Op("migrate")
    <3>1. at' = "select" /\ leg' # 2
      BY <2>1, <2>4
    <3> QED
      BY <2>1, <2>2, <3>1 DEF PlaceInv, Op, Sql
  <2> QED
    BY <2>3, <2>4
<1>11. CASE SelectFails
  <2>1. at = "select" /\ UNCHANGED <<task, leg>>
    BY <1>11 DEF SelectFails
  <2>2. CASE Op("locations")
    <3>1. CallEnd([scan EXCEPT !.got = {}])
      BY <1>11, <2>2 DEF SelectFails
    <3>2. [scan EXCEPT !.got = {}] \in Scans
      BY <1>0 DEF Scans
    <3>3. scan'.got = {} /\ scan'.page = scan.page /\ at' \in {"call", "done"}
      BY <1>0, <3>1, <3>2, CallEndScan DEF Scans
    <3>4. ~Op("migrate") /\ leg = 1
      <4>1. ~Op("migrate")
        BY <2>2 DEF Op
      <4>2. leg # 2 /\ leg \in 1..2
        BY <1>0, <4>1 DEF PlaceInv
      <4> QED
        BY <4>1, <4>2
    <3> QED
      BY <2>1, <2>2, <3>3, <3>4 DEF PlaceInv, Op, Sql
  <2>3. CASE ~Op("locations")
    <3>1. at' = "failed" /\ UNCHANGED scan
      BY <1>11, <2>3 DEF SelectFails
    <3> QED
      BY <2>1, <3>1 DEF PlaceInv, Op, Sql
  <2> QED
    BY <2>2, <2>3
<1>12. CASE \E k \in Keys : Insert(k) \/ Delete(k)
  <2>1. UNCHANGED <<task, at, leg, scan, given>>
    BY <1>12 DEF Insert, Delete
  <2>2. Row' = Row
    BY <2>1 DEF Row
  <2> QED
    BY <2>1, <2>2 DEF PlaceInv, Op, Sql, given
<1>13. CASE UNCHANGED pagesVars
  <2>1. UNCHANGED <<task, at, leg, scan, seen>>
    BY <1>13 DEF pagesVars, given
  <2>2. Row' = Row
    BY <2>1 DEF Row
  <2> QED
    BY <2>1, <2>2 DEF PlaceInv, Op, Sql
<1> QED
  BY <1>1, <1>2, <1>3, <1>4, <1>5, <1>6, <1>7, <1>8, <1>9, <1>10, <1>11, <1>12, <1>13
  DEF PagesNext, PagesStep, Fault

-----------------------------------------------------------------------------
(* How many rows are hidden from a scan, and how many are repeated.  A row is
   ahead of the scan, taken from a page, given to the callback, or hidden. *)

\* Rows that have to be found and are neither given, nor taken, nor ahead.
Hidden == Due \ (seen \cup Taken \cup Rest)

\* Rows of a search or scan that has to be complete.
Complete == task.limit = 0 /\ at # "failed" /\ ~Misled
Shifts == Sql /\ leg = 1
HideSlack == IF Shifts /\ ~(Op("migrate") /\ ~excused) THEN removed ELSE 0
HiddenInv == Complete => Cardinality(Hidden) <= HideSlack

\* The rows that were given again, or are going to be.
RepeatInv ==
  repeats + Cardinality(Taken \cap seen) + Cardinality(Rest \cap (seen \cup Taken))
    <= IF Shifts THEN inserted ELSE 0

\* A step reads the rows N, gives the rows V to the callback and hides the rows L.
Flow(N, V, L) ==
  /\ N \subseteq Rest /\ V \subseteq Taken \cup N
  /\ seen' = seen \cup V /\ repeats' <= repeats + Cardinality(V \cap seen)
  /\ Taken' \subseteq (Taken \cup N) \ V
  /\ Rest' \subseteq Rest \ N
  /\ Complete' => Due' \cap (Taken \cup Rest) \subseteq seen' \cup Taken' \cup Rest' \cup L

\* Rows T are taken, rows R ahead and rows S given; N of R are taken and V of those are
\* given: a row that counts afterwards counted before.
LEMMA Potential ==
  ASSUME NEW T \in SUBSET Keys, NEW R \in SUBSET Keys, NEW S \in SUBSET Keys,
         NEW N \in SUBSET R, NEW V \in SUBSET (T \cup N),
         NEW T2 \in SUBSET ((T \cup N) \ V), NEW R2 \in SUBSET (R \ N)
  PROVE  LET S2 == S \cup V
         IN Cardinality(V \cap S) + Cardinality(T2 \cap S2) + Cardinality(R2 \cap (S2 \cup T2))
              <= Cardinality(T \cap S) + Cardinality(R \cap (S \cup T))
<1> DEFINE S2 == S \cup V
           A == V \cap S
           B == T2 \cap S2
           C == R2 \cap (S2 \cup T2)
           P == T \cap S
           Q == R \cap (S \cup T)
           P2 == (N \cap S) \ T
           Q2 == (R \ N) \cap (S \cup T)
<1>1. /\ A \in SUBSET Keys /\ B \in SUBSET Keys /\ C \in SUBSET Keys /\ P \in SUBSET Keys
      /\ Q \in SUBSET Keys /\ P2 \in SUBSET Keys /\ Q2 \in SUBSET Keys
      /\ A \cup B \in SUBSET Keys /\ P \cup P2 \in SUBSET Keys /\ P2 \cup Q2 \in SUBSET Keys
  OBVIOUS
<1>2. /\ A \cap B = {} /\ A \cup B \subseteq P \cup P2 /\ P \cap P2 = {}
      /\ C \subseteq Q2 /\ P2 \cap Q2 = {} /\ P2 \cup Q2 \subseteq Q
  OBVIOUS
<1> HIDE DEF A, B, C, P, Q, P2, Q2
<1>3. /\ Cardinality(A) \in Nat /\ Cardinality(B) \in Nat /\ Cardinality(C) \in Nat
      /\ Cardinality(P) \in Nat /\ Cardinality(Q) \in Nat /\ Cardinality(P2) \in Nat
      /\ Cardinality(Q2) \in Nat
  BY <1>1, KeySets
<1>4. Cardinality(A) + Cardinality(B) <= Cardinality(P) + Cardinality(P2)
  <2>1. Cardinality(A \cup B) = Cardinality(A) + Cardinality(B)
    BY <1>1, <1>2, Disjoint
  <2>2. Cardinality(P \cup P2) = Cardinality(P) + Cardinality(P2)
    BY <1>1, <1>2, Disjoint
  <2>3. Cardinality(A \cup B) <= Cardinality(P \cup P2)
    BY <1>1, <1>2, KeySets
  <2> QED
    BY <2>1, <2>2, <2>3
<1>5. Cardinality(P2) + Cardinality(C) <= Cardinality(Q)
  <2>1. Cardinality(P2 \cup Q2) = Cardinality(P2) + Cardinality(Q2)
    BY <1>1, <1>2, Disjoint
  <2>2. Cardinality(P2 \cup Q2) <= Cardinality(Q) /\ Cardinality(C) <= Cardinality(Q2)
    BY <1>1, <1>2, KeySets
  <2> QED
    BY <1>3, <2>1, <2>2
<1>6. Cardinality(A) + Cardinality(B) + Cardinality(C) <= Cardinality(P) + Cardinality(Q)
  BY <1>3, <1>4, <1>5
<1> QED
  BY <1>6 DEF A, B, C, P, Q

\* The types of the parts of the rows, before and after a step.
LEMMA PartsType ==
  /\ PagesTypeOK => /\ Taken \in SUBSET Keys /\ Rest \in SUBSET Keys /\ Due \in SUBSET Keys
                    /\ Hidden \in SUBSET Keys
  /\ PagesTypeOK' => /\ Taken' \in SUBSET Keys /\ Rest' \in SUBSET Keys /\ Due' \in SUBSET Keys
                     /\ Hidden' \in SUBSET Keys
<1>1. ASSUME PagesTypeOK
      PROVE  /\ Taken \in SUBSET Keys /\ Rest \in SUBSET Keys /\ Due \in SUBSET Keys
             /\ Hidden \in SUBSET Keys
  <2>1. /\ Scanned \in SUBSET Keys /\ scan.got \in SUBSET Keys /\ scan.page \in SUBSET Keys
        /\ table \in SUBSET Keys /\ stayed \in SUBSET Keys
    BY <1>1, ScannedType DEF PagesTypeOK
  <2>2. Rest \in SUBSET Keys
    BY <2>1 DEF Rest, Unscanned, AheadAt, LaterThan
  <2>3. Taken \in SUBSET Keys
    BY <2>1 DEF Taken
  <2>4. Due \in SUBSET Keys
    BY <2>1 DEF Due
  <2> QED
    BY <2>2, <2>3, <2>4 DEF Hidden
<1>2. ASSUME PagesTypeOK'
      PROVE  /\ Taken' \in SUBSET Keys /\ Rest' \in SUBSET Keys /\ Due' \in SUBSET Keys
             /\ Hidden' \in SUBSET Keys
  <2>1. /\ table' \in SUBSET Keys /\ other' \in SUBSET Keys /\ stayed' \in SUBSET Keys
        /\ scan' \in Scans
    BY <1>2 DEF PagesTypeOK, Scans
  <2>2. scan'.got \in SUBSET Keys /\ scan'.page \in SUBSET Keys
    BY <2>1 DEF Scans
  <2>3. Scanned' \in SUBSET Keys
    BY <2>1 DEF Scanned
  <2>4. Rest' \in SUBSET Keys
    BY <2>1, <2>3 DEF Rest, Unscanned, AheadAt, LaterThan
  <2>5. Taken' \in SUBSET Keys
    BY <2>2 DEF Taken
  <2>6. Due' \in SUBSET Keys
    BY <2>1 DEF Due
  <2> QED
    BY <2>4, <2>5, <2>6 DEF Hidden
<1> QED
  BY <1>1, <1>2

\* Arithmetic of RepeatInv.
LEMMA Sums ==
  ASSUME NEW r \in Nat, NEW r2 \in Nat, NEW a \in Nat, NEW b \in Nat, NEW c \in Nat,
         NEW p \in Nat, NEW q \in Nat, NEW most \in Nat,
         r2 <= r + a, a + b + c <= p + q, r + p + q <= most
  PROVE  r2 + b + c <= most
  OBVIOUS

\* The bounds of hidden and repeated rows are kept by a step that moves rows from ahead
\* to taken to seen, when the rows it hides are accounted for.
LEMMA FlowKeeps ==
  ASSUME PagesTypeOK, PagesTypeOK', HiddenInv, RepeatInv,
         NEW N \in SUBSET Keys, NEW V \in SUBSET Keys, NEW L \in SUBSET Keys,
         Flow(N, V, L), Due' \subseteq Due, Complete' => Complete, Shifts' = Shifts,
         inserted' = inserted, Complete' => HideSlack + Cardinality(L) <= HideSlack'
  PROVE  HiddenInv' /\ RepeatInv'
<1>1. /\ Taken \in SUBSET Keys /\ Rest \in SUBSET Keys /\ Due \in SUBSET Keys
      /\ Taken' \in SUBSET Keys /\ Rest' \in SUBSET Keys /\ Due' \in SUBSET Keys
      /\ Hidden \in SUBSET Keys /\ Hidden' \in SUBSET Keys
  BY PartsType
<1>2. /\ seen \in SUBSET Keys /\ repeats \in Nat /\ repeats' \in Nat /\ inserted \in Nat
      /\ removed \in Nat /\ removed' \in Nat
  BY DEF PagesTypeOK
<1>3. HiddenInv'
  <2> SUFFICES ASSUME Complete' PROVE Cardinality(Hidden') <= HideSlack'
    BY DEF HiddenInv
  <2>1. Hidden' \subseteq Hidden \cup L
    BY DEF Flow, Hidden
  <2>2. Cardinality(Hidden) <= HideSlack /\ HideSlack + Cardinality(L) <= HideSlack'
    BY DEF HiddenInv
  <2>3. /\ Cardinality(Hidden) \in Nat /\ Cardinality(Hidden') \in Nat /\ Cardinality(L) \in Nat
        /\ IsFiniteSet(Hidden) /\ IsFiniteSet(L)
    BY <1>1, KeySets
  <2>4. /\ Cardinality(Hidden \cup L) <= Cardinality(Hidden) + Cardinality(L)
        /\ Cardinality(Hidden') <= Cardinality(Hidden \cup L)
        /\ Cardinality(Hidden \cup L) \in Nat
    <3>1. Cardinality(Hidden \cup L)
            = Cardinality(Hidden) + Cardinality(L) - Cardinality(Hidden \cap L)
      BY <2>3, FS_Union
    <3>2. Hidden \cap L \in SUBSET Keys /\ Hidden \cup L \in SUBSET Keys
      BY <1>1
    <3>3. Cardinality(Hidden \cap L) \in Nat /\ Cardinality(Hidden \cup L) \in Nat
      BY <3>2, KeySets
    <3>4. Cardinality(Hidden') <= Cardinality(Hidden \cup L)
      BY <2>1, <3>2, KeySets
    <3> QED
      BY <2>3, <3>1, <3>3, <3>4
  <2>5. HideSlack \in Nat /\ HideSlack' \in Nat
    BY <1>2 DEF HideSlack
  <2> QED
    BY <2>2, <2>3, <2>4, <2>5
<1>4. RepeatInv'
  <2> DEFINE a == Cardinality(V \cap seen)
             b == Cardinality(Taken' \cap seen')
             c == Cardinality(Rest' \cap (seen' \cup Taken'))
             p == Cardinality(Taken \cap seen)
             q == Cardinality(Rest \cap (seen \cup Taken))
             most == IF Shifts THEN inserted ELSE 0
  <2>1. seen' = seen \cup V /\ repeats' <= repeats + a
    BY DEF Flow
  <2>2. /\ N \in SUBSET Rest /\ V \in SUBSET (Taken \cup N)
        /\ Taken' \in SUBSET ((Taken \cup N) \ V) /\ Rest' \in SUBSET (Rest \ N)
    BY DEF Flow
  <2>3. a + b + c <= p + q
    BY <1>1, <1>2, <2>1, <2>2, Potential
  <2>4. a \in Nat /\ b \in Nat /\ c \in Nat /\ p \in Nat /\ q \in Nat
    <3>1. /\ V \cap seen \in SUBSET Keys /\ Taken' \cap seen' \in SUBSET Keys
          /\ Rest' \cap (seen' \cup Taken') \in SUBSET Keys /\ Taken \cap seen \in SUBSET Keys
          /\ Rest \cap (seen \cup Taken) \in SUBSET Keys
      BY <1>1
    <3> QED
      BY <3>1, KeySets
  <2>5. repeats + p + q <= most
    BY DEF RepeatInv
  <2>6. (IF Shifts' THEN inserted' ELSE 0) = most
    OBVIOUS
  <2>7. most \in Nat
    BY <1>2
  <2>8. RepeatInv' <=> repeats' + b + c <= IF Shifts' THEN inserted' ELSE 0
    BY DEF RepeatInv
  <2> HIDE DEF a, b, c, p, q, most
  <2>9. repeats' + b + c <= most
    <3>1. repeats' <= repeats + a /\ repeats \in Nat /\ repeats' \in Nat
      BY <1>2, <2>1
    <3> QED
      BY <2>3, <2>4, <2>5, <2>7, <3>1, Sums
  <2> QED
    BY <2>6, <2>8, <2>9
<1> QED
  BY <1>3, <1>4

-----------------------------------------------------------------------------
(* Rows that clients take out and put in. *)

\* What is not scanned yet does not change while the tables and the place are the same.
LEMMA UnscannedSame ==
  ASSUME task' = task, leg' = leg, scan'.start = scan.start, scan'.box = scan.box,
         leg = 2 => other' = other, leg # 2 \/ Op("locations") => table' = table
  PROVE  Unscanned' = Unscanned
<1>1. Scanned' = Scanned
  BY DEF Scanned, Op
<1>2. LaterThan(scan.box)' = LaterThan(scan.box)
  BY DEF LaterThan, Op
<1>3. AheadAt(scan.start)' = AheadAt(scan.start)
  BY <1>1 DEF AheadAt, First, Sql
<1> QED
  BY <1>2, <1>3 DEF Unscanned

\* At the offset 0 the whole table is ahead.
LEMMA FirstNone ==
  ASSUME NEW S \in SUBSET Keys
  PROVE  First(S, 0) = {}
<1>1. ASSUME NEW k \in First(S, 0) PROVE FALSE
  <2>1. k \in Keys /\ Cardinality(Before(S, k)) < 0
    BY <1>1 DEF First, Before
  <2>2. Cardinality(Before(S, k)) \in Nat
    BY <2>1, BeforeSize
  <2> QED
    BY <2>1, <2>2
<1> QED
  BY <1>1

\* The keys are positive: nothing is behind the token 0.
LEMMA Positive ==
  ASSUME NEW S \in SUBSET Keys
  PROVE  {k \in S : k > 0} = S
<1>1. \A k \in S : k \in Nat /\ k # 0
  BY KeyAssumption
<1>2. \A k \in S : k > 0
  BY <1>1
<1> QED
  BY <1>2

\* A row is taken out of the table that is scanned: at most one other row is hidden.
LEMMA TableLoses ==
  ASSUME PagesTypeOK, leg = 1, NEW k \in table, table' = table \ {k},
         task' = task, leg' = leg, scan'.start = scan.start, scan'.box = scan.box
  PROVE  /\ Unscanned' \subseteq Unscanned
         /\ \E L \in SUBSET Keys : /\ Unscanned \subseteq Unscanned' \cup {k} \cup L
                                   /\ Cardinality(L) <= 1 /\ Cardinality(L) \in Nat
                                   /\ ~Sql \/ scan.start = 0 => L = {} /\ Cardinality(L) = 0
<1>0. /\ k \in Keys /\ table \in SUBSET Keys /\ Scanned \in SUBSET Keys /\ scan.start \in Nat
      /\ {} \in SUBSET Keys /\ Cardinality({}) = 0
  BY ScannedType, FS_EmptySet DEF PagesTypeOK
<1>1. /\ LaterThan(scan.box)' \subseteq LaterThan(scan.box)
      /\ LaterThan(scan.box) \subseteq LaterThan(scan.box)' \cup {k}
  BY DEF LaterThan, Op
<1>2. Scanned' = Scanned \ {k}
  BY DEF Scanned, Op
<1>3. Sql' = Sql
  BY DEF Sql
<1>4. CASE ~Sql
  <2>1. AheadAt(scan.start)' = AheadAt(scan.start) \ {k}
    BY <1>2, <1>3, <1>4 DEF AheadAt
  <2> QED
    BY <1>0, <1>1, <1>4, <2>1 DEF Unscanned
<1>5. CASE Sql /\ k \notin Scanned
  <2>1. AheadAt(scan.start)' = AheadAt(scan.start)
    BY <1>2, <1>3, <1>5 DEF AheadAt, First
  <2> QED
    BY <1>0, <1>1, <2>1 DEF Unscanned
<1>6. CASE Sql /\ k \in Scanned
  <2> DEFINE S == Scanned \ {k}
             T == S \cup {k}
  <2>1. S \in SUBSET Keys /\ k \notin S /\ T = Scanned
    BY <1>0, <1>6
  <2>2. /\ AheadAt(scan.start) = T \ First(T, scan.start)
        /\ AheadAt(scan.start)' = S \ First(S, scan.start)
    BY <1>2, <1>3, <1>6, <2>1 DEF AheadAt, First
  <2> HIDE DEF S, T
  <2>3. /\ S \ First(S, scan.start) \subseteq T \ First(T, scan.start)
        /\ \E y \in Keys : T \ First(T, scan.start) \subseteq (S \ First(S, scan.start)) \cup {y}
    BY <1>0, <2>1, RestShifts DEF T
  <2>4. PICK y \in Keys :
          AheadAt(scan.start) \subseteq AheadAt(scan.start)' \cup {y}
    BY <2>2, <2>3
  <2>5. Unscanned' \subseteq Unscanned
    BY <1>1, <2>2, <2>3 DEF Unscanned
  <2>6. CASE scan.start = 0
    <3>1. First(S, 0) = {} /\ First(T, 0) = {}
      BY <1>0, <2>1, FirstNone
    <3>2. AheadAt(scan.start) \subseteq AheadAt(scan.start)' \cup {k}
      BY <2>2, <2>6, <3>1 DEF T
    <3> QED
      BY <1>0, <1>1, <2>5, <3>2 DEF Unscanned
  <2>7. CASE scan.start # 0
    <3>1. Cardinality({y}) = 1 /\ {y} \in SUBSET Keys /\ 1 \in Nat
      BY FS_Singleton
    <3>2. Unscanned \subseteq Unscanned' \cup {k} \cup {y}
      BY <1>1, <2>4 DEF Unscanned
    <3> QED
      BY <1>6, <2>5, <2>7, <3>1, <3>2
  <2> QED
    BY <2>6, <2>7
<1> QED
  BY <1>4, <1>5, <1>6

\* Where the last key of the DynamoDB driver is, and the box, a row is behind them.
Behind(k) == IF Op("locations") THEN \/ BoxOf[k] < scan.box
                                     \/ BoxOf[k] = scan.box /\ k <= scan.start
             ELSE k <= scan.start
BehindInv == ~Sql /\ Scanning => \A k \in seen \cup Taken : Behind(k)

\* A row is put into the table that is scanned: at most one row is ahead again.
LEMMA TableGains ==
  ASSUME PagesTypeOK, leg = 1, NEW k \in Keys \ table, table' = table \cup {k},
         task' = task, leg' = leg, scan' = scan
  PROVE  /\ Unscanned \subseteq Unscanned'
         /\ \E y \in Keys : Unscanned' \subseteq Unscanned \cup {y}
         /\ ~Sql => Unscanned' \subseteq Unscanned \cup {j \in {k} : ~Behind(j)}
<1>0. /\ table \in SUBSET Keys /\ Scanned \in SUBSET Keys /\ scan.start \in Nat
      /\ scan.box \in 1..NBoxes /\ NBoxes \in Nat /\ BoxOf[k] \in 1..NBoxes /\ k \in Nat
  BY ScannedType, BoxAssumption, KeyAssumption DEF PagesTypeOK
<1>1. Sql' = Sql
  BY DEF Sql
<1>2. CASE Op("locations") /\ BoxOf[k] # scan.box
  <2>1. Scanned' = Scanned
    BY <1>2 DEF Scanned, Op
  <2>2. AheadAt(scan.start)' = AheadAt(scan.start)
    BY <1>1, <2>1 DEF AheadAt, First
  <2>3. CASE BoxOf[k] > scan.box
    <3>1. LaterThan(scan.box)' = LaterThan(scan.box) \cup {k}
      BY <1>2, <2>3 DEF LaterThan, Op
    <3>2. ~Behind(k)
      BY <1>0, <1>2, <2>3 DEF Behind
    <3> QED
      BY <2>2, <3>1, <3>2 DEF Unscanned
  <2>4. CASE ~(BoxOf[k] > scan.box)
    <3>1. LaterThan(scan.box)' = LaterThan(scan.box)
      BY <1>2, <2>4 DEF LaterThan, Op
    <3> QED
      BY <2>2, <3>1 DEF Unscanned
  <2> QED
    BY <2>3, <2>4
<1>3. CASE ~Op("locations") \/ BoxOf[k] = scan.box
  <2>1. Scanned' = Scanned \cup {k} /\ k \notin Scanned
    BY <1>3 DEF Scanned, Op
  <2>2. LaterThan(scan.box)' = LaterThan(scan.box)
    <3>1. CASE ~Op("locations")
      BY <3>1 DEF LaterThan, Op
    <3>2. CASE Op("locations") /\ BoxOf[k] = scan.box
      <4>1. ~(BoxOf[k] > scan.box)
        BY <1>0, <3>2
      <4> QED
        BY <3>2, <4>1 DEF LaterThan, Op
    <3> QED
      BY <1>3, <3>1, <3>2
  <2>3. CASE Sql
    <3> DEFINE S == Scanned
               T == S \cup {k}
    <3>1. /\ AheadAt(scan.start) = S \ First(S, scan.start)
          /\ AheadAt(scan.start)' = T \ First(T, scan.start)
      BY <1>1, <2>1, <2>3 DEF AheadAt, First
    <3> HIDE DEF S, T
    <3>2. S \in SUBSET Keys /\ k \notin S
      BY <1>0, <2>1 DEF S
    <3>3. /\ S \ First(S, scan.start) \subseteq T \ First(T, scan.start)
          /\ \E y \in Keys : T \ First(T, scan.start) \subseteq (S \ First(S, scan.start)) \cup {y}
      BY <1>0, <3>2, RestShifts DEF T
    <3>4. PICK y \in Keys : AheadAt(scan.start)' \subseteq AheadAt(scan.start) \cup {y}
      BY <3>1, <3>3
    <3> QED
      BY <2>2, <2>3, <3>1, <3>3, <3>4 DEF Unscanned
  <2>4. CASE ~Sql
    <3>1. AheadAt(scan.start)' = AheadAt(scan.start) \cup {j \in {k} : j > scan.start}
      BY <1>1, <2>1, <2>4 DEF AheadAt
    <3>2. k > scan.start => ~Behind(k)
      BY <1>0, <1>3 DEF Behind
    <3> QED
      BY <2>2, <2>4, <3>1, <3>2 DEF Unscanned
  <2> QED
    BY <2>3, <2>4
<1> QED
  BY <1>2, <1>3

-----------------------------------------------------------------------------
(* The steps that move rows. *)

\* What RowDone leaves of the rows taken, and whether the scan goes on.
LEMMA RowDoneParts ==
  ASSUME PagesTypeOK, PlaceInv, at \in {"rows", "unlink"}, RowDone, UNCHANGED <<task, leg>>
  PROVE  /\ Row \in scan.page /\ Taken' = scan.page \ {Row}
         /\ Taken = IF at = "rows" THEN scan.page ELSE scan.page \ {Row}
         /\ scan'.start = scan.start /\ scan'.box = scan.box
         /\ at' \notin {"failed", "unlink"}
         /\ Scanning' => Scanning
         /\ task.limit = 0 => (Scanning' <=> Scanning)
<1>1. /\ scan.page # {} /\ scan.got = {} /\ scan \in Scans /\ task \in Tasks /\ leg \in 1..2
      /\ scan.start \in Nat
  BY ScannedType DEF PlaceInv, PagesTypeOK, Scans
<1>2. /\ scan'.start = scan.start /\ scan'.got = {} /\ scan'.page = scan.page \ {Row}
      /\ scan'.box = scan.box
      /\ \/ at' = "rows"
         \/ at' = "select" /\ More(scan)
         \/ at' = ScanEnd /\ ~More(scan)
  BY <1>1, RowDoneScan
<1>3. Row \in scan.page
  BY <1>1, RowOfPage
<1>4. ScanEnd \in {"drop", "cleanup", "done"}
  BY DEF ScanEnd
<1>5. at' \notin {"failed", "unlink"}
  BY <1>2, <1>4
<1>6. Taken' = scan.page \ {Row}
  BY <1>2, <1>5 DEF Taken
<1>7. Taken = IF at = "rows" THEN scan.page ELSE scan.page \ {Row}
  BY <1>1 DEF Taken
<1>8. More(scan) => scan.start # 0
  BY DEF More
<1>9. task.limit = 0 /\ scan.start # 0 => More(scan)
  BY DEF More
<1>10. Scanning <=> scan.start # 0
  BY DEF Scanning
<1>11. Scanning' => Scanning
  BY <1>2, <1>4, <1>8, <1>10 DEF Scanning
<1>12. ASSUME task.limit = 0, Scanning PROVE Scanning'
  <2>1. More(scan)
    BY <1>9, <1>10, <1>12
  <2>2. at' = "rows" \/ at' = "select"
    BY <1>2, <2>1
  <2> QED
    BY <1>2, <1>10, <1>12, <2>2 DEF Scanning
<1> QED
  BY <1>2, <1>3, <1>5, <1>6, <1>7, <1>11, <1>12

\* The callback of a row, and what becomes of the row.
RowGiven == IF at = "rows" THEN Visit ELSE UNCHANGED given

\* The callback of a row moves one row.
LEMMA RowFlow ==
  ASSUME PagesTypeOK, PlaceInv, at \in {"rows", "unlink"}, RowDone, UNCHANGED <<task, leg, stayed>>,
         RowGiven,
         NEW L \in SUBSET Keys,
         Unscanned' \subseteq Unscanned, Unscanned \subseteq Unscanned' \cup {Row} \cup L
  PROVE  \E V \in SUBSET Keys : Flow({}, V, L)
<1> DEFINE V == IF at = "rows" THEN {Row} ELSE {}
<1>1. /\ Row \in scan.page /\ Taken' = scan.page \ {Row}
      /\ Taken = IF at = "rows" THEN scan.page ELSE scan.page \ {Row}
      /\ Scanning' => Scanning
      /\ task.limit = 0 => (Scanning' <=> Scanning)
  BY RowDoneParts
<1>2. /\ Row \in seen' /\ seen' = seen \cup V
      /\ repeats' <= repeats + Cardinality(V \cap seen) /\ V \in SUBSET Keys
  <2>1. CASE at = "rows"
    <3>1. /\ seen' = seen \cup {Row} /\ seen' \subseteq Keys
          /\ repeats' <= repeats + Cardinality({Row} \cap seen)
      BY <2>1, VisitType DEF RowGiven
    <3> QED
      BY <2>1, <3>1
  <2>2. CASE at # "rows"
    <3>1. UNCHANGED given /\ Row \in seen /\ V = {}
      BY <2>2 DEF PlaceInv, RowGiven
    <3>2. repeats \in Nat /\ Cardinality(V \cap seen) = 0
      BY <3>1, FS_EmptySet DEF PagesTypeOK
    <3> QED
      BY <3>1, <3>2 DEF given
  <2> QED
    BY <2>1, <2>2
<1>3. V \subseteq Taken \cup {} /\ Taken' \subseteq (Taken \cup {}) \ V
  BY <1>1
<1>4. Rest' \subseteq Rest \ {}
  BY <1>1 DEF Rest
<1>5. task.limit = 0 => Rest \subseteq Rest' \cup {Row} \cup L
  BY <1>1 DEF Rest
<1>6. Taken \subseteq Taken' \cup {Row}
  BY <1>1
<1>7. Complete' => task.limit = 0
  BY DEF Complete
<1> HIDE DEF V
<1>8. Flow({}, V, L)
  BY <1>2, <1>3, <1>4, <1>5, <1>6, <1>7 DEF Flow
<1> QED
  BY <1>2, <1>8

\* A page of a scan or search.
LEMMA SelectedFlow ==
  ASSUME PagesTypeOK, PlaceInv, at = "select",
         UNCHANGED <<task, table, other, leg, stayed>>,
         NEW N \in SUBSET Keys, NEW token \in Nat, NEW count \in Int, Reads(N, token),
         Selected(scan.got \cup N, token, count)
  PROVE  /\ \E V \in SUBSET Keys : Flow(N, V, {})
         /\ scan'.start = token
         /\ Scanning' => token # 0 \/ Op("locations")
         /\ scan'.box = IF Op("locations") /\ token = 0 /\ at' # "done"
                        THEN scan.box + 1 ELSE scan.box
<1>0. /\ scan \in Scans /\ task \in Tasks /\ leg \in 1..2 /\ scan.page = {}
      /\ scan.got \in SUBSET Keys /\ scan.start \in Nat /\ scan.box \in 1..NBoxes
      /\ Scanned \in SUBSET Keys /\ seen \in SUBSET Keys /\ repeats \in Nat
      /\ NBoxes \in Nat /\ BoxOf \in [Keys -> 1..NBoxes] /\ table \in SUBSET Keys
      /\ task.limit \in Nat
  BY ScannedType, BoxAssumption, LimitType DEF PlaceInv, PagesTypeOK
<1> DEFINE found == scan.got \cup N
           A == AheadAt(scan.start)
<1>1. found \in SUBSET Keys
  BY <1>0
<1>2. /\ N \subseteq A
      /\ token # 0 => AheadAt(token) = A \ N
      /\ token = 0 => A = N
  BY DEF Reads
<1>3. Scanning /\ Rest = A \cup LaterThan(scan.box) /\ Taken = scan.got
  BY <1>0 DEF Scanning, Rest, Unscanned, Taken
<1>4. Due' = Due
  BY DEF Due, Op
<1>5. CASE ~Op("locations")
  <2>1. ScanPage(found, token, count)
    BY <1>5 DEF Selected
  <2>2. /\ UNCHANGED given
        /\ scan'.start = token /\ scan'.got = {} /\ scan'.page = found /\ scan'.box = scan.box
        /\ \/ at' = "rows"
           \/ at' = "select" /\ found = {} /\ token # 0
           \/ /\ at' = ScanEnd /\ found = {}
              /\ ~(token # 0 /\ ~(task.limit > 0 /\ scan'.nrows >= task.limit))
    <3> HIDE DEF found
    <3>1. /\ UNCHANGED given
          /\ scan'.start = token /\ scan'.got = {} /\ scan'.page = found
          /\ scan'.box = scan.box
      BY <1>0, <1>1, <2>1, PageScan
    <3>2. \/ at' = "rows" /\ found # {} /\ scan'.count = count
          \/ /\ at' = "select" /\ found = {} /\ token # 0
             /\ ~(task.limit > 0 /\ scan'.nrows >= task.limit)
             /\ scan'.count = IF task.limit > 0 /\ task.limit - scan'.nrows < count
                              THEN task.limit - scan'.nrows ELSE count
          \/ /\ at' = ScanEnd /\ found = {} /\ scan'.count = count
             /\ ~(token # 0 /\ ~(task.limit > 0 /\ scan'.nrows >= task.limit))
      BY <1>0, <1>1, <2>1, PageScan, Zenon
    <3> QED
      BY <3>1, <3>2
  <2>3. ScanEnd \in {"drop", "cleanup", "done"}
    BY DEF ScanEnd
  <2>4. Taken' = found
    BY <2>2, <2>3 DEF Taken
  <2>5. Scanning' => token # 0
    BY <2>2, <2>3 DEF Scanning
  <2>6. task.limit = 0 /\ token # 0 => Scanning'
    <3> SUFFICES ASSUME task.limit = 0, token # 0 PROVE Scanning'
      OBVIOUS
    <3>1. at' = "rows" \/ at' = "select"
      BY <2>2
    <3> QED
      BY <2>2, <3>1 DEF Scanning
  <2>7. Scanned' = Scanned /\ Sql' = Sql
    BY <1>5 DEF Scanned, Op, Sql
  <2>8. Unscanned' = AheadAt(token) /\ Unscanned = A
    <3>1. AheadAt(scan.start)' = AheadAt(token)
      BY <2>2, <2>7 DEF AheadAt, First
    <3>2. LaterThan(scan.box)' = {} /\ LaterThan(scan.box) = {}
      BY <1>5 DEF LaterThan, Op
    <3> QED
      BY <3>1, <3>2 DEF Unscanned
  <2>9. Rest' \subseteq Rest \ N
    BY <1>2, <1>3, <2>5, <2>8 DEF Rest
  <2>10. task.limit = 0 => Rest \subseteq Rest' \cup N
    BY <1>2, <2>5, <2>6, <2>8 DEF Rest
  <2>11. Complete' => task.limit = 0
    BY DEF Complete
  <2>12. repeats' <= repeats + Cardinality({} \cap seen)
    <3>1. {} \cap seen = {} /\ Cardinality({}) = 0
      BY FS_EmptySet
    <3> QED
      BY <1>0, <2>2, <3>1 DEF given
  <2>13. Flow(N, {}, {})
    <3> HIDE DEF A
    <3>1. N \subseteq Rest /\ seen' = seen
      BY <1>2, <1>3, <2>2 DEF given
    <3> QED
      BY <1>3, <1>4, <2>4, <2>9, <2>10, <2>11, <2>12, <3>1 DEF Flow
  <2> QED
    BY <1>5, <2>2, <2>5, <2>13
<1>6. CASE Op("locations")
  <2> DEFINE V == found \cap Within
  <2>1. LocationsPage(found, token, count)
    BY <1>6 DEF Selected
  <2>2. /\ Give(V) /\ V \in SUBSET Keys
        /\ scan'.start = token /\ scan'.got = {} /\ scan'.page = {}
        /\ \/ at' = "done" /\ token = 0 /\ scan.box = NBoxes /\ scan'.box = scan.box
           \/ /\ at' \in {"call", "select"} /\ (token # 0 \/ scan.box < NBoxes)
              /\ scan'.box = IF token = 0 THEN scan.box + 1 ELSE scan.box
    <3> HIDE DEF found
    <3>1. V \in SUBSET Keys
      BY <1>1
    <3> QED
      BY <1>0, <1>1, <2>1, <3>1, PageSearch
  <2>3. seen' = seen \cup V /\ repeats' <= repeats + Cardinality(V \cap seen)
    <3> HIDE DEF V
    <3> QED
      BY <2>2, Given
  <2>4. Taken' = {}
    BY <2>2 DEF Taken
  <2>5. LaterThan(scan.box) \cap A = {}
    <3>1. \A k \in A : BoxOf[k] = scan.box
      BY <1>6 DEF AheadAt, Scanned
    <3>2. ~(scan.box > scan.box)
      BY <1>0
    <3> QED
      BY <3>1, <3>2 DEF LaterThan
  <2>6. Rest' = (A \ N) \cup LaterThan(scan.box)
    <3>1. CASE token # 0
      <4>1. scan'.box = scan.box /\ Scanning'
        BY <2>2, <3>1 DEF Scanning
      <4>2. Scanned' = Scanned /\ LaterThan(scan.box)' = LaterThan(scan.box)
        BY <1>6, <4>1 DEF Scanned, LaterThan, Op
      <4>3. AheadAt(scan.start)' = AheadAt(token)
        BY <2>2, <4>2 DEF AheadAt, First, Sql
      <4> QED
        BY <1>2, <3>1, <4>1, <4>2, <4>3 DEF Rest, Unscanned
    <3>2. CASE token = 0 /\ at' = "done"
      <4>1. Rest' = {}
        BY <3>2 DEF Rest, Scanning
      <4>2. scan.box = NBoxes
        BY <2>2, <3>2
      <4>3. LaterThan(scan.box) = {}
        <5>1. \A k \in table : BoxOf[k] \in Nat /\ BoxOf[k] <= NBoxes
          BY <1>0
        <5>2. \A k \in table : ~(BoxOf[k] > NBoxes)
          BY <1>0, <5>1
        <5> QED
          BY <4>2, <5>2 DEF LaterThan
      <4> QED
        BY <1>2, <3>2, <4>1, <4>3
    <3>3. CASE token = 0 /\ at' # "done"
      <4>1. Scanning' /\ scan'.box = scan.box + 1 /\ scan'.start = 0
        BY <2>2, <3>3 DEF Scanning
      <4>2. Scanned' = {k \in table : BoxOf[k] = scan.box + 1}
        BY <1>6, <4>1 DEF Scanned, Op
      <4>3. LaterThan(scan.box)' = {k \in table : BoxOf[k] > scan.box + 1}
        BY <1>6, <4>1 DEF LaterThan, Op
      <4>4. AheadAt(scan.start)' = Scanned'
        <5>1. Scanned' \in SUBSET Keys
          BY <1>0, <4>2
        <5>2. First(Scanned', 0) = {}
          BY <5>1, FirstNone
        <5>3. {k \in Scanned' : k > 0} = Scanned'
          BY <5>1, Positive
        <5>4. AheadAt(scan.start)' = IF Sql' THEN Scanned' \ First(Scanned', 0)
                                     ELSE {k \in Scanned' : k > 0}
          BY <4>1 DEF AheadAt, First
        <5> QED
          BY <5>2, <5>3, <5>4
      <4>5. Rest' = {k \in table : BoxOf[k] = scan.box + 1 \/ BoxOf[k] > scan.box + 1}
        BY <4>1, <4>2, <4>3, <4>4 DEF Rest, Unscanned
      <4>6. LaterThan(scan.box) = {k \in table : BoxOf[k] > scan.box}
        BY <1>6 DEF LaterThan
      <4>7. \A k \in table : BoxOf[k] > scan.box
                              <=> (BoxOf[k] = scan.box + 1 \/ BoxOf[k] > scan.box + 1)
        <5>1. \A k \in table : BoxOf[k] \in Nat
          BY <1>0
        <5> QED
          BY <1>0, <5>1
      <4>8. Rest' = LaterThan(scan.box)
        BY <4>5, <4>6, <4>7
      <4> QED
        BY <1>2, <3>3, <4>8
    <3> QED
      BY <2>2, <3>1, <3>2, <3>3
  <2>7. Complete' => Due' \subseteq Within
    <3> SUFFICES ASSUME Complete' PROVE Due' \subseteq Within
      OBVIOUS
    <3>1. ~task.inQuery
      BY <1>6 DEF Complete, Misled, Op
    <3> QED
      BY <1>4, <1>6, <3>1 DEF Due, Within
  <2> HIDE DEF A
  <2>8. Rest' = Rest \ N
    BY <1>2, <1>3, <2>5, <2>6
  <2>9. N \subseteq Rest /\ V \subseteq Taken \cup N
    BY <1>2, <1>3
  <2>10. Flow(N, V, {})
    <3>1. Complete' => Due' \cap (Taken \cup Rest) \subseteq seen' \cup Taken' \cup Rest' \cup {}
      BY <1>3, <2>3, <2>7, <2>8
    <3> HIDE DEF V
    <3>2. Taken' \subseteq (Taken \cup N) \ V
      BY <2>4
    <3> QED
      BY <2>3, <2>8, <2>9, <3>1, <3>2 DEF Flow
  <2> QED
    BY <1>6, <2>2, <2>10
<1> QED
  BY <1>5, <1>6

-----------------------------------------------------------------------------
(* The bounds on hidden and repeated rows, step by step. *)

PartsInv == HiddenInv /\ RepeatInv /\ BehindInv

\* The rows that may be hidden do not get fewer.
LEMMA SlackKept ==
  ASSUME PagesTypeOK, UNCHANGED <<task, leg>>, excused => excused',
         NEW d \in Nat, removed' = removed + d
  PROVE  /\ HideSlack + 0 <= HideSlack'
         /\ ~(Shifts /\ Op("migrate") /\ ~excused') /\ Shifts => HideSlack + d <= HideSlack'
<1>1. removed \in Nat
  BY DEF PagesTypeOK
<1>2. Shifts' = Shifts /\ Op("migrate")' = Op("migrate")
  BY DEF Shifts, Op, Sql
<1>3. HideSlack = removed \/ HideSlack = 0
  BY DEF HideSlack
<1>4. HideSlack = removed => HideSlack' = removed' \/ removed = 0
  BY <1>2 DEF HideSlack
<1>5. HideSlack' = removed' \/ HideSlack' = 0
  BY DEF HideSlack
<1>6. ~(Shifts /\ Op("migrate") /\ ~excused') /\ Shifts => HideSlack' = removed'
  BY <1>2 DEF HideSlack
<1> QED
  BY <1>1, <1>3, <1>4, <1>5, <1>6

\* A step that reads no rows: the callback of a row, or one that leaves the rows taken.
LEMMA QuietStep ==
  ASSUME PagesTypeOK, PagesTypeOK', PartsInv,
         NEW V \in SUBSET Keys, NEW L \in SUBSET Keys, Flow({}, V, L),
         UNCHANGED <<task, leg, inserted>>, stayed' \subseteq stayed,
         excused => excused', at = "failed" => at' = "failed",
         scan'.start = scan.start, scan'.box = scan.box, Scanning' => Scanning,
         Complete' => HideSlack + Cardinality(L) <= HideSlack'
  PROVE  PartsInv'
<1>1. Due' \subseteq Due
  BY DEF Due, Op
<1>2. Complete' => Complete
  BY DEF Complete, Misled, Op
<1>3. Shifts' = Shifts
  BY DEF Shifts, Sql
<1>4. HiddenInv' /\ RepeatInv'
  <2>1. {} \in SUBSET Keys
    OBVIOUS
  <2> QED
    BY <1>1, <1>2, <1>3, <2>1, FlowKeeps DEF PartsInv
<1>5. BehindInv'
  <2> SUFFICES ASSUME ~Sql', Scanning', NEW k \in seen' \cup Taken'
               PROVE  Behind(k)'
    BY DEF BehindInv
  <2>1. k \in seen \cup Taken
    BY DEF Flow
  <2>2. Behind(k)
    BY <2>1 DEF PartsInv, BehindInv, Sql
  <2> QED
    BY <2>2 DEF Behind, Op
<1> QED
  BY <1>4, <1>5 DEF PartsInv

\* Nothing is read, given or hidden.
LEMMA StillStep ==
  ASSUME PagesTypeOK, PagesTypeOK', PartsInv,
         UNCHANGED <<task, leg, inserted, removed, stayed, given>>,
         excused => excused', at = "failed" => at' = "failed",
         scan'.start = scan.start, scan'.box = scan.box, Scanning' => Scanning,
         Taken' \subseteq Taken, Rest' \subseteq Rest,
         Complete' => Taken \subseteq Taken' \cup seen /\ Rest \subseteq Rest'
  PROVE  PartsInv'
<1>1. {} \in SUBSET Keys /\ {} \cap seen = {} /\ Cardinality({}) = 0 /\ repeats \in Nat
      /\ removed \in Nat
  BY FS_EmptySet DEF PagesTypeOK
<1>2. seen' = seen /\ repeats' = repeats
  BY DEF given
<1>3. Flow({}, {}, {})
  <2>1. repeats' <= repeats + Cardinality({} \cap seen)
    BY <1>1, <1>2
  <2> QED
    BY <1>2, <2>1 DEF Flow
<1>4. HideSlack + 0 <= HideSlack'
  <2>1. removed' = removed + 0
    BY <1>1
  <2>2. 0 \in Nat
    OBVIOUS
  <2> QED
    BY <2>1, <2>2, SlackKept
<1>5. HideSlack + Cardinality({}) <= HideSlack'
  BY <1>1, <1>4
<1> QED
  BY <1>1, <1>3, <1>5, QuietStep

\* Nothing was repeated yet.
LEMMA NoMore == 0 <= 0 /\ 0 + 0 + 0 <= 0
  OBVIOUS

\* The scan starts anew.
LEMMA FreshStep ==
  ASSUME PagesTypeOK', scan' = Started, task \in Tasks, seen' = {}, repeats' = 0,
         at' \in {"select", "dropTemp"}, stayed' = Scanned', task' = task,
         Op("locations") => FALSE, inserted' = 0, removed' = 0
  PROVE  PartsInv'
<1>1. scan'.start = 0 /\ scan'.got = {} /\ scan'.page = {}
  BY StartedType
<1>2. Taken' = {}
  BY <1>1 DEF Taken
<1>3. Scanned' \in SUBSET Keys
  BY DEF PagesTypeOK, Scanned
<1>4. Rest' = Scanned'
  <2>1. First(Scanned', 0) = {}
    BY <1>3, FirstNone
  <2>2. {k \in Scanned' : k > 0} = Scanned'
    BY <1>3, Positive
  <2>3. AheadAt(scan.start)' = IF Sql' THEN Scanned' \ First(Scanned', 0)
                               ELSE {k \in Scanned' : k > 0}
    BY <1>1 DEF AheadAt, First
  <2>4. AheadAt(scan.start)' = Scanned'
    BY <2>1, <2>2, <2>3
  <2>5. LaterThan(scan.box)' = {}
    BY DEF LaterThan, Op
  <2>6. Scanning'
    BY DEF Scanning
  <2> QED
    BY <2>4, <2>5, <2>6 DEF Rest, Unscanned
<1>5. HiddenInv'
  <2>1. Due' = Scanned'
    BY DEF Due, Op
  <2>2. Hidden' = {}
    BY <1>4, <2>1 DEF Hidden
  <2>3. Cardinality(Hidden') = 0
    BY <2>2, FS_EmptySet
  <2>4. HideSlack' = 0
    BY DEF HideSlack
  <2> QED
    BY <2>3, <2>4, NoMore, Zenon DEF HiddenInv
<1>6. RepeatInv'
  <2>1. Taken' \cap seen' = {} /\ Rest' \cap (seen' \cup Taken') = {}
    BY <1>2
  <2>2. Cardinality(Taken' \cap seen') = 0 /\ Cardinality(Rest' \cap (seen' \cup Taken')) = 0
    BY <2>1, FS_EmptySet
  <2>3. (IF Shifts' THEN inserted' ELSE 0) = 0
    BY Zenon
  <2> QED
    BY <2>2, <2>3, NoMore, Zenon DEF RepeatInv
<1>7. BehindInv'
  BY <1>2 DEF BehindInv
<1> QED
  BY <1>5, <1>6, <1>7 DEF PartsInv

\* The bounds of hidden and repeated rows hold initially.
LEMMA PartsInit == PagesInit => PartsInv
<1> SUFFICES ASSUME PagesInit PROVE PartsInv
  OBVIOUS
<1>0. PagesTypeOK
  BY PagesInitType
<1>1. task \in Tasks /\ scan = Started /\ seen = {} /\ repeats = 0 /\ removed = 0 /\ inserted = 0
      /\ leg = 1 /\ stayed = table /\ at \in {"select", "dropTemp"}
  BY DEF PagesInit
<1>2. scan.start = 0 /\ scan.got = {} /\ scan.page = {} /\ scan.box = 1
  BY <1>1, StartedType
<1>3. Taken = {}
  BY <1>1, <1>2 DEF Taken
<1>4. Scanned \in SUBSET Keys /\ Scanning
  BY <1>0, <1>1, ScannedType DEF Scanning
<1>5. AheadAt(scan.start) = Scanned
  <2>1. First(Scanned, 0) = {}
    BY <1>4, FirstNone
  <2>2. {k \in Scanned : k > 0} = Scanned
    BY <1>4, Positive
  <2> QED
    BY <1>2, <2>1, <2>2 DEF AheadAt
<1>6. Due \subseteq Rest
  <2>1. Due \subseteq table
    BY <1>1 DEF Due
  <2>2. table \subseteq Scanned \cup LaterThan(scan.box)
    <3>1. CASE Op("locations")
      <4>1. \A k \in table : BoxOf[k] = 1 \/ BoxOf[k] > 1
        <5>1. \A k \in table : BoxOf[k] \in 1..NBoxes
          BY <1>0, BoxAssumption DEF PagesTypeOK
        <5>2. NBoxes \in Nat
          BY BoxAssumption
        <5> QED
          BY <5>1, <5>2
      <4> QED
        BY <1>2, <3>1, <4>1 DEF Scanned, LaterThan
    <3>2. CASE ~Op("locations")
      <4>1. leg # 2
        <5>1. leg = 1
          BY DEF PagesInit
        <5> QED
          BY <5>1
      <4> QED
        BY <3>2, <4>1 DEF Scanned
    <3> QED
      BY <3>1, <3>2
  <2> QED
    BY <1>4, <1>5, <2>1, <2>2 DEF Rest, Unscanned
<1>7. HiddenInv
  <2>1. Hidden = {}
    BY <1>6 DEF Hidden
  <2>2. Cardinality(Hidden) = 0 /\ HideSlack = 0
    BY <1>1, <2>1, FS_EmptySet DEF HideSlack
  <2> QED
    BY <2>2 DEF HiddenInv
<1>8. RepeatInv
  <2>1. Taken \cap seen = {} /\ Rest \cap (seen \cup Taken) = {}
    BY <1>1, <1>3
  <2>2. Cardinality(Taken \cap seen) = 0 /\ Cardinality(Rest \cap (seen \cup Taken)) = 0
    BY <2>1, FS_EmptySet
  <2>3. (IF Shifts THEN inserted ELSE 0) = 0 /\ repeats = 0
    BY <1>1
  <2> QED
    BY <2>2, <2>3, NoMore, Zenon DEF RepeatInv
<1>9. BehindInv
  BY <1>1, <1>3 DEF BehindInv
<1> QED
  BY <1>7, <1>8, <1>9 DEF PartsInv

\* A request that is not the last of its select.
LEMMA PartFlow ==
  ASSUME PagesTypeOK, PlaceInv, at = "select", ~Sql,
         UNCHANGED <<task, table, other, leg, stayed, at, given>>,
         NEW N \in SUBSET Keys, NEW token \in Nat, token # 0, NEW count \in Int, Reads(N, token),
         scan' = [scan EXCEPT !.start = token, !.count = count, !.got = scan.got \cup N]
  PROVE  /\ Flow(N, {}, {})
         /\ scan'.start = token /\ scan'.box = scan.box
<1>0. /\ scan \in Scans /\ scan.page = {} /\ repeats \in Nat
      /\ scan.got \in SUBSET Keys
  BY ScannedType DEF PlaceInv, PagesTypeOK
<1>1. /\ scan'.start = token /\ scan'.got = scan.got \cup N /\ scan'.page = {}
      /\ scan'.box = scan.box
  BY <1>0 DEF Scans
<1>2. Taken' = Taken \cup N
  BY <1>0, <1>1 DEF Taken
<1>3. Scanned' = Scanned /\ LaterThan(scan.box)' = LaterThan(scan.box)
  BY <1>1 DEF Scanned, LaterThan, Op
<1>4. AheadAt(scan.start)' = AheadAt(token)
  BY <1>1, <1>3 DEF AheadAt, First, Sql
<1>5. AheadAt(token) = AheadAt(scan.start) \ N /\ N \subseteq AheadAt(scan.start)
  BY DEF Reads
<1>6. Scanning /\ Scanning'
  BY DEF Scanning
<1>7. LaterThan(scan.box) \cap AheadAt(scan.start) = {}
  <2>1. Op("locations") => \A k \in AheadAt(scan.start) : BoxOf[k] = scan.box
    BY DEF AheadAt, Scanned
  <2>2. ~(scan.box > scan.box)
    BY ScannedType
  <2> QED
    BY <2>1, <2>2 DEF LaterThan
<1>8. Rest' = Rest \ N /\ N \subseteq Rest
  BY <1>3, <1>4, <1>5, <1>6, <1>7 DEF Rest, Unscanned
<1>9. seen' = seen /\ repeats' = repeats /\ Cardinality({} \cap seen) = 0
  <2>1. {} \cap seen = {}
    OBVIOUS
  <2> QED
    BY <2>1, FS_EmptySet DEF given
<1>10. repeats' <= repeats + Cardinality({} \cap seen)
  BY <1>0, <1>9
<1>11. seen' = seen \cup {} /\ {} \subseteq Taken \cup N
  BY <1>9
<1>12. Flow(N, {}, {})
  BY <1>2, <1>8, <1>10, <1>11 DEF Flow
<1> QED
  BY <1>1, <1>12

\* The rows that were read are behind the place where the scan goes on.
LEMMA BehindRead ==
  ASSUME PagesTypeOK, BehindInv, Scanning, task' = task, scan' \in Scans,
         NEW N \in SUBSET Keys, NEW V, NEW token \in Nat, Reads(N, token), Flow(N, V, {}),
         scan'.start = token, Scanning' => token # 0 \/ Op("locations"),
         Scanning' => scan'.box = IF Op("locations") /\ token = 0 THEN scan.box + 1 ELSE scan.box
  PROVE  BehindInv'
<1> SUFFICES ASSUME ~Sql', Scanning', NEW k \in seen' \cup Taken'
             PROVE  Behind(k)'
  BY DEF BehindInv
<1>0. /\ scan.start \in Nat /\ scan.box \in 1..NBoxes /\ NBoxes \in Nat /\ ~Sql
      /\ Scanned \in SUBSET Keys
  BY ScannedType, BoxAssumption DEF Sql
<1>1. k \in seen \cup Taken \cup N
  BY DEF Flow
<1>2. k \in Keys /\ k \in Nat /\ BoxOf[k] \in Nat
  <2>1. seen \subseteq Keys /\ Taken \subseteq Keys
    BY PartsType DEF PagesTypeOK
  <2>2. k \in Keys
    BY <1>1, <2>1
  <2>3. BoxOf[k] \in 1..NBoxes
    BY <2>2, BoxAssumption
  <2> QED
    BY <1>0, <2>2, <2>3, KeyAssumption
<1>3. /\ token # 0 => scan.start <= token /\ \A j \in N : j <= token
      /\ \A j \in N : Op("locations") => BoxOf[j] = scan.box
  BY <1>0 DEF Reads, AheadAt, Scanned
<1>4. Behind(k)' = IF Op("locations") THEN \/ BoxOf[k] < scan'.box
                                           \/ BoxOf[k] = scan'.box /\ k <= token
                   ELSE k <= token
  BY DEF Behind, Op
<1>5. CASE k \in N
  <2>1. CASE token # 0
    <3>1. k <= token /\ scan'.box = scan.box
      BY <1>3, <1>5, <2>1
    <3> QED
      BY <1>3, <1>4, <1>5, <3>1
  <2>2. CASE token = 0
    <3>1. Op("locations") /\ scan'.box = scan.box + 1 /\ BoxOf[k] = scan.box
      BY <1>3, <1>5, <2>2
    <3>2. BoxOf[k] < scan'.box
      BY <1>0, <3>1
    <3> QED
      BY <1>4, <3>1, <3>2
  <2> QED
    BY <2>1, <2>2
<1>6. CASE k \notin N
  <2>1. Behind(k)
    BY <1>0, <1>1, <1>6 DEF BehindInv
  <2>2. CASE token # 0
    <3>1. k <= scan.start => k <= token
      BY <1>0, <1>2, <1>3, <2>2
    <3>2. scan'.box = scan.box
      BY <2>2
    <3> QED
      BY <1>4, <2>1, <3>1, <3>2 DEF Behind
  <2>3. CASE token = 0
    <3>1. Op("locations") /\ scan'.box = scan.box + 1
      BY <2>3
    <3>2. BoxOf[k] < scan.box \/ BoxOf[k] = scan.box
      BY <2>1, <3>1 DEF Behind
    <3>3. BoxOf[k] < scan'.box
      BY <1>0, <1>2, <3>1, <3>2
    <3> QED
      BY <1>4, <3>1, <3>3
  <2> QED
    BY <2>2, <2>3
<1> QED
  BY <1>5, <1>6

\* A select keeps the bounds.
LEMMA SelectParts ==
  ASSUME PagesTypeOK, PagesTypeOK', PlaceInv, PartsInv, SelectSql \/ SelectDynamo
  PROVE  PartsInv'
<1>1. at = "select" /\ (Sql => scan.got = {}) /\ scan' \in Scans /\ Scanning
  BY DEF SelectSql, SelectDynamo, PlaceInv, PagesTypeOK, Scans, Scanning
<1>2. /\ UNCHANGED <<task, table, other, leg, stayed, removed, excused, inserted>>
  BY DEF SelectSql, SelectDynamo, clients
<1>3. PICK N \in SUBSET Keys, token \in Nat, count \in Int :
        /\ Reads(N, token)
        /\ \/ Selected(scan.got \cup N, token, count)
           \/ /\ ~Sql /\ token # 0 /\ UNCHANGED <<at, given>>
              /\ scan' = [scan EXCEPT !.start = token, !.count = count, !.got = scan.got \cup N]
  BY <1>1, SelectReads
<1>4. /\ \E V \in SUBSET Keys : Flow(N, V, {})
      /\ scan'.start = token
      /\ Scanning' => token # 0 \/ Op("locations")
      /\ Scanning' => scan'.box = IF Op("locations") /\ token = 0 THEN scan.box + 1 ELSE scan.box
  <2>1. CASE Selected(scan.got \cup N, token, count)
    <3>1. /\ \E V \in SUBSET Keys : Flow(N, V, {})
          /\ scan'.start = token
          /\ Scanning' => token # 0 \/ Op("locations")
          /\ scan'.box = IF Op("locations") /\ token = 0 /\ at' # "done"
                         THEN scan.box + 1 ELSE scan.box
      BY <1>1, <1>2, <1>3, <2>1, SelectedFlow
    <3>2. Scanning' => at' # "done"
      BY DEF Scanning
    <3> QED
      BY <3>1, <3>2
  <2>2. CASE /\ ~Sql /\ token # 0 /\ UNCHANGED <<at, given>>
             /\ scan' = [scan EXCEPT !.start = token, !.count = count, !.got = scan.got \cup N]
    <3>1. Flow(N, {}, {}) /\ scan'.start = token /\ scan'.box = scan.box
      BY <1>1, <1>2, <1>3, <2>2, PartFlow
    <3>2. {} \in SUBSET Keys
      OBVIOUS
    <3> QED
      BY <2>2, <3>1, <3>2
  <2> QED
    BY <1>3, <2>1, <2>2
<1>5. PICK V \in SUBSET Keys : Flow(N, V, {})
  BY <1>4
<1>6. BehindInv'
  BY <1>1, <1>2, <1>3, <1>4, <1>5, BehindRead DEF PartsInv
<1>7. HiddenInv' /\ RepeatInv'
  <2>1. Due' \subseteq Due
    BY <1>2 DEF Due, Op
  <2>2. Complete' => Complete
    BY <1>1, <1>2 DEF Complete, Misled, Op
  <2>3. Shifts' = Shifts
    BY <1>2 DEF Shifts, Sql
  <2>4. HideSlack + Cardinality({}) <= HideSlack'
    <3>1. removed \in Nat /\ removed' = removed
      BY <1>2 DEF PagesTypeOK
    <3>2. removed' = removed + 0 /\ 0 \in Nat
      BY <3>1
    <3>3. HideSlack + 0 <= HideSlack'
      BY <1>2, <3>2, SlackKept
    <3>4. Cardinality({}) = 0
      BY FS_EmptySet
    <3> QED
      BY <3>3, <3>4
  <2>5. {} \in SUBSET Keys
    OBVIOUS
  <2> QED
    BY <1>2, <1>5, <2>1, <2>2, <2>3, <2>4, <2>5, FlowKeeps DEF PartsInv
<1> QED
  BY <1>6, <1>7 DEF PartsInv

\* The counters are numbers.
LEMMA Numbers ==
  ASSUME PagesTypeOK
  PROVE  removed \in Nat /\ repeats \in Nat /\ inserted \in Nat /\ (leg = 1 \/ leg = 2)
<1>1. removed \in Nat /\ repeats \in Nat /\ inserted \in Nat /\ leg \in 1..2
  BY DEF PagesTypeOK
<1> QED
  BY <1>1

\* The counters are numbers after the step.
LEMMA NumbersAfter ==
  ASSUME PagesTypeOK'
  PROVE  removed' \in Nat /\ repeats' \in Nat /\ inserted' \in Nat
  BY DEF PagesTypeOK

\* The callback of a row that leaves the table alone, or the copy that is scanned.
LEMMA RowParts ==
  ASSUME PagesTypeOK, PagesTypeOK', PlaceInv, PartsInv, at \in {"rows", "unlink"}, RowDone,
         UNCHANGED <<task, leg, stayed, removed, inserted>>, excused => excused',
         RowGiven,
         leg = 2 => other' = other, leg # 2 => table' = table
  PROVE  PartsInv'
<1>1. scan'.start = scan.start /\ scan'.box = scan.box /\ (Scanning' => Scanning)
  BY RowDoneParts
<1>2. Unscanned' = Unscanned
  <2>1. ~Op("locations")
    BY DEF PlaceInv
  <2> QED
    BY <1>1, <2>1, UnscannedSame
<1>3. {} \in SUBSET Keys
  OBVIOUS
<1>4. PICK V \in SUBSET Keys : Flow({}, V, {})
  <2>1. Unscanned' \subseteq Unscanned /\ Unscanned \subseteq Unscanned' \cup {Row} \cup {}
    BY <1>2
  <2> QED
    BY <1>3, <2>1, RowFlow
<1>5. HideSlack + Cardinality({}) <= HideSlack'
  <2>1. removed' = removed + 0 /\ 0 \in Nat
    BY Numbers
  <2>2. HideSlack + 0 <= HideSlack'
    BY <2>1, SlackKept
  <2> QED
    BY <2>2, FS_EmptySet
<1>6. at = "failed" => at' = "failed"
  OBVIOUS
<1> QED
  BY <1>1, <1>3, <1>4, <1>5, <1>6, QuietStep

\* The callback that deletes the row.
LEMMA DeletingParts ==
  ASSUME PagesTypeOK, PagesTypeOK', PlaceInv, PartsInv, at \in {"rows", "unlink"}, RowDone,
         Op("del") \/ Op("archive"),
         UNCHANGED <<task, leg, stayed, inserted>>, excused => excused',
         RowGiven,
         TakeOut(Row)
  PROVE  PartsInv'
<1>0. leg = 1 /\ ~Op("migrate")
  <2>1. ~Op("migrate")
    BY DEF Op
  <2>2. leg # 2
    BY <2>1 DEF PlaceInv
  <2> QED
    BY <2>1, <2>2, Numbers
<1>1. scan'.start = scan.start /\ scan'.box = scan.box /\ (Scanning' => Scanning)
  BY RowDoneParts
<1>2. at = "failed" => at' = "failed"
  OBVIOUS
<1>3. CASE Row \notin table
  <2>1. table' = table /\ removed' = removed
    <3>1. table' = table \ {Row} /\ removed' = removed + 0
      BY <1>3 DEF TakeOut
    <3>2. removed \in Nat
      BY Numbers
    <3> QED
      BY <1>3, <3>1, <3>2
  <2>2. leg # 2
    BY <1>0
  <2> QED
    BY <2>1, <2>2, RowParts
<1>4. CASE Row \in table
  <2>1. table' = table \ {Row} /\ removed' = removed + 1
    BY <1>4 DEF TakeOut
  <2>2. Unscanned' \subseteq Unscanned
    BY <1>0, <1>1, <1>4, <2>1, TableLoses
  <2>3. PICK L \in SUBSET Keys : /\ Unscanned \subseteq Unscanned' \cup {Row} \cup L
                                 /\ Cardinality(L) <= 1 /\ Cardinality(L) \in Nat
                                 /\ ~Sql => Cardinality(L) = 0
    BY <1>0, <1>1, <1>4, <2>1, TableLoses
  <2>4. PICK V \in SUBSET Keys : Flow({}, V, L)
    BY <2>2, <2>3, RowFlow
  <2>5. HideSlack + Cardinality(L) <= HideSlack'
    <3>1. /\ HideSlack + 0 <= HideSlack' /\ (Shifts => HideSlack + 1 <= HideSlack')
      <4>1. 1 \in Nat
        OBVIOUS
      <4> QED
        BY <1>0, <2>1, <4>1, SlackKept
    <3>2. Shifts <=> Sql
      BY <1>0 DEF Shifts
    <3>3. HideSlack \in Nat /\ HideSlack' \in Nat
      BY Numbers, NumbersAfter DEF HideSlack
    <3> QED
      BY <2>3, <3>1, <3>2, <3>3
  <2> QED
    BY <1>1, <1>2, <2>4, <2>5, QuietStep
<1> QED
  BY <1>3, <1>4

\* The row that was put into the archive is not taken any more.
LEMMA ArchiveParts ==
  ASSUME PagesTypeOK, PagesTypeOK', PlaceInv, PartsInv, ArchiveRow
  PROVE  PartsInv'
<1>1. /\ at = "rows" /\ Visit /\ at' = "unlink"
      /\ UNCHANGED <<task, table, leg, scan, stayed, removed, excused, inserted>>
  BY DEF ArchiveRow, clients
<1>2. /\ seen' = seen \cup {Row} /\ repeats' <= repeats + Cardinality({Row} \cap seen)
  BY <1>1, VisitType
<1>3. scan.page # {} /\ scan \in Scans /\ scan.got = {}
  BY <1>1 DEF PlaceInv, PagesTypeOK, Scans
<1>4. Row \in scan.page /\ Row \in Keys
  BY <1>3, RowOfPage
<1>5. Row' = Row
  BY <1>1 DEF Row
<1>6. Taken = scan.page /\ Taken' = scan.page \ {Row}
  BY <1>1, <1>3, <1>5 DEF Taken
<1>7. leg # 2
  BY <1>1 DEF ArchiveRow, PlaceInv, Op
<1>8. Unscanned' = Unscanned
  BY <1>1, <1>7, UnscannedSame
<1>9. Scanning' <=> Scanning
  BY <1>1 DEF Scanning
<1>10. Rest' = Rest
  BY <1>8, <1>9 DEF Rest
<1>11. Flow({}, {Row}, {})
  BY <1>2, <1>4, <1>6, <1>10 DEF Flow
<1>12. HideSlack + Cardinality({}) <= HideSlack'
  <2>1. removed' = removed + 0 /\ 0 \in Nat
    BY <1>1 DEF PagesTypeOK
  <2>2. HideSlack + 0 <= HideSlack'
    BY <1>1, <2>1, SlackKept
  <2> QED
    BY <2>2, FS_EmptySet
<1>13. {Row} \in SUBSET Keys /\ {} \in SUBSET Keys
  BY <1>4
<1>14. excused => excused'
  BY <1>1
<1> QED
  BY <1>1, <1>9, <1>11, <1>12, <1>13, <1>14, QuietStep

\* The operation fails; nothing is taken or ahead any more.
LEMMA FailedParts ==
  ASSUME PagesTypeOK, PagesTypeOK', PlaceInv, PartsInv, at' = "failed",
         UNCHANGED <<task, leg, scan, stayed, removed, inserted>>, excused => excused',
         NEW V \in SUBSET Keys, V \subseteq Taken, seen' = seen \cup V,
         repeats' <= repeats + Cardinality(V \cap seen)
  PROVE  PartsInv'
<1>1. Taken' = {} /\ Rest' = {} /\ ~Complete' /\ ~Scanning'
  BY DEF Taken, Rest, Scanning, Complete
<1>2. Flow({}, V, {})
  BY <1>1 DEF Flow
<1>3. {} \in SUBSET Keys
  OBVIOUS
<1> QED
  BY <1>1, <1>2, <1>3, QuietStep

\* A statement for a row fails.
LEMMA RowFailsParts ==
  ASSUME PagesTypeOK, PagesTypeOK', PlaceInv, PartsInv, RowFails
  PROVE  PartsInv'
<1>1. /\ at \in {"rows", "unlink"}
      /\ IF at = "rows" THEN Visit ELSE UNCHANGED given
      /\ RowDone \/ (at' = "failed" /\ UNCHANGED scan)
      /\ UNCHANGED <<task, table, other, leg, stayed, removed, inserted>>
  BY DEF RowFails, clients
<1>2. excused => excused'
  BY Zenon DEF RowFails
<1>3. CASE RowDone
  <2>1. RowGiven
    BY <1>1 DEF RowGiven
  <2> QED
    BY <1>1, <1>2, <1>3, <2>1, RowParts
<1>4. CASE at' = "failed" /\ UNCHANGED scan
  <2>1. scan.page # {} /\ scan \in Scans
    BY <1>1 DEF PlaceInv, PagesTypeOK, Scans
  <2>2. Row \in scan.page /\ Row \in Keys
    BY <2>1, RowOfPage
  <2>3. CASE at = "rows"
    <3>1. /\ seen' = seen \cup {Row} /\ repeats' <= repeats + Cardinality({Row} \cap seen)
      BY <1>1, <2>3, VisitType
    <3>2. {Row} \in SUBSET Keys /\ {Row} \subseteq Taken
      BY <2>2, <2>3 DEF Taken
    <3> QED
      BY <1>1, <1>2, <1>4, <3>1, <3>2, FailedParts
  <2>4. CASE at # "rows"
    <3>1. /\ seen' = seen \cup {} /\ repeats' <= repeats + Cardinality({} \cap seen)
      <4>1. {} \cap seen = {} /\ Cardinality({}) = 0 /\ repeats \in Nat
        BY FS_EmptySet DEF PagesTypeOK
      <4>2. seen' = seen /\ repeats' = repeats
        BY <1>1, <2>4 DEF given
      <4> QED
        BY <4>1, <4>2
    <3>2. {} \in SUBSET Keys /\ {} \subseteq Taken
      OBVIOUS
    <3> QED
      BY <1>1, <1>2, <1>4, <3>1, <3>2, FailedParts
  <2> QED
    BY <2>3, <2>4
<1> QED
  BY <1>1, <1>3, <1>4

\* A select fails.
LEMMA SelectFailsParts ==
  ASSUME PagesTypeOK, PagesTypeOK', PlaceInv, PartsInv, SelectFails
  PROVE  PartsInv'
<1>1. /\ at = "select"
      /\ UNCHANGED <<task, table, other, leg, given, stayed, removed, inserted>>
  BY DEF SelectFails, clients
<1>2. {} \in SUBSET Keys /\ {} \cap seen = {} /\ Cardinality({}) = 0 /\ repeats \in Nat
      /\ removed \in Nat
  BY FS_EmptySet DEF PagesTypeOK
<1>3. seen' = seen \cup {} /\ repeats' <= repeats + Cardinality({} \cap seen)
  <2>1. seen' = seen /\ repeats' = repeats
    BY <1>1 DEF given
  <2> QED
    BY <1>2, <2>1
<1>4. CASE ~Op("locations")
  <2>1. at' = "failed" /\ UNCHANGED <<scan, excused>>
    BY <1>4 DEF SelectFails
  <2>2. {} \subseteq Taken
    OBVIOUS
  <2> QED
    BY <1>1, <1>2, <1>3, <2>1, <2>2, FailedParts
<1>5. CASE Op("locations")
  <2>0. /\ scan \in Scans /\ scan.page = {} /\ scan.start \in Nat /\ scan.box \in 1..NBoxes
        /\ NBoxes \in Nat
    BY <1>1, ScannedType, BoxAssumption DEF PlaceInv
  <2>1. CallEnd([scan EXCEPT !.got = {}]) /\ excused' = TRUE
    BY <1>5 DEF SelectFails
  <2> DEFINE sc == [scan EXCEPT !.got = {}]
  <2>2. sc \in Scans /\ sc.start = scan.start /\ sc.box = scan.box /\ sc.page = {} /\ sc.got = {}
    BY <2>0 DEF Scans
  <2> HIDE DEF sc
  <2>3. /\ scan'.start = scan.start /\ scan'.page = {} /\ scan'.got = {}
        /\ \/ /\ at' = "call"
              /\ scan'.box = IF scan.start = 0 THEN scan.box + 1 ELSE scan.box
           \/ at' = "done"
    BY <2>1, <2>2, CallEndScan DEF sc
  <2>4. Taken' = {}
    BY <2>3 DEF Taken
  <2>5. Scanning /\ (Scanning' => at' = "call")
    BY <1>1, <2>3 DEF Scanning
  <2>6. Sql' = Sql /\ Op("locations")'
    BY <1>1, <1>5 DEF Sql, Op
  <2>7. ASSUME scan'.box = scan.box PROVE Unscanned' = Unscanned
    BY <1>1, <1>5, <2>3, <2>7, UnscannedSame
  <2>8. ASSUME scan'.box = scan.box + 1, scan.start = 0 PROVE Unscanned' \subseteq Unscanned
    <3>1. Scanned' \subseteq LaterThan(scan.box) /\ LaterThan(scan.box)' \subseteq LaterThan(scan.box)
      <4>1. \A k \in table : BoxOf[k] \in 1..NBoxes
        BY BoxAssumption DEF PagesTypeOK
      <4>2. \A k \in table : (BoxOf[k] = scan.box + 1 => BoxOf[k] > scan.box)
                             /\ (BoxOf[k] > scan.box + 1 => BoxOf[k] > scan.box)
        BY <2>0, <4>1
      <4> QED
        BY <1>1, <1>5, <2>8, <4>2 DEF Scanned, LaterThan, Op
    <3>2. AheadAt(scan.start)' \subseteq Scanned'
      BY DEF AheadAt
    <3> QED
      BY <3>1, <3>2 DEF Unscanned
  <2>9. Rest' \subseteq Rest
    BY <2>3, <2>5, <2>7, <2>8 DEF Rest
  <2>10. ~Complete'
    BY <2>1, <2>6 DEF Complete, Misled
  <2>11. Flow({}, {}, {})
    BY <1>3, <2>4, <2>9, <2>10 DEF Flow
  <2>12. Due' \subseteq Due /\ Shifts' = Shifts
    BY <1>1, <2>6 DEF Due, Shifts, Op
  <2>13. HiddenInv' /\ RepeatInv'
    BY <1>1, <1>2, <2>10, <2>11, <2>12, FlowKeeps DEF PartsInv
  <2>14. BehindInv'
    <3> SUFFICES ASSUME ~Sql', Scanning', NEW k \in seen' \cup Taken'
                 PROVE  Behind(k)'
      BY DEF BehindInv
    <3>1. k \in seen
      BY <1>3, <2>4
    <3>2. Behind(k)
      BY <2>5, <2>6, <3>1 DEF PartsInv, BehindInv
    <3>3. BoxOf[k] \in Nat /\ k \in Nat
      <4>1. k \in Keys
        BY <3>1 DEF PagesTypeOK
      <4>2. BoxOf[k] \in 1..NBoxes
        BY <4>1, BoxAssumption
      <4> QED
        BY <2>0, <4>1, <4>2, KeyAssumption
    <3>4. CASE scan.start = 0
      <4>1. scan'.box = scan.box + 1
        BY <2>3, <2>5, <3>4
      <4>2. BoxOf[k] < scan'.box
        BY <1>5, <2>0, <3>2, <3>3, <4>1 DEF Behind
      <4> QED
        BY <2>6, <4>2 DEF Behind
    <3>5. CASE scan.start # 0
      <4>1. scan'.box = scan.box
        BY <2>3, <2>5, <3>5
      <4> QED
        BY <1>5, <2>3, <2>6, <3>2, <4>1 DEF Behind
    <3> QED
      BY <3>4, <3>5
  <2> QED
    BY <2>13, <2>14 DEF PartsInv
<1> QED
  BY <1>4, <1>5

\* A client inserts a row: it may push one row back into the part that is ahead.
LEMMA InsertParts ==
  ASSUME PagesTypeOK, PagesTypeOK', PlaceInv, PartsInv, NEW k \in Keys, Insert(k)
  PROVE  PartsInv'
<1>1. /\ k \notin table /\ table' = table \cup {k} /\ inserted' = inserted + 1
      /\ UNCHANGED <<task, other, at, leg, scan, removed, excused>>
      /\ stayed' = IF at = "dropTemp" THEN stayed \cup {k} ELSE stayed
      /\ seen' = seen /\ repeats' = repeats
  BY DEF Insert, given
<1>2. Taken' = Taken /\ (Scanning' <=> Scanning)
  BY <1>1 DEF Taken, Row, Scanning, Op
<1>8. Due' \subseteq Due \cup {j \in Rest' : at = "dropTemp"}
  <2>1. CASE at = "dropTemp"
    <3>1. scan.start = 0 /\ Op("migrate") /\ ~Op("locations") /\ leg = 1 /\ Scanning
      BY <2>1 DEF PlaceInv, Op, Scanning
    <3>2. Scanned' = table' /\ table' \in SUBSET Keys
      BY <1>1, <3>1 DEF Scanned, Op, PagesTypeOK
    <3>3. First(table', 0) = {} /\ {j \in table' : j > 0} = table'
      BY <3>2, FirstNone, Positive
    <3>4. AheadAt(scan.start)' = IF Sql' THEN Scanned' \ First(Scanned', 0)
                                 ELSE {j \in Scanned' : j > 0}
      BY <1>1, <3>1 DEF AheadAt, First
    <3>5. AheadAt(scan.start)' = table'
      BY <3>2, <3>3, <3>4
    <3>6. table' \subseteq Rest'
      BY <1>2, <3>1, <3>5 DEF Rest, Unscanned
    <3>7. Due' = stayed' /\ Due = stayed
      BY <1>1, <3>1 DEF Due, Op
    <3> QED
      BY <1>1, <2>1, <3>6, <3>7
  <2>2. CASE at # "dropTemp"
    <3>1. stayed' = stayed
      BY <1>1, <2>2
    <3> QED
      BY <1>1, <3>1 DEF Due, Op
  <2> QED
    BY <2>1, <2>2
<1>3. /\ Taken \in SUBSET Keys /\ Rest \in SUBSET Keys /\ seen \in SUBSET Keys
      /\ Rest' \in SUBSET Keys /\ Hidden \in SUBSET Keys
  BY PartsType DEF PagesTypeOK
<1>4. /\ Rest \subseteq Rest'
      /\ \E y \in Keys : Rest' \subseteq Rest \cup {y}
      /\ ~Shifts => Rest' \cap (seen \cup Taken) \subseteq Rest \cap (seen \cup Taken)
  <2>1. CASE leg = 2
    <3>1. ~Op("locations")
      BY <2>1 DEF PlaceInv, Op
    <3>2. scan'.start = scan.start /\ scan'.box = scan.box /\ task' = task /\ leg' = leg
          /\ other' = other /\ (leg = 2 => other' = other)
          /\ (leg # 2 \/ Op("locations") => table' = table)
      BY <1>1, <2>1, <3>1
    <3>3. Unscanned' = Unscanned
      BY <3>2, UnscannedSame
    <3>4. Rest' = Rest
      BY <1>2, <3>3 DEF Rest
    <3> QED
      BY <3>4
  <2>2. CASE leg = 1
    <3>1. /\ Unscanned \subseteq Unscanned'
          /\ \E y \in Keys : Unscanned' \subseteq Unscanned \cup {y}
          /\ ~Sql => Unscanned' \subseteq Unscanned \cup {j \in {k} : ~Behind(j)}
      BY <1>1, <2>2, TableGains
    <3>2. Rest \subseteq Rest' /\ \E y \in Keys : Rest' \subseteq Rest \cup {y}
      BY <1>2, <3>1 DEF Rest
    <3>3. ASSUME ~Shifts
          PROVE  Rest' \cap (seen \cup Taken) \subseteq Rest \cap (seen \cup Taken)
      <4>1. ~Sql
        BY <2>2, <3>3 DEF Shifts
      <4>2. CASE ~Scanning
        <5>1. Rest' = {}
          BY <1>2, <4>2 DEF Rest
        <5> QED
          BY <5>1
      <4>3. CASE Scanning
        <5>1. \A j \in seen \cup Taken : Behind(j)
          BY <4>1, <4>3 DEF PartsInv, BehindInv
        <5>2. Rest' \subseteq Rest \cup {j \in {k} : ~Behind(j)}
          BY <1>2, <3>1, <4>1, <4>3 DEF Rest
        <5> QED
          BY <5>1, <5>2
      <4> QED
        BY <4>2, <4>3
    <3> QED
      BY <3>2, <3>3
  <2> QED
    BY <2>1, <2>2, Numbers
<1>5. HiddenInv'
  <2>1. Hidden' \subseteq Hidden
    BY <1>1, <1>2, <1>4, <1>8 DEF Hidden
  <2>2. Cardinality(Hidden') <= Cardinality(Hidden)
    BY <1>3, <2>1, KeySets
  <2>3. Hidden' \in SUBSET Keys
    BY <1>3, <2>1
  <2>4. Cardinality(Hidden) \in Nat /\ Cardinality(Hidden') \in Nat
    BY <1>3, <2>3, KeySets
  <2>5. HideSlack' = HideSlack /\ Complete' = Complete
    BY <1>1 DEF HideSlack, Shifts, Complete, Misled, Op, Sql
  <2>6. HideSlack \in Nat
    BY Numbers DEF HideSlack
  <2> QED
    BY <2>2, <2>4, <2>5, <2>6 DEF PartsInv, HiddenInv
<1>6. RepeatInv'
  <2> DEFINE A == Rest \cap (seen \cup Taken)
             B == Rest' \cap (seen \cup Taken)
             p == Cardinality(Taken \cap seen)
  <2>1. A \in SUBSET Keys /\ B \in SUBSET Keys /\ Taken \cap seen \in SUBSET Keys
    BY <1>3
  <2>2. Cardinality(A) \in Nat /\ Cardinality(B) \in Nat /\ p \in Nat
    BY <2>1, KeySets
  <2>3. repeats + p + Cardinality(A) <= IF Shifts THEN inserted ELSE 0
    BY DEF PartsInv, RepeatInv
  <2>4. RepeatInv' <=> repeats + p + Cardinality(B) <= IF Shifts THEN inserted + 1 ELSE 0
    <3>1. Shifts' = Shifts
      BY <1>1 DEF Shifts, Sql
    <3> QED
      BY <1>1, <1>2, <3>1 DEF RepeatInv
  <2>5. PICK y \in Keys : Rest' \subseteq Rest \cup {y}
    BY <1>4
  <2>6. B \subseteq A \cup {y} /\ (~Shifts => B \subseteq A)
    BY <1>4, <2>5
  <2> HIDE DEF A, B, p
  <2>7. Cardinality(B) <= Cardinality(A) + 1
    BY <2>1, <2>6, OneRow
  <2>8. ~Shifts => Cardinality(B) <= Cardinality(A)
    BY <2>1, <2>6, KeySets
  <2>9. CASE Shifts
    <3>1. repeats + p + Cardinality(A) <= inserted
      BY <2>3, <2>9
    <3>2. repeats + p + Cardinality(B) <= inserted + 1
      BY <2>2, <2>7, <3>1, Numbers
    <3> QED
      BY <2>4, <2>9, <3>2
  <2>10. CASE ~Shifts
    <3>1. repeats + p + Cardinality(A) <= 0
      BY <2>3, <2>10
    <3>2. repeats + p + Cardinality(B) <= 0
      BY <2>2, <2>8, <2>10, <3>1, Numbers
    <3> QED
      BY <2>4, <2>10, <3>2
  <2> QED
    BY <2>9, <2>10
<1>7. BehindInv'
  <2>1. \A j : Behind(j)' = Behind(j)
    BY <1>1 DEF Behind, Op
  <2>2. Sql' = Sql
    BY <1>1 DEF Sql
  <2> QED
    BY <1>1, <1>2, <2>1, <2>2 DEF PartsInv, BehindInv
<1> QED
  BY <1>5, <1>6, <1>7 DEF PartsInv

\* A client deletes a row: it may pull one row out of the part that is ahead.
LEMMA DeleteParts ==
  ASSUME PagesTypeOK, PagesTypeOK', PlaceInv, PartsInv, NEW k \in Keys, Delete(k)
  PROVE  PartsInv'
<1>1. /\ k \in table /\ exists /\ table' = table \ {k} /\ removed' = removed + 1
      /\ UNCHANGED <<task, other, at, leg, scan, inserted>>
      /\ seen' = seen /\ repeats' = repeats
      /\ stayed' = IF leg = 2 THEN stayed ELSE stayed \ {k}
  BY DEF Delete, given, TakeOut
<1>2. /\ excused => excused'
      /\ Op("migrate") /\ Sql /\ leg = 1 /\ at \in {"select", "rows"} => excused'
  BY Zenon DEF Delete
<1>3. Taken' = Taken /\ (Scanning' <=> Scanning)
  BY <1>1 DEF Taken, Row, Scanning
<1>4. stayed' \subseteq stayed
  BY <1>1
<1>5. /\ {} \cap seen = {} /\ Cardinality({}) = 0 /\ {} \in SUBSET Keys
      /\ repeats' <= repeats + Cardinality({} \cap seen)
  <2>1. {} \cap seen = {} /\ Cardinality({}) = 0
    BY FS_EmptySet
  <2> QED
    BY <1>1, <2>1, Numbers
<1>6. HideSlack + 0 <= HideSlack'
      /\ (Shifts /\ (Op("migrate") => excused') => HideSlack + 1 <= HideSlack')
  <2>1. 1 \in Nat
    OBVIOUS
  <2> QED
    BY <1>1, <1>2, <2>1, SlackKept
<1>7. \E L \in SUBSET Keys :
        /\ Rest' \subseteq Rest
        /\ Complete' => Due' \cap Rest \subseteq Rest' \cup L
        /\ Complete' => HideSlack + Cardinality(L) <= HideSlack'
  <2>1. CASE leg = 2 \/ ~Scanning
    <3>1. Rest' = Rest
      <4>1. CASE leg = 2
        <5>1. ~Op("locations")
          BY <4>1 DEF PlaceInv, Op
        <5>2. scan'.start = scan.start /\ scan'.box = scan.box /\ task' = task /\ leg' = leg
              /\ (leg = 2 => other' = other) /\ (leg # 2 \/ Op("locations") => table' = table)
          BY <1>1, <4>1, <5>1
        <5>3. Unscanned' = Unscanned
          BY <5>2, UnscannedSame
        <5> QED
          BY <1>3, <5>3 DEF Rest
      <4>2. CASE ~Scanning
        BY <1>3, <4>2 DEF Rest
      <4> QED
        BY <2>1, <4>1, <4>2
    <3> QED
      BY <1>5, <1>6, <3>1
  <2>2. CASE leg = 1 /\ Scanning
    <3>0. scan'.start = scan.start /\ scan'.box = scan.box
      BY <1>1
    <3>1. Unscanned' \subseteq Unscanned
      BY <1>1, <2>2, <3>0, TableLoses
    <3>2. PICK L \in SUBSET Keys : /\ Unscanned \subseteq Unscanned' \cup {k} \cup L
                                   /\ Cardinality(L) <= 1 /\ Cardinality(L) \in Nat
                                   /\ ~Sql \/ scan.start = 0 => Cardinality(L) = 0
      BY <1>1, <2>2, <3>0, TableLoses
    <3>3. Rest = Unscanned /\ Rest' = Unscanned'
      BY <1>3, <2>2 DEF Rest
    <3>4. k \notin Due'
      <4>1. stayed' = stayed \ {k}
        <5>1. leg # 2
          BY <2>2
        <5> QED
          BY <1>1, <5>1
      <4> QED
        BY <4>1 DEF Due
    <3>5. HideSlack + Cardinality(L) <= HideSlack'
      <4>1. HideSlack \in Nat /\ HideSlack' \in Nat
        BY Numbers, NumbersAfter DEF HideSlack
      <4>2. CASE Shifts /\ (Op("migrate") => excused')
        BY <1>6, <3>2, <4>1, <4>2
      <4>3. CASE ~Shifts
        <5>1. Cardinality(L) = 0
          BY <2>2, <3>2, <4>3 DEF Shifts
        <5> QED
          BY <1>6, <4>1, <5>1
      <4>4. CASE Shifts /\ Op("migrate") /\ ~excused'
        <5>1. at \notin {"select", "rows"}
          BY <1>2, <4>4 DEF Shifts
        <5>2. at = "dropTemp"
          BY <2>2, <4>4, <5>1 DEF Scanning, PlaceInv, Op
        <5>3. scan.start = 0
          BY <5>2 DEF PlaceInv
        <5>4. Cardinality(L) = 0
          BY <3>2, <5>3
        <5> QED
          BY <1>6, <4>1, <5>4
      <4> QED
        BY <4>2, <4>3, <4>4
    <3>6. Due' \cap Rest \subseteq Rest' \cup L
      BY <3>2, <3>3, <3>4
    <3> QED
      BY <3>1, <3>3, <3>5, <3>6
  <2> QED
    BY <2>1, <2>2, Numbers
<1>8. PICK L \in SUBSET Keys :
        /\ Rest' \subseteq Rest
        /\ Complete' => Due' \cap Rest \subseteq Rest' \cup L
        /\ Complete' => HideSlack + Cardinality(L) <= HideSlack'
  BY <1>7
<1>9. Flow({}, {}, L)
  BY <1>1, <1>3, <1>5, <1>8 DEF Flow
<1>10. at = "failed" => at' = "failed"
  BY <1>1
<1>11. scan'.start = scan.start /\ scan'.box = scan.box /\ (Scanning' => Scanning)
  BY <1>1, <1>3
<1> QED
  BY <1>1, <1>2, <1>4, <1>5, <1>8, <1>9, <1>10, <1>11, QuietStep

\* The steps that touch neither the rows taken nor those ahead.
LEMMA StillParts ==
  ASSUME PagesTypeOK, PagesTypeOK', PlaceInv, PartsInv,
         NextCall \/ DropTemp \/ Drop \/ Cleanup \/ StepFails \/ Crash \/ UNCHANGED pagesVars
  PROVE  PartsInv'
<1>1. UNCHANGED <<task, leg, given, stayed, removed, inserted, excused>>
  BY Zenon DEF NextCall, DropTemp, Drop, Cleanup, StepFails, Crash, pagesVars, clients, given
<1>2. scan'.start = scan.start /\ scan'.box = scan.box /\ scan'.got = scan.got
      /\ scan'.page = scan.page
  <2>1. scan \in Scans
    BY ScannedType
  <2>2. UNCHANGED scan \/ scan' = [scan EXCEPT !.returned = 0]
    BY DEF NextCall, DropTemp, Drop, Cleanup, StepFails, Crash, pagesVars
  <2> QED
    BY <2>1, <2>2 DEF Scans
<1>3. CASE StepFails \/ Crash
  <2>1. at' = "failed" /\ UNCHANGED scan
    BY <1>3 DEF StepFails, Crash
  <2>2. /\ {} \in SUBSET Keys /\ {} \subseteq Taken /\ seen' = seen \cup {}
        /\ repeats' <= repeats + Cardinality({} \cap seen)
    <3>1. {} \cap seen = {} /\ Cardinality({}) = 0
      BY FS_EmptySet
    <3>2. seen' = seen /\ repeats' = repeats
      BY <1>1 DEF given
    <3> QED
      BY <3>1, <3>2, Numbers
  <2> QED
    BY <1>1, <2>1, <2>2, FailedParts
<1>4. CASE Drop \/ Cleanup
  <2>1. at \in {"drop", "cleanup"} /\ at' \in {"create", "done"}
    BY <1>4 DEF Drop, Cleanup
  <2>2. ~Scanning /\ ~Scanning' /\ Rest = {} /\ Rest' = {}
    BY <2>1 DEF Scanning, Rest
  <2>3. Taken' = Taken
    BY <1>2, <2>1 DEF Taken
  <2>4. at # "failed"
    BY <2>1
  <2> QED
    BY <1>1, <1>2, <2>2, <2>3, <2>4, StillStep
<1>5. CASE NextCall \/ DropTemp
  <2>1. at \in {"call", "dropTemp"} /\ at' = "select" /\ table' = table
    BY <1>5 DEF NextCall, DropTemp
  <2>2. Scanning /\ Scanning'
    BY <2>1 DEF Scanning
  <2>3. leg # 2
    <3>1. CASE NextCall
      BY <3>1 DEF NextCall, PlaceInv, Op
    <3>2. CASE DropTemp
      <4>1. leg = 1
        BY <3>2 DEF DropTemp, PlaceInv
      <4> QED
        BY <4>1
    <3> QED
      BY <1>5, <3>1, <3>2
  <2>4. Unscanned' = Unscanned
    BY <1>1, <1>2, <2>1, <2>3, UnscannedSame
  <2>5. Rest' = Rest
    BY <2>2, <2>4 DEF Rest
  <2>6. Taken' = Taken
    BY <1>2, <2>1 DEF Taken
  <2>7. at # "failed"
    BY <2>1
  <2> QED
    BY <1>1, <1>2, <2>2, <2>5, <2>6, <2>7, StillStep
<1>6. CASE UNCHANGED pagesVars
  <2>1. UNCHANGED <<task, table, other, at, leg, scan>>
    BY <1>6 DEF pagesVars
  <2>2. (Scanning' <=> Scanning) /\ Taken' = Taken
    BY <2>1 DEF Scanning, Taken, Row
  <2>3. Unscanned' = Unscanned
    BY <1>1, <1>2, <2>1, UnscannedSame
  <2>4. Rest' = Rest
    BY <2>2, <2>3 DEF Rest
  <2>5. at = "failed" => at' = "failed"
    BY <2>1
  <2> QED
    BY <1>1, <1>2, <2>2, <2>4, <2>5, StillStep
<1> QED
  BY <1>3, <1>4, <1>5, <1>6

\* A copy back begins, or the operation is run again.
LEMMA FreshParts ==
  ASSUME PagesTypeOK, PagesTypeOK', PlaceInv, Create \/ Again
  PROVE  PartsInv'
<1>1. /\ scan' = Started /\ seen' = {} /\ repeats' = 0 /\ inserted' = 0 /\ removed' = 0
      /\ task' = task
  BY DEF Create, Again
<1>2. task \in Tasks
  BY DEF PagesTypeOK
<1>3. at' \in {"select", "dropTemp"}
  BY Zenon DEF Create, Again
<1>4. ~Op("locations")
  BY DEF Create, Again, PlaceInv, Op
<1>5. stayed' = Scanned'
  <2>1. CASE Create
    <3>1. leg' = 2 /\ stayed' = other /\ other' = other
      BY <2>1 DEF Create
    <3> QED
      BY <1>1, <1>4, <3>1 DEF Scanned, Op
  <2>2. CASE Again
    <3>1. leg' = 1 /\ stayed' = table /\ table' = table
      BY <2>2 DEF Again
    <3>2. leg' # 2
      BY <3>1
    <3> QED
      BY <1>1, <1>4, <3>1, <3>2 DEF Scanned, Op
  <2> QED
    BY <2>1, <2>2
<1> QED
  BY <1>1, <1>2, <1>3, <1>4, <1>5, FreshStep

\* Every step keeps the bounds of hidden and repeated rows.
LEMMA PartsStep ==
  ASSUME PagesTypeOK, PagesTypeOK', PlaceInv, PartsInv, [PagesNext]_pagesVars
  PROVE  PartsInv'
<1>1. CASE UpdateRow
  <2>1. /\ at \in {"rows", "unlink"} /\ RowDone
        /\ UNCHANGED <<task, table, other, leg, stayed, removed, inserted, excused>> /\ RowGiven
    BY <1>1 DEF UpdateRow, clients, RowGiven
  <2> QED
    BY <2>1, RowParts
<1>2. CASE CopyRow
  <2>1. /\ at \in {"rows", "unlink"} /\ RowDone
        /\ UNCHANGED <<task, leg, stayed, removed, inserted, excused>> /\ RowGiven
    BY <1>2 DEF CopyRow, clients, RowGiven
  <2>2. (leg = 1 => table' = table) /\ (leg # 1 => other' = other)
    BY <1>2 DEF CopyRow
  <2>3. (leg = 2 => other' = other) /\ (leg # 2 => table' = table)
    BY <2>2, Numbers
  <2> QED
    BY <2>1, <2>3, RowParts
<1>3. CASE DelRow \/ UnlinkRow
  <2>1. /\ at \in {"rows", "unlink"} /\ RowDone /\ TakeOut(Row)
        /\ UNCHANGED <<task, leg, stayed, inserted, excused>> /\ RowGiven
    BY <1>3 DEF DelRow, UnlinkRow, clients, RowGiven
  <2>2. Op("del") \/ Op("archive")
    BY <1>3 DEF DelRow, UnlinkRow, PlaceInv
  <2> QED
    BY <2>1, <2>2, DeletingParts
<1> QED
  BY <1>1, <1>2, <1>3, SelectParts, ArchiveParts, RowFailsParts, SelectFailsParts, InsertParts,
     DeleteParts, StillParts, FreshParts DEF PagesNext, PagesStep, Fault

-----------------------------------------------------------------------------
(* The counts of pages. *)

HoldInv ==
  Sql => /\ task.limit > 0 => scan.nrows <= task.limit
         /\ at \in {"select", "dropTemp"} =>
              /\ scan.count > 0
              /\ task.limit > 0 => scan.nrows + scan.count <= task.limit
              /\ Op("locations") => scan.count = Count - scan.returned
         /\ at \in {"rows", "unlink"} => scan.count > 0
         /\ at = "call" => scan.count = Count
         /\ scan.returned <= Count
         /\ at = "call" /\ ~excused => scan.returned = Count

\* The count of the first page.
LEMMA FirstCount ==
  ASSUME NEW l \in Nat, NEW x, x = IF l > 0 /\ l < Count THEN l ELSE Count
  PROVE  /\ x > 0 /\ (l > 0 => 0 <= l /\ 0 + x <= l) /\ (~(l > 0) => x = Count - 0) /\ 0 <= Count
<1>1. Count \in Nat /\ Count > 0
  BY CountAssumption
<1> QED
  BY <1>1

\* The count of a scan that begins.
LEMMA FreshHold ==
  ASSUME task \in Tasks, task' = task, scan' = Started, at' \in {"select", "dropTemp"}
  PROVE  HoldInv'
<1>1. /\ scan'.nrows = 0 /\ scan'.returned = 0
      /\ scan'.count = IF task.limit > 0 /\ task.limit < Count THEN task.limit ELSE Count
  BY StartedType
<1>2. task.limit \in Nat
  BY LimitType
<1>3. Op("locations") => ~(task.limit > 0)
  BY TaskKinds DEF Op
<1>4. /\ scan'.count > 0 /\ (task.limit > 0 => scan'.nrows + scan'.count <= task.limit)
      /\ (task.limit > 0 => scan'.nrows <= task.limit)
      /\ (Op("locations") => scan'.count = Count - scan'.returned)
      /\ scan'.returned <= Count
  BY <1>1, <1>2, <1>3, FirstCount, Zenon
<1> QED
  BY <1>4 DEF HoldInv, Sql, Op

\* The counts hold initially.
LEMMA HoldInit == PagesInit => HoldInv
<1> SUFFICES ASSUME PagesInit PROVE HoldInv
  OBVIOUS
<1>0. task \in Tasks /\ scan = Started /\ at \in {"select", "dropTemp"}
  BY DEF PagesInit
<1>1. /\ scan.nrows = 0 /\ scan.returned = 0
      /\ scan.count = IF task.limit > 0 /\ task.limit < Count THEN task.limit ELSE Count
  BY <1>0, StartedType
<1>2. task.limit \in Nat /\ Count \in Nat /\ Count > 0
  <2>1. Count \in Nat /\ Count > 0
    BY CountAssumption
  <2> QED
    BY <1>0, <2>1, LimitType
<1>3. Op("locations") => ~(task.limit > 0)
  BY <1>0, TaskKinds DEF Op
<1>4. /\ scan.count > 0 /\ (task.limit > 0 => scan.nrows + scan.count <= task.limit)
      /\ (task.limit > 0 => scan.nrows <= task.limit)
      /\ (Op("locations") => scan.count = Count - scan.returned)
      /\ scan.returned <= Count
  BY <1>1, <1>2, <1>3
<1> QED
  BY <1>0, <1>4 DEF HoldInv

\* A select returns no more rows than are left of the limit, and of the count.
LEMMA SelectHold ==
  ASSUME PagesTypeOK, PlaceInv, HoldInv, SelectSql
  PROVE  HoldInv'
<1>1. at = "select" /\ Sql /\ UNCHANGED <<task, leg>> /\ scan.got = {}
  BY DEF SelectSql, PlaceInv
<1>2. /\ scan \in Scans /\ task \in Tasks /\ leg \in 1..2 /\ task.limit \in Nat
      /\ scan.count \in Int /\ scan.nrows \in Nat /\ scan.returned \in Nat /\ Count \in Nat
  BY ScannedType, LimitType, CountAssumption DEF PagesTypeOK
<1>3. /\ scan.count > 0
      /\ task.limit > 0 => scan.nrows + scan.count <= task.limit
      /\ Op("locations") => scan.count = Count - scan.returned
      /\ scan.returned <= Count
      /\ task.limit > 0 => ~Op("locations")
  <2>1. task.limit > 0 => ~Op("locations")
    BY DEF PlaceInv, Op
  <2> QED
    BY <1>1, <2>1 DEF HoldInv
<1>4. PICK N \in SUBSET Keys, token \in Nat :
        /\ Cardinality(N) <= scan.count
        /\ token # 0 => Cardinality(N) = scan.count
        /\ Selected(N, token, scan.count)
  <2>1. PICK N \in SUBSET Keys, token \in Nat, count \in Int :
          /\ Sql => /\ count = scan.count
                    /\ count > 0 => /\ Cardinality(N) <= count
                                    /\ token # 0 => Cardinality(N) = count
          /\ \/ Selected(scan.got \cup N, token, count)
             \/ ~Sql
    BY <1>1, SelectReads
  <2>2. scan.got \cup N = N
    BY <1>1
  <2>3. Selected(N, token, scan.count)
    BY <1>1, <2>1, <2>2
  <2> QED
    BY <1>1, <1>3, <2>1, <2>3
<1>5. Cardinality(N) \in Nat /\ IsFiniteSet(N)
  BY KeySets
<1>6. CASE ~Op("locations")
  <2>1. ScanPage(N, token, scan.count)
    BY <1>4, <1>6 DEF Selected
  <2>2. /\ scan'.returned = scan.returned /\ scan'.nrows = scan.nrows + Cardinality(N)
        /\ \/ at' = "rows" /\ scan'.count = scan.count
           \/ at' = "select" /\ N = {} /\ token # 0
           \/ at' = ScanEnd
    BY <1>2, <2>1, PageScan
  <2>3. at' # "select"
    <3>1. N = {} => Cardinality(N) = 0
      BY FS_EmptySet
    <3>2. ScanEnd # "select"
      BY DEF ScanEnd
    <3> QED
      BY <1>3, <1>4, <2>2, <3>1, <3>2
  <2>4. ScanEnd \in {"drop", "cleanup", "done"}
    BY DEF ScanEnd
  <2>5. task.limit > 0 => scan'.nrows <= task.limit
    BY <1>2, <1>3, <1>4, <1>5, <2>2
  <2>6. at' = "rows" => scan'.count > 0
    BY <1>3, <2>2, <2>4
  <2>7. at' \in {"rows", "drop", "cleanup", "done"} /\ scan'.returned <= Count
    BY <1>3, <2>2, <2>3, <2>4
  <2> QED
    BY <1>1, <2>5, <2>6, <2>7 DEF HoldInv, Sql, Op
<1>7. CASE Op("locations")
  <2> DEFINE n == Cardinality(N \cap Within)
  <2>1. LocationsPage(N, token, scan.count)
    BY <1>4, <1>7 DEF Selected
  <2>2. n \in Nat /\ n <= Cardinality(N)
    <3>1. N \cap Within \in SUBSET Keys
      OBVIOUS
    <3>2. N \cap Within \in SUBSET N
      OBVIOUS
    <3> QED
      BY <3>1, <3>2, KeySets
  <2>3. /\ scan'.returned = scan.returned + n /\ scan'.nrows = scan.nrows
        /\ \/ at' = "done"
           \/ /\ at' = "call" /\ (token # 0 \/ scan.box < NBoxes) /\ scan'.count = Count
              /\ scan'.returned >= Count \/ (token = 0 /\ scan.box = NBoxes)
           \/ /\ at' = "select" /\ scan'.returned < Count
              /\ scan'.count = IF scan.count > n THEN scan.count - n
                               ELSE IF scan.count > 0 THEN 0 ELSE scan.count
    BY <1>2, <2>1, PageSearch
  <2> HIDE DEF n
  <2>4. scan'.returned <= Count
    BY <1>2, <1>3, <1>4, <1>5, <1>7, <2>2, <2>3
  <2>5. at' = "call" => scan'.returned = Count /\ scan'.count = Count
    <3> SUFFICES ASSUME at' = "call" PROVE scan'.returned = Count /\ scan'.count = Count
      OBVIOUS
    <3>1. scan.box \in 1..NBoxes /\ NBoxes \in Nat
      BY ScannedType, BoxAssumption
    <3>2. scan'.returned >= Count /\ scan'.count = Count
      BY <2>3, <3>1
    <3>3. scan'.returned \in Nat
      BY <1>2, <2>2, <2>3
    <3> QED
      BY <1>2, <2>4, <3>2, <3>3
  <2>6. at' = "select" => scan'.count > 0 /\ scan'.count = Count - scan'.returned
    <3> SUFFICES ASSUME at' = "select"
                 PROVE  scan'.count > 0 /\ scan'.count = Count - scan'.returned
      OBVIOUS
    <3>1. /\ scan'.returned < Count
          /\ scan'.count = IF scan.count > n THEN scan.count - n
                           ELSE IF scan.count > 0 THEN 0 ELSE scan.count
          /\ scan'.returned = scan.returned + n
      BY <2>3
    <3>2. scan.count = Count - scan.returned
      BY <1>3, <1>7
    <3>3. scan.count > n
      BY <1>2, <2>2, <3>1, <3>2
    <3> QED
      BY <1>2, <2>2, <3>1, <3>2, <3>3
  <2>7. at' \in {"done", "call", "select"}
    BY <2>3
  <2>8. ~(task.limit > 0)
    BY <1>3, <1>7
  <2> QED
    BY <1>1, <2>4, <2>5, <2>6, <2>7, <2>8 DEF HoldInv, Sql, Op
<1> QED
  BY <1>6, <1>7

\* The count of the next page.
LEMMA RowDoneHold ==
  ASSUME PagesTypeOK, PlaceInv, HoldInv, at \in {"rows", "unlink"}, RowDone, UNCHANGED <<task, leg>>
  PROVE  HoldInv'
<1>1. /\ scan \in Scans /\ task \in Tasks /\ leg \in 1..2 /\ task.limit \in Nat
      /\ scan.count \in Int /\ scan.nrows \in Nat /\ scan.returned \in Nat /\ Count \in Nat
      /\ scan.page # {} /\ ~Op("locations")
  BY ScannedType, LimitType, CountAssumption DEF PagesTypeOK, PlaceInv
<1>2. /\ scan'.nrows = scan.nrows /\ scan'.returned = scan.returned
      /\ \/ at' = "rows" /\ scan'.count = scan.count
         \/ at' = "select" /\ More(scan) /\ scan'.count = PageCount(scan)
         \/ at' = ScanEnd
  BY <1>1, RowDoneScan
<1>3. ScanEnd \in {"drop", "cleanup", "done"}
  BY DEF ScanEnd
<1> SUFFICES ASSUME Sql PROVE HoldInv'
  BY DEF HoldInv, Sql
<1>4. /\ scan.count > 0 /\ scan.returned <= Count
      /\ task.limit > 0 => scan.nrows <= task.limit
  BY DEF HoldInv
<1>5. CASE at' = "select"
  <2>1. More(scan) /\ scan'.count = PageCount(scan)
    BY <1>2, <1>3, <1>5
  <2>2. task.limit > 0 => scan.nrows < task.limit
    BY <1>1, <2>1 DEF More
  <2>3. scan'.count > 0 /\ (task.limit > 0 => scan'.nrows + scan'.count <= task.limit)
    BY <1>1, <1>2, <1>4, <2>1, <2>2 DEF PageCount
  <2> QED
    BY <1>1, <1>2, <1>4, <1>5, <2>3 DEF HoldInv, Op, Sql
<1>6. CASE at' # "select"
  <2>1. at' \in {"rows", "drop", "cleanup", "done"} /\ (at' = "rows" => scan'.count = scan.count)
    BY <1>2, <1>3, <1>6
  <2> QED
    BY <1>1, <1>2, <1>4, <2>1 DEF HoldInv, Op, Sql
<1> QED
  BY <1>5, <1>6

\* The steps that leave the scan alone and do not lead to a select or a call.
LEMMA SameHold ==
  ASSUME HoldInv, UNCHANGED <<task, scan>>, excused => excused',
         \/ at' = at
         \/ at' \in {"failed", "create", "done"}
         \/ at' = "unlink" /\ at = "rows"
         \/ at' = "select" /\ at = "dropTemp"
  PROVE  HoldInv'
  BY DEF HoldInv, Sql, Op

\* Every step keeps the counts.
LEMMA HoldStep ==
  ASSUME PagesTypeOK, PlaceInv, HoldInv, [PagesNext]_pagesVars
  PROVE  HoldInv'
<1>1. CASE SelectDynamo
  BY <1>1 DEF SelectDynamo, HoldInv, Sql
<1>2. CASE NextCall
  <2>1. at = "call" /\ at' = "select" /\ UNCHANGED task /\ scan' = [scan EXCEPT !.returned = 0]
    BY <1>2 DEF NextCall
  <2>2. scan \in Scans /\ scan.count \in Int /\ Count \in Nat /\ Count > 0
    BY ScannedType, CountAssumption
  <2>3. /\ scan'.returned = 0 /\ scan'.count = scan.count /\ scan'.nrows = scan.nrows
    BY <2>1, <2>2 DEF Scans
  <2>4. ~(task.limit > 0)
    BY <2>1 DEF PlaceInv, Op
  <2>5. Sql => scan.count = Count
    BY <2>1 DEF HoldInv
  <2>6. Sql => scan'.count > 0 /\ scan'.count = Count - scan'.returned /\ scan'.returned <= Count
    BY <2>2, <2>3, <2>5
  <2> QED
    BY <2>1, <2>4, <2>6 DEF HoldInv, Sql, Op
<1>3. CASE UpdateRow \/ DelRow \/ UnlinkRow \/ CopyRow
  <2>1. at \in {"rows", "unlink"} /\ RowDone /\ UNCHANGED <<task, leg>>
    BY <1>3 DEF UpdateRow, DelRow, UnlinkRow, CopyRow
  <2> QED
    BY <2>1, RowDoneHold
<1>4. CASE RowFails
  <2>1. /\ at \in {"rows", "unlink"}
        /\ RowDone \/ (at' = "failed" /\ UNCHANGED scan)
        /\ UNCHANGED <<task, leg>>
    BY <1>4 DEF RowFails
  <2>2. excused => excused'
    BY <1>4, Zenon DEF RowFails
  <2> QED
    BY <2>1, <2>2, RowDoneHold, SameHold
<1>5. CASE Create \/ Again
  <2>1. task \in Tasks
    BY DEF PagesTypeOK
  <2>2. task' = task /\ scan' = Started
    BY <1>5 DEF Create, Again
  <2>3. at' \in {"select", "dropTemp"}
    BY <1>5, Zenon DEF Create, Again
  <2> QED
    BY <2>1, <2>2, <2>3, FreshHold
<1>6. CASE SelectFails
  <2>1. CASE ~Op("locations")
    <3>1. at' = "failed" /\ UNCHANGED <<task, scan, excused>>
      BY <1>6, <2>1 DEF SelectFails
    <3> QED
      BY <3>1, SameHold
  <2>2. CASE Op("locations")
    <3>1. CallEnd([scan EXCEPT !.got = {}]) /\ excused' = TRUE /\ task' = task
      BY <1>6, <2>2 DEF SelectFails
    <3> DEFINE sc == [scan EXCEPT !.got = {}]
    <3>2. sc \in Scans /\ sc.nrows = scan.nrows /\ sc.returned = scan.returned
      BY ScannedType DEF Scans
    <3> HIDE DEF sc
    <3>3. /\ scan'.nrows = scan.nrows /\ scan'.returned = scan.returned
          /\ \/ at' = "call" /\ scan'.count = Count
             \/ at' = "done"
      BY <3>1, <3>2, CallEndScan DEF sc
    <3>4. excused'
      BY <3>1
    <3> QED
      BY <2>2, <3>1, <3>3, <3>4 DEF HoldInv, Sql, Op
  <2> QED
    BY <2>1, <2>2
<1>7. CASE \/ DropTemp \/ Drop \/ Cleanup \/ StepFails \/ Crash \/ ArchiveRow
           \/ UNCHANGED pagesVars \/ \E k \in Keys : Insert(k) \/ Delete(k)
  <2>1. UNCHANGED <<task, scan>>
    BY <1>7 DEF DropTemp, Drop, Cleanup, StepFails, Crash, ArchiveRow, pagesVars, Insert, Delete
  <2>2. excused => excused'
    BY <1>7, Zenon
    DEF DropTemp, Drop, Cleanup, StepFails, Crash, ArchiveRow, pagesVars, Insert, Delete
  <2>3. \/ at' = at
        \/ at' \in {"failed", "create", "done"}
        \/ at' = "unlink" /\ at = "rows"
        \/ at' = "select" /\ at = "dropTemp"
    BY <1>7 DEF DropTemp, Drop, Cleanup, StepFails, Crash, ArchiveRow, pagesVars, Insert, Delete
  <2> QED
    BY <2>1, <2>2, <2>3, SameHold
<1> QED
  BY <1>1, <1>2, <1>3, <1>4, <1>5, <1>6, <1>7, SelectHold DEF PagesNext, PagesStep, Fault

-----------------------------------------------------------------------------
(* Where the rows of an archive and of a migration are. *)

\* The row of archiveMessage that is not unlinked yet is archived.
ArchiveInv ==
  Op("archive") => /\ at = "unlink" => Row \in other
                   /\ owed \subseteq table \cup other

\* Where the rows of a migration are.
MoveInv ==
  Op("migrate") /\ ~excused =>
    /\ ~exists => leg = 1 /\ at \in {"create", "failed"} /\ owed \subseteq other
    /\ at = "create" => ~exists
    /\ leg = 2 /\ at # "done" => stayed = other /\ owed \subseteq table \cup other
    /\ leg = 1 /\ exists => owed \subseteq table
    /\ leg = 1 /\ at # "failed" => seen \subseteq other /\ owed \subseteq stayed
    /\ leg = 2 => owed \cap seen \subseteq table
    /\ at = "done" => owed \subseteq table

\* At the end of a scan without a limit the rows that are due were given to the callback,
\* but those that were hidden.
LEMMA AtTheEnd ==
  ASSUME PagesTypeOK, PlaceInv, PartsInv, at \in {"drop", "cleanup", "done"}, task.limit = 0,
         ~Misled
  PROVE  Due \ seen \in SUBSET Keys /\ Cardinality(Due \ seen) <= HideSlack
<1>1. Rest = {} /\ Taken = {}
  BY DEF Rest, Scanning, Taken, PlaceInv
<1>2. Hidden = Due \ seen
  BY <1>1 DEF Hidden
<1>3. Complete
  BY DEF Complete
<1> QED
  BY <1>2, <1>3, PartsType DEF PartsInv, HiddenInv

\* A copy of a migration that has not been exposed has given every row.
LEMMA CopyIsWhole ==
  ASSUME PagesTypeOK, PlaceInv, PartsInv, at \in {"drop", "cleanup"}, ~excused
  PROVE  stayed \subseteq seen
<1>1. Op("migrate") /\ task \in Tasks
  BY DEF PlaceInv, PagesTypeOK
<1>2. task.limit = 0 /\ ~Op("locations")
  <2>1. ~(task.limit > 0) /\ task.limit \in Nat
    BY <1>1, LimitType, TaskKinds DEF Op
  <2>2. ~Op("locations")
    BY <1>1 DEF Op
  <2> QED
    BY <2>1, <2>2
<1>3. HideSlack = 0 /\ Due = stayed
  BY <1>1, <1>2 DEF HideSlack, Due
<1>4. stayed \ seen \in SUBSET Keys /\ Cardinality(stayed \ seen) <= 0
  BY <1>2, <1>3, AtTheEnd DEF Misled
<1>5. Cardinality(stayed \ seen) = 0 /\ IsFiniteSet(stayed \ seen)
  BY <1>4, KeySets
<1>6. stayed \ seen = {}
  BY <1>5, FS_EmptySet
<1> QED
  BY <1>6

\* The rows are in their places initially.
LEMMA KeptInit == PagesInit => ArchiveInv /\ MoveInv
<1> SUFFICES ASSUME PagesInit PROVE ArchiveInv /\ MoveInv
  OBVIOUS
<1>1. /\ exists = TRUE /\ leg = 1 /\ stayed = table /\ owed = table /\ seen = {} /\ other = {}
      /\ at \in {"dropTemp", "select"}
  BY DEF PagesInit
<1>2. ArchiveInv
  BY <1>1 DEF ArchiveInv
<1>3. MoveInv
  <2>1. at # "create" /\ at # "done" /\ leg # 2
    BY DEF PagesInit
  <2>3. exists
    BY DEF PagesInit
  <2>2. owed \subseteq stayed /\ owed \subseteq table /\ seen \subseteq other
    BY DEF PagesInit
  <2> QED
    BY <2>1, <2>2, <2>3, Zenon DEF MoveInv
<1> QED
  BY <1>2, <1>3

\* Every step keeps the rows of archiveMessage in the table or the archive.
LEMMA ArchiveStep ==
  ASSUME PagesTypeOK, PlaceInv, ArchiveInv, [PagesNext]_pagesVars
  PROVE  ArchiveInv'
<1> SUFFICES ASSUME Op("archive")' PROVE ArchiveInv'
  BY DEF ArchiveInv
<1>0. task' = task
  BY DEF PagesNext, PagesStep, Fault, pagesVars, SelectSql, SelectDynamo, NextCall, UpdateRow,
         DelRow, ArchiveRow, UnlinkRow, CopyRow, DropTemp, Drop, Create, Cleanup, SelectFails,
         RowFails, StepFails, Crash, Again, Insert, Delete
<1>1. /\ Op("archive") /\ ~Op("locations") /\ ~Op("migrate") /\ ~Op("del") /\ ~Op("update")
      /\ at = "unlink" => Row \in other
      /\ owed \subseteq table \cup other
  BY <1>0 DEF ArchiveInv, Op
<1>2. scan \in Scans /\ task \in Tasks /\ leg \in 1..2
  BY DEF PagesTypeOK, Scans
<1>3. CASE SelectSql \/ SelectDynamo
  <2>1. at = "select" /\ UNCHANGED <<table, other, owed>> /\ scan.got \in SUBSET Keys
    BY <1>2, <1>3 DEF SelectSql, SelectDynamo, Scans
  <2>2. PICK N \in SUBSET Keys, token \in Nat, count \in Int :
          Selected(scan.got \cup N, token, count) \/ UNCHANGED at
    BY <1>3, SelectReads DEF PlaceInv
  <2>3. ScanEnd # "unlink"
    BY DEF ScanEnd
  <2>4. at' # "unlink"
    <3>1. CASE Selected(scan.got \cup N, token, count)
      <4>1. ScanPage(scan.got \cup N, token, count) /\ scan.got \cup N \in SUBSET Keys
        BY <1>1, <2>1, <3>1 DEF Selected
      <4> QED
        BY <1>2, <2>3, <4>1, PageScan
    <3>2. CASE UNCHANGED at
      BY <2>1, <3>2
    <3> QED
      BY <2>2, <3>1, <3>2
  <2> QED
    BY <1>1, <2>1, <2>4 DEF ArchiveInv
<1>4. CASE UnlinkRow
  <2>1. at = "unlink" /\ RowDone /\ table' = table \ {Row} /\ UNCHANGED <<other, owed>>
    BY <1>4 DEF UnlinkRow, TakeOut
  <2>2. at' # "unlink"
    BY <1>2, <2>1, RowDoneScan DEF PlaceInv
  <2> QED
    BY <1>1, <2>1, <2>2 DEF ArchiveInv
<1>5. CASE ArchiveRow
  <2>1. other' = other \cup {Row} /\ UNCHANGED <<table, owed, scan>>
    BY <1>5 DEF ArchiveRow
  <2>2. Row' = Row
    BY <2>1 DEF Row
  <2> QED
    BY <1>1, <2>1, <2>2 DEF ArchiveInv
<1>6. CASE RowFails
  <2>1. /\ at \in {"rows", "unlink"} /\ UNCHANGED <<table, other, owed>>
        /\ RowDone \/ at' = "failed"
    BY <1>6 DEF RowFails
  <2>2. at' # "unlink"
    BY <1>2, <2>1, RowDoneScan DEF PlaceInv
  <2> QED
    BY <1>1, <2>1, <2>2 DEF ArchiveInv
<1>7. CASE Again
  <2>1. at' = "select" /\ UNCHANGED <<table, other>> /\ owed' = owed \cup table
    BY <1>1, <1>7 DEF Again
  <2> QED
    BY <1>1, <2>1 DEF ArchiveInv
<1>8. CASE NextCall \/ StepFails \/ Crash \/ SelectFails
  <2>1. UNCHANGED <<table, other, owed>>
    BY <1>8 DEF NextCall, StepFails, Crash, SelectFails
  <2>2. at' # "unlink"
    BY <1>1, <1>8 DEF NextCall, StepFails, Crash, SelectFails
  <2> QED
    BY <1>1, <2>1, <2>2 DEF ArchiveInv
<1>9. CASE UpdateRow \/ DelRow \/ CopyRow \/ DropTemp \/ Drop \/ Create \/ Cleanup
  BY <1>1, <1>9 DEF UpdateRow, DelRow, CopyRow, DropTemp, Drop, Create, Cleanup, PlaceInv
<1>10. CASE \E k \in Keys : Insert(k) \/ Delete(k)
  <2>1. UNCHANGED <<scan, other, at>>
    BY <1>10 DEF Insert, Delete
  <2>2. owed' \subseteq table' \cup other
    BY <1>1, <1>10 DEF Insert, Delete, TakeOut
  <2>3. Row' = Row
    BY <2>1 DEF Row
  <2> QED
    BY <1>1, <2>1, <2>2, <2>3 DEF ArchiveInv
<1>11. CASE UNCHANGED pagesVars
  <2>1. UNCHANGED <<scan, other, at, owed, table>>
    BY <1>11 DEF pagesVars
  <2>2. Row' = Row
    BY <2>1 DEF Row
  <2> QED
    BY <1>1, <2>1, <2>2 DEF ArchiveInv
<1> QED
  BY <1>3, <1>4, <1>5, <1>6, <1>7, <1>8, <1>9, <1>10, <1>11 DEF PagesNext, PagesStep, Fault

\* The select and the callbacks of the copy leave the table and its copy to CopyRow.
LEMMA CopyPlaces ==
  ASSUME PagesTypeOK, PlaceInv, Op("migrate")
  PROVE  /\ SelectSql \/ SelectDynamo => /\ at = "select" /\ UNCHANGED seen
                                         /\ at' \in {"select", "rows", "drop", "cleanup"}
         /\ CopyRow => /\ seen' = seen \cup {Row}
                       /\ at' \in {"select", "rows", "drop", "cleanup"}
<1>1. scan \in Scans /\ task \in Tasks /\ leg \in 1..2 /\ scan.got \in SUBSET Keys
  BY DEF PagesTypeOK, Scans
<1>2. ScanEnd \in {"drop", "cleanup"} /\ ~Op("locations")
  BY DEF ScanEnd, Op
<1>3. ASSUME SelectSql \/ SelectDynamo
      PROVE  at = "select" /\ UNCHANGED seen /\ at' \in {"select", "rows", "drop", "cleanup"}
  <2>1. at = "select"
    BY <1>3 DEF SelectSql, SelectDynamo
  <2>2. PICK N \in SUBSET Keys, token \in Nat, count \in Int :
          Selected(scan.got \cup N, token, count) \/ UNCHANGED <<at, given>>
    BY <1>3, SelectReads DEF PlaceInv
  <2>3. CASE Selected(scan.got \cup N, token, count)
    <3>1. ScanPage(scan.got \cup N, token, count) /\ scan.got \cup N \in SUBSET Keys
      BY <1>1, <1>2, <2>3 DEF Selected
    <3>2. UNCHANGED given /\ at' \in {"rows", "select", ScanEnd}
      BY <1>1, <3>1, PageScan
    <3> QED
      BY <1>2, <2>1, <3>2 DEF given
  <2>4. CASE UNCHANGED <<at, given>>
    BY <2>1, <2>4 DEF given
  <2> QED
    BY <2>2, <2>3, <2>4
<1>4. ASSUME CopyRow
      PROVE  seen' = seen \cup {Row} /\ at' \in {"select", "rows", "drop", "cleanup"}
  <2>1. at = "rows" /\ Visit /\ RowDone /\ scan.page # {}
    BY <1>4 DEF CopyRow, PlaceInv
  <2>2. at' \in {"rows", "select", ScanEnd}
    BY <1>1, <2>1, RowDoneScan
  <2> QED
    BY <1>2, <2>1, <2>2, VisitType
<1> QED
  BY <1>3, <1>4

\* Every step keeps the rows of a migration in the table or its copy.
LEMMA MoveStep ==
  ASSUME PagesTypeOK, PlaceInv, PartsInv, MoveInv, [PagesNext]_pagesVars
  PROVE  MoveInv'
<1> SUFFICES ASSUME Op("migrate")', ~excused' PROVE MoveInv'
  BY DEF MoveInv
<1>0. task' = task
  BY DEF PagesNext, PagesStep, Fault, pagesVars, SelectSql, SelectDynamo, NextCall, UpdateRow,
         DelRow, ArchiveRow, UnlinkRow, CopyRow, DropTemp, Drop, Create, Cleanup, SelectFails,
         RowFails, StepFails, Crash, Again, Insert, Delete
<1>1. Op("migrate") /\ ~Op("locations") /\ ~Op("archive") /\ ~Op("del") /\ ~Op("update")
  BY <1>0 DEF Op
<1>2. ~excused
  BY DEF PagesNext, PagesStep, Fault, pagesVars, SelectSql, SelectDynamo, NextCall, UpdateRow,
         DelRow, ArchiveRow, UnlinkRow, CopyRow, DropTemp, Drop, Create, Cleanup, SelectFails,
         RowFails, StepFails, Crash, Again, Insert, Delete
<1>3. /\ ~exists => leg = 1 /\ at \in {"create", "failed"} /\ owed \subseteq other
      /\ at = "create" => ~exists
      /\ leg = 2 /\ at # "done" => stayed = other /\ owed \subseteq table \cup other
      /\ leg = 1 /\ exists => owed \subseteq table
      /\ leg = 1 /\ at # "failed" => seen \subseteq other /\ owed \subseteq stayed
      /\ leg = 2 => owed \cap seen \subseteq table
      /\ at = "done" => owed \subseteq table
      /\ leg \in 1..2
  BY <1>1, <1>2 DEF MoveInv, PagesTypeOK
<1>4. CASE SelectSql \/ SelectDynamo
  <2>1. at = "select" /\ UNCHANGED seen /\ at' \in {"select", "rows", "drop", "cleanup"}
    BY <1>1, <1>4, CopyPlaces
  <2>2. UNCHANGED <<exists, leg, stayed, owed, other, table>>
    BY <1>4 DEF SelectSql, SelectDynamo
  <2> QED
    BY <1>3, <2>1, <2>2 DEF MoveInv
<1>5. CASE CopyRow
  <2>1. seen' = seen \cup {Row} /\ at = "rows" /\ at' \in {"select", "rows", "drop", "cleanup"}
    BY <1>1, <1>5, CopyPlaces DEF CopyRow
  <2>2. UNCHANGED <<exists, leg, stayed, owed>>
    BY <1>5 DEF CopyRow
  <2>3. CASE leg = 1
    <3>1. other' = other \cup {Row} /\ UNCHANGED table
      BY <1>5, <2>3 DEF CopyRow
    <3> QED
      BY <1>3, <2>1, <2>2, <2>3, <3>1 DEF MoveInv
  <2>4. CASE leg = 2
    <3>1. table' = table \cup {Row} /\ UNCHANGED other
      BY <1>5, <2>4 DEF CopyRow
    <3> QED
      BY <1>3, <2>1, <2>2, <2>4, <3>1 DEF MoveInv
  <2> QED
    BY <1>3, <2>3, <2>4
<1>6. CASE DropTemp
  <2>1. /\ at = "dropTemp" /\ other' = {} /\ at' = "select" /\ seen = {}
        /\ UNCHANGED <<exists, leg, stayed, owed, seen, table>>
    BY <1>6 DEF DropTemp, PlaceInv, given
  <2>2. exists /\ leg = 1
    BY <1>3, <2>1 DEF PlaceInv
  <2> QED
    BY <1>3, <2>1, <2>2 DEF MoveInv
<1>7. CASE Drop
  <2>1. /\ at = "drop" /\ exists' = FALSE /\ at' = "create" /\ leg = 1
        /\ UNCHANGED <<leg, stayed, owed, seen, other>>
    BY <1>7 DEF Drop, PlaceInv, given
  <2>2. stayed \subseteq seen
    BY <1>2, <2>1, CopyIsWhole
  <2>3. ~exists'
    BY <2>1
  <2> QED
    BY <1>3, <2>1, <2>2, <2>3 DEF MoveInv
<1>8. CASE Create
  <2>1. /\ at = "create" /\ at' = "select" /\ leg' = 2 /\ stayed' = other /\ seen' = {}
        /\ UNCHANGED <<owed, other, table>>
    BY <1>8 DEF Create
  <2>2. exists'
    BY <1>8 DEF Create
  <2>3. leg' # 1 /\ at' # "create" /\ at' # "done"
    BY <2>1
  <2>4. owed \subseteq other
    BY <1>3, <2>1
  <2>5. /\ stayed' = other' /\ owed' \subseteq table' \cup other'
        /\ owed' \cap seen' \subseteq table'
    BY <2>1, <2>4
  <2> QED
    BY <2>2, <2>3, <2>5, Zenon DEF MoveInv
<1>9. CASE Cleanup
  <2>1. /\ at = "cleanup" /\ at' = "done" /\ leg = 2
        /\ UNCHANGED <<exists, leg, stayed, owed, seen, table>>
    BY <1>1, <1>9 DEF Cleanup, PlaceInv, given
  <2>2. stayed \subseteq seen
    BY <1>2, <2>1, CopyIsWhole
  <2>3. exists /\ owed \subseteq table
    BY <1>3, <2>1, <2>2
  <2> QED
    BY <1>3, <2>1, <2>3 DEF MoveInv
<1>10. CASE StepFails \/ Crash \/ SelectFails
  <2>1. at' = "failed" /\ at # "done" /\ UNCHANGED <<exists, leg, stayed, owed, seen, other, table>>
    BY <1>1, <1>10 DEF StepFails, Crash, SelectFails, given
  <2> QED
    BY <1>3, <2>1 DEF MoveInv
<1>11. CASE Again
  <2>1. /\ at' = "dropTemp" /\ leg' = 1 /\ seen' = {} /\ stayed' = table
        /\ UNCHANGED <<other, table>> /\ owed' = owed \cup table
    BY <1>1, <1>11 DEF Again
  <2>2. excused' = (excused \/ (Op("migrate") /\ (leg = 2 \/ ~exists)))
    BY <1>11 DEF Again
  <2>3. leg # 2 /\ exists
    BY <1>1, <2>2, Zenon
  <2>4. exists' \in {exists, TRUE}
    BY <1>11 DEF Again
  <2>5. exists'
    BY <2>3, <2>4
  <2>6. leg' # 2 /\ at' # "create" /\ at' # "done"
    <3>1. at' = "dropTemp" /\ leg' = 1
      BY <2>1
    <3> QED
      BY <3>1
  <2>7. owed \subseteq table
    BY <1>3, <2>3
  <2>8. owed' \subseteq table' /\ seen' \subseteq other' /\ owed' \subseteq stayed'
    BY <2>1, <2>7
  <2> QED
    BY <2>5, <2>6, <2>8, Zenon DEF MoveInv
<1>12. ASSUME NEW k \in Keys, Insert(k) PROVE MoveInv'
  <2>1. /\ exists /\ table' = table \cup {k}
        /\ owed' = IF CopyingOut THEN owed ELSE owed \cup {k}
        /\ stayed' = IF at = "dropTemp" THEN stayed \cup {k} ELSE stayed
        /\ UNCHANGED <<exists, leg, seen, other, at>>
    BY <1>12 DEF Insert, given
  <2>2. CASE leg = 1
    <3>1. owed' \subseteq table'
      BY <1>3, <2>1, <2>2
    <3>2. at # "failed" => owed' \subseteq stayed'
      <4>1. CASE CopyingOut
        <5>1. owed' = owed /\ stayed \subseteq stayed'
          BY <2>1, <4>1
        <5> QED
          BY <1>3, <2>2, <5>1
      <4>2. CASE ~CopyingOut /\ at # "failed"
        <5>1. at \in {"dropTemp", "create"}
          <6>1. at \notin {"select", "rows", "drop", "failed"}
            BY <1>1, <2>2, <4>2 DEF CopyingOut
          <6>2. at \in Places /\ at \notin {"unlink", "call", "cleanup", "done"}
            BY <1>1, <2>2 DEF PlaceInv, PagesTypeOK, Places, Op
          <6> QED
            BY <6>1, <6>2 DEF Places
        <5>2. at = "dropTemp"
          BY <1>3, <2>1, <5>1
        <5> QED
          BY <1>3, <2>1, <2>2, <4>2, <5>2
      <4> QED
        BY <4>1, <4>2
    <3> QED
      BY <1>3, <2>1, <2>2, <3>1, <3>2 DEF MoveInv
  <2>3. CASE leg = 2
    <3>1. at # "dropTemp" \/ at = "dropTemp"
      OBVIOUS
    <3>2. stayed' = stayed
      BY <2>1, <2>3 DEF PlaceInv
    <3>3. owed' = owed \cup {k}
      BY <2>1, <2>3 DEF CopyingOut
    <3> QED
      BY <1>3, <2>1, <2>3, <3>2, <3>3 DEF MoveInv
  <2> QED
    BY <1>3, <2>2, <2>3
<1>13. ASSUME NEW k \in Keys, Delete(k) PROVE MoveInv'
  <2>1. /\ exists /\ table' = table \ {k} /\ owed' = owed \ {k}
        /\ stayed' = IF leg = 2 THEN stayed ELSE stayed \ {k}
        /\ UNCHANGED <<exists, leg, seen, other, at>>
    BY <1>13 DEF Delete, TakeOut, given
  <2>2. CASE leg = 1
    <3>1. stayed' = stayed \ {k}
      BY <2>1, <2>2
    <3> QED
      BY <1>3, <2>1, <2>2, <3>1 DEF MoveInv
  <2>3. CASE leg = 2
    <3>1. stayed' = stayed
      BY <2>1, <2>3
    <3> QED
      BY <1>3, <2>1, <2>3, <3>1 DEF MoveInv
  <2> QED
    BY <1>3, <2>2, <2>3
<1>14. CASE UNCHANGED pagesVars
  <2>1. UNCHANGED <<exists, leg, stayed, owed, seen, other, at, table>>
    BY <1>14 DEF pagesVars, given
  <2> QED
    BY <1>3, <2>1 DEF MoveInv
<1>15. ~(NextCall \/ UpdateRow \/ DelRow \/ ArchiveRow \/ UnlinkRow)
  BY <1>1 DEF NextCall, UpdateRow, DelRow, ArchiveRow, UnlinkRow, PlaceInv
<1>16. ~RowFails
  <2>1. RowFails => excused' = (excused \/ Op("migrate"))
    BY DEF RowFails
  <2> QED
    BY <1>1, <2>1
<1> QED
  BY <1>4, <1>5, <1>6, <1>7, <1>8, <1>9, <1>10, <1>11, <1>12, <1>13, <1>14, <1>15, <1>16
  DEF PagesNext, PagesStep, Fault

-----------------------------------------------------------------------------
(* The theorems. *)

PagesInv == PagesTypeOK /\ PlaceInv /\ PartsInv /\ HoldInv /\ ArchiveInv /\ MoveInv

\* The inductive invariant of the operations that read by pages.
LEMMA PagesInvariant == PagesSpec => []PagesInv
<1>1. PagesInit => PagesInv
  BY PagesInitType, PlaceInit, PartsInit, HoldInit, KeptInit DEF PagesInv
<1>2. PagesInv /\ [PagesNext]_pagesVars => PagesInv'
  <2> SUFFICES ASSUME PagesInv, [PagesNext]_pagesVars PROVE PagesInv'
    OBVIOUS
  <2>1. PagesTypeOK /\ PlaceInv /\ PartsInv /\ HoldInv /\ ArchiveInv /\ MoveInv
    BY DEF PagesInv
  <2>2. PagesTypeOK' /\ PlaceInv'
    BY <2>1, PagesTypeStep, PlaceStep
  <2>3. PartsInv'
    BY <2>1, <2>2, PartsStep
  <2>4. HoldInv'
    BY <2>1, HoldStep
  <2>5. ArchiveInv' /\ MoveInv'
    BY <2>1, ArchiveStep, MoveStep
  <2> QED
    BY <2>2, <2>3, <2>4, <2>5 DEF PagesInv
<1> QED
  BY <1>1, <1>2, PTL DEF PagesSpec

\* The type invariant of the operations that read by pages.
THEOREM PagesTypeCorrect == PagesSpec => []PagesTypeOK
<1>1. PagesInv => PagesTypeOK
  BY DEF PagesInv
<1> QED
  BY <1>1, PagesInvariant, PTL

\* A scan gives every row that was there all the time, but one for every row removed
\* meanwhile under an offset, and no row again, but one for every row inserted (db.scan
\* and, for a search whose place is in its options, db.getLocations, lib/db.js).
THEOREM WholeScan == PagesSpec => []EachRowOnce
<1>1. PagesInv => EachRowOnce
  <2> SUFFICES ASSUME PagesInv PROVE EachRowOnce
    OBVIOUS
  <2> DEFINE hides == Sql /\ leg = 1
  <2>1. PagesTypeOK /\ PlaceInv /\ PartsInv
    BY DEF PagesInv
  <2>2. repeats \in Nat /\ removed \in Nat /\ inserted \in Nat
    BY <2>1 DEF PagesTypeOK
  <2>3. ASSUME at \in {"drop", "cleanup", "done"}, task.limit = 0, ~Misled
        PROVE  Cardinality(Due \ seen) <= IF hides THEN removed ELSE 0
    <3>1. Due \ seen \in SUBSET Keys /\ Cardinality(Due \ seen) <= HideSlack
      BY <2>1, <2>3, AtTheEnd
    <3>2. Cardinality(Due \ seen) \in Nat
      BY <3>1, KeySets
    <3>3. HideSlack = 0 \/ (hides /\ HideSlack = removed)
      BY DEF HideSlack, Shifts
    <3> QED
      BY <2>2, <3>1, <3>2, <3>3
  <2>4. repeats <= IF hides THEN inserted ELSE 0
    <3> DEFINE a == Cardinality(Taken \cap seen)
               b == Cardinality(Rest \cap (seen \cup Taken))
    <3>1. Taken \cap seen \in SUBSET Keys /\ Rest \cap (seen \cup Taken) \in SUBSET Keys
      BY <2>1, PartsType
    <3>2. a \in Nat /\ b \in Nat
      BY <3>1, KeySets
    <3>3. repeats + a + b <= IF hides THEN inserted ELSE 0
      BY <2>1 DEF PartsInv, RepeatInv, Shifts
    <3> HIDE DEF a, b
    <3> QED
      BY <2>2, <3>2, <3>3
  <2> QED
    BY <2>3, <2>4 DEF EachRowOnce
<1> QED
  BY <1>1, PagesInvariant, PTL

\* Neither the archive of messages nor a migration that is not exposed loses a row its
\* clients did not delete, but those they insert between the first select of the copy of a
\* migration and its drop (archiveMessage of bk_messages, db.migrate).
THEOREM Kept == PagesSpec => []RowsKept
<1>1. PagesInv => RowsKept
  <2> SUFFICES ASSUME PagesInv PROVE RowsKept
    OBVIOUS
  <2>1. PagesTypeOK /\ ArchiveInv /\ MoveInv
    BY DEF PagesInv
  <2>2. leg = 1 \/ leg = 2
    BY <2>1 DEF PagesTypeOK
  <2>3. Op("archive") => owed \subseteq table \cup other
    BY <2>1 DEF ArchiveInv
  <2>4. Op("migrate") /\ ~excused => owed \subseteq table \cup other
    BY <2>1, <2>2 DEF MoveInv
  <2> QED
    BY <2>3, <2>4 DEF RowsKept
<1> QED
  BY <1>1, PagesInvariant, PTL

\* A scan reads at most its limit; a search returns the count, the last one at most that
\* (db.scan and db.getLocations with the SQL drivers).
THEOREM CountHeld == PagesSpec => []PagesHoldCount
<1>1. PagesInv => PagesHoldCount
  BY DEF PagesInv, HoldInv, PagesHoldCount
<1> QED
  BY <1>1, PagesInvariant, PTL
=============================================================================
