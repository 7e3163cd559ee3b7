------------------------------- MODULE DataCache -------------------------------
(***************************************************************************)
(* A cached row of the database (lib/db.js: get, put, update, incr, del,   *)
(* queryResult, getCached, getCache, putCache, delCache) in two levels: a  *)
(* cache that all processes share, reached by messages that stay in order  *)
(* per process, and an LRU cache in each process.  Its client bk_status    *)
(* reads the row and puts it back into the cache or into the table.        *)
(*                                                                         *)
(* A value of the row is the number of the write that made it.  Entries    *)
(* know their remaining ticks.  Those of the shared cache stay until they  *)
(* are removed when cache-ttl is not configured, which is the default.     *)
(***************************************************************************)
EXTENDS Integers, Sequences

CONSTANTS Processes,
          Slots, Home,    \* operations at a time, and the process of each
          Ttl, Ttl2,      \* ticks in the shared cache, if configured, and in a process
          StatusInterval, \* ticks
          Writes,         \* bound: writes in all
          MaxWire,        \* bound: messages of a process under way
          Faults          \* bound: errors and crashes

ASSUME CacheAssumption ==
    /\ Home \in [Slots -> Processes]
    /\ {Ttl, Ttl2, StatusInterval} \subseteq Nat \ {0}
    /\ {Writes, MaxWire, Faults} \subseteq Nat

VARIABLES cacheTtl, \* Ttl, or Never if cache-ttl is not configured
          row,    \* the last write
          age,    \* ticks since each write, up to StatusInterval
          l1, l2, \* the shared cache, the caches of the processes
          wire,   \* messages of each process to the shared cache
          op,     \* operations under way
          writes, faults,
          late,   \* history: the row in l1 had been replaced when it was stored
          lost    \* history: a write took effect and its process has not been told

table == <<row, age>>
bounds == <<writes, faults>>
vars == <<cacheTtl, table, l1, l2, wire, op, bounds, late, lost>>

Nothing == -1
Never == 0
NoEntry == [v |-> Nothing, ttl |-> 0]
Idle == [kind |-> "get", st |-> "idle", v |-> Nothing]
Reading == {"get", "touch"}
Writing == {"put", "returning"} \* the first stands for put, update, incr and del

Init ==
    /\ cacheTtl \in {Never, Ttl}
    /\ row = 0 /\ age = [n \in 0..Writes |-> 0]
    /\ l1 = NoEntry /\ l2 = [p \in Processes |-> NoEntry]
    /\ wire = [p \in Processes |-> <<>>]
    /\ op = [o \in Slots |-> Idle]
    /\ writes = Writes /\ faults = Faults
    /\ late = FALSE /\ lost = FALSE

Entry(v, ttl) == [v |-> v, ttl |-> ttl]
Message(kind, v) == [kind |-> kind, v |-> v]

Send(p, m) == Len(wire[p]) < MaxWire /\ wire' = [wire EXCEPT ![p] = Append(@, m)]
PutCache(p, v) == l2' = [l2 EXCEPT ![p] = Entry(v, Ttl2)] /\ Send(p, Message("put", v))
DelCacheOwn(p) == l2' = [l2 EXCEPT ![p] = NoEntry] /\ UNCHANGED wire
DelCache(p) == l2' = [l2 EXCEPT ![p] = NoEntry] /\ Send(p, Message("del", Nothing))

(* The row a reader gets: putStatus goes on with it, a plain get is done. *)
Got(o, v) ==
    op' = [op EXCEPT ![o] = IF op[o].kind = "touch" THEN [@ EXCEPT !.st = "touching", !.v = v] ELSE Idle]

-----------------------------------------------------------------------------
(* getCached: the process's own cache, then the shared one *)
Get(o, kind) ==
    LET p == Home[o]
        q == [kind |-> kind, st |-> "asking", v |-> Nothing]
    IN IF l2[p] # NoEntry
       THEN /\ op' = [op EXCEPT ![o] = IF kind = "get" THEN Idle
                                       ELSE [q EXCEPT !.st = "touching", !.v = l2[p].v]]
            /\ UNCHANGED wire
       ELSE op' = [op EXCEPT ![o] = q] /\ Send(p, Message("get", o))

(* The time before a statement runs makes no difference; the time until its answer does. *)
Modify(o, kind) ==
    /\ writes > 0 /\ writes' = writes - 1
    /\ row' = row + 1 /\ age' = [age EXCEPT ![row + 1] = 0]
    /\ op' = [op EXCEPT ![o] = [kind |-> kind, st |-> "wrote", v |-> row + 1]]

Begin(o) ==
    /\ op[o] = Idle
    /\ \/ (\E kind \in Reading : Get(o, kind)) /\ UNCHANGED <<table, writes>>
       \/ (\E kind \in Writing : Modify(o, kind)) /\ UNCHANGED wire
    /\ UNCHANGED <<cacheTtl, l1, l2, faults, late, lost>>

(* The shared cache works on the messages of a process one after the other. *)
Deliver(p) ==
    /\ wire[p] # <<>> /\ wire' = [wire EXCEPT ![p] = Tail(@)]
    /\ LET m == Head(wire[p])
       IN CASE m.kind = "get" -> /\ op' = [op EXCEPT ![m.v] = [@ EXCEPT !.st = "answered", !.v = l1.v]]
                                 /\ UNCHANGED <<l1, late>>
            [] m.kind = "put" -> l1' = Entry(m.v, cacheTtl) /\ late' = (m.v # row) /\ UNCHANGED op
            [] m.kind = "del" -> l1' = NoEntry /\ UNCHANGED <<op, late>>
            [] m.kind = "void" -> UNCHANGED <<l1, op, late>>
    /\ UNCHANGED <<cacheTtl, table, l2, bounds, lost>>

(* The callback of ipc.get with the row *)
Hit(o) ==
    /\ op[o].st = "answered" /\ op[o].v # Nothing
    /\ l2' = [l2 EXCEPT ![Home[o]] = Entry(op[o].v, Ttl2)]
    /\ Got(o, op[o].v)
    /\ UNCHANGED <<cacheTtl, table, l1, wire, bounds, late, lost>>

(* The callback without it, or before the answer that comes too late: the table is read. *)
Miss(o) ==
    /\ op[o].st = "answered"
    /\ op' = [op EXCEPT ![o] = [@ EXCEPT !.st = "read", !.v = row]]
    /\ UNCHANGED <<cacheTtl, table, l1, l2, wire, bounds, late, lost>>

(* A read fails; a write fails although it was done, and queryResult is not run. *)
FailRead(o) ==
    /\ op[o].st = "read" /\ faults > 0
    /\ faults' = faults - 1 /\ op' = [op EXCEPT ![o] = Idle]
    /\ UNCHANGED <<cacheTtl, table, l1, l2, wire, writes, late, lost>>

FailWrite(o) ==
    /\ op[o].st = "wrote" /\ faults > 0
    /\ faults' = faults - 1 /\ op' = [op EXCEPT ![o] = Idle]
    /\ lost' = TRUE
    /\ UNCHANGED <<cacheTtl, table, l1, l2, wire, writes, late>>

(* The row has arrived and is cached. *)
FinishGet(o) ==
    /\ op[o].st = "read"
    /\ PutCache(Home[o], op[o].v)
    /\ Got(o, op[o].v)
    /\ UNCHANGED <<cacheTtl, table, l1, bounds, late, lost>>

(* queryResult after a write *)
FinishWrite(o) ==
    /\ op[o].st = "wrote"
    /\ LET p == Home[o]
       IN IF op[o].kind = "returning" THEN PutCache(p, op[o].v) ELSE DelCache(p)
    /\ op' = [op EXCEPT ![o] = Idle]
    /\ UNCHANGED <<cacheTtl, table, l1, bounds, late, lost>>

HotAlways(v) == TRUE
Hot(v) == age[v] < StatusInterval

(* putStatus with options.check: a recent row is kept in the cache, an old one is written again. *)
Touch(o) ==
    /\ op[o].st = "touching"
    /\ IF Hot(op[o].v)
       THEN /\ PutCache(Home[o], op[o].v) /\ op' = [op EXCEPT ![o] = Idle]
            /\ UNCHANGED <<table, writes>>
       ELSE /\ \/ Modify(o, "put")
               \/ writes = 0 /\ op' = [op EXCEPT ![o] = Idle] /\ UNCHANGED <<table, writes>>
            /\ UNCHANGED <<l2, wire>>
    /\ UNCHANGED <<cacheTtl, l1, faults, late, lost>>

(* A process dies; messages it has not sent yet may be lost, and nobody waits for the *)
(* answers to those that were sent.                                                   *)
Crash(p) ==
    /\ faults > 0 /\ faults' = faults - 1
    /\ l2' = [l2 EXCEPT ![p] = NoEntry]
    /\ op' = [o \in Slots |-> IF Home[o] = p THEN Idle ELSE op[o]]
    /\ \E n \in 0..Len(wire[p]) :
         wire' = [wire EXCEPT ![p] = [i \in 1..n |-> IF @[i].kind = "get" THEN Message("void", Nothing) ELSE @[i]]]
    /\ lost' = (lost \/ wire[p] # <<>> \/ \E o \in Slots : Home[o] = p /\ op[o].st = "wrote")
    /\ UNCHANGED <<cacheTtl, table, l1, writes, late>>

Evict ==
    /\ \/ l1' = NoEntry /\ UNCHANGED l2
       \/ UNCHANGED l1 /\ \E p \in Processes : l2' = [l2 EXCEPT ![p] = NoEntry]
    /\ UNCHANGED <<cacheTtl, table, wire, op, bounds, late, lost>>

OlderAlways(e) == IF e.ttl = Never THEN e ELSE [e EXCEPT !.ttl = @ - 1]
Older(e) == CASE e.ttl = Never -> e
              [] e.ttl = 1     -> NoEntry
              [] OTHER         -> [e EXCEPT !.ttl = @ - 1]

Tick ==
    /\ age' = [n \in 0..Writes |-> IF age[n] < StatusInterval /\ n <= row THEN age[n] + 1 ELSE age[n]]
    /\ l1' = Older(l1) /\ l2' = [p \in Processes |-> Older(l2[p])]
    /\ UNCHANGED <<cacheTtl, row, wire, op, bounds, late, lost>>

Next ==
    \/ \E o \in Slots : \/ Begin(o) \/ Hit(o) \/ Miss(o) \/ FailRead(o) \/ FailWrite(o)
                        \/ FinishGet(o) \/ FinishWrite(o) \/ Touch(o)
    \/ \E p \in Processes : Deliver(p) \/ Crash(p)
    \/ Evict \/ Tick

Fairness ==
    /\ \A o \in Slots : WF_vars(Hit(o) \/ Miss(o) \/ FinishGet(o) \/ FinishWrite(o) \/ Touch(o))
    /\ \A p \in Processes : WF_vars(Deliver(p))
    /\ WF_vars(Tick)

Spec == Init /\ [][Next]_vars /\ Fairness

-----------------------------------------------------------------------------
EntryType(t) == [v : {Nothing} \cup 0..Writes, ttl : 0..t]

TypeOK ==
    /\ cacheTtl \in {Never, Ttl}
    /\ row \in 0..Writes /\ age \in [0..Writes -> 0..StatusInterval]
    /\ l1 \in EntryType(Ttl) /\ l2 \in [Processes -> EntryType(Ttl2)]
    /\ wire \in [Processes -> Seq([kind : {"get"}, v : Slots]
                                   \cup [kind : {"put", "del", "void"}, v : {Nothing} \cup 0..Writes])]
    /\ op \in [Slots -> [kind : Reading \cup Writing, v : {Nothing} \cup 0..Writes,
                         st : {"idle", "asking", "answered", "read", "wrote", "touching"}]]
    /\ writes \in 0..Writes /\ faults \in 0..Faults
    /\ late \in BOOLEAN /\ lost \in BOOLEAN

(* A row that was current when it reached the shared cache, and is not any more, leaves it:  *)
(* its removal or its successor is on the way, whatever other reads and writes do            *)
(* (queryResult).  The exceptions are rows cached after they were replaced, by a slow read   *)
(* or by bk_status, and writes whose process is not told of their success.                   *)
Replacing(p, v) ==
    \/ \E o \in Slots : Home[o] = p /\ op[o].st = "wrote" /\ op[o].v > v
    \/ \E i \in DOMAIN wire[p] : wire[p][i].kind = "del" \/ (wire[p][i].kind = "put" /\ wire[p][i].v > v)
Invalidated ==
    ~lost /\ ~late /\ l1 # NoEntry /\ l1.v # row => \E p \in Processes : Replacing(p, l1.v)

(* When nothing is written any more the caches agree with the table in the end, although     *)
(* errors and slow readers leave old rows behind and the readers of bk_status keep them hot: *)
(* entries expire, and bk_status lets go of a row after its interval.  Without cache-ttl an  *)
(* old row stays for ever, but only one that is excepted above (getCacheOptions, putCache).  *)
EventuallyFresh ==
    <>[](\A e \in {l1} \cup {l2[p] : p \in Processes} :
           e = NoEntry \/ e.v = row \/ (cacheTtl = Never /\ (late \/ lost)))
=============================================================================
