--------------------------- MODULE DataCache_proofs ---------------------------
(***************************************************************************)
(* Proofs about the cached row, for any number of processes and operations *)
(* and any times and bounds: the type invariant, and that what was current *)
(* in the shared cache is removed or replaced when it is not any more.     *)
(***************************************************************************)
EXTENDS DataCache, TLAPS

\* Values are those of writes that have been made.
Values == {Nothing} \cup 0..row
Gets == [kind : {"get"}, v : Slots]
Rest == [kind : {"put", "del", "void"}, v : Values]
Operations == [kind : Reading \cup Writing, v : Values,
               st : {"idle", "asking", "answered", "read", "wrote", "touching"}]

TableOK == /\ row \in Nat /\ writes \in Nat /\ row + writes = Writes
           /\ age \in [0..Writes -> 0..StatusInterval]
CachesOK == /\ l1 \in [v : Values, ttl : 0..Ttl]
            /\ l2 \in [Processes -> [v : Values, ttl : 0..Ttl2]]
WireOK == wire \in [Processes -> Seq(Gets \cup Rest)]
OpsOK == op \in [Slots -> Operations]
OthersOK == /\ faults \in 0..Faults /\ late \in BOOLEAN /\ lost \in BOOLEAN
            /\ cacheTtl \in {Never, Ttl}

Types == TableOK /\ CachesOK /\ WireOK /\ OpsOK /\ OthersOK

LEMMA TypesSuffice == Types => TypeOK
<1> SUFFICES ASSUME Types PROVE TypeOK
  OBVIOUS
<1>1. row \in 0..Writes /\ writes \in 0..Writes /\ Values \subseteq {Nothing} \cup 0..Writes
  BY CacheAssumption DEF Types, TableOK, Values, Nothing
<1>2. l1 \in EntryType(Ttl) /\ l2 \in [Processes -> EntryType(Ttl2)]
  BY <1>1 DEF Types, CachesOK, EntryType
<1>3. wire \in [Processes -> Seq([kind : {"get"}, v : Slots]
                                 \cup [kind : {"put", "del", "void"}, v : {Nothing} \cup 0..Writes])]
  <2>1. Gets \cup Rest \subseteq [kind : {"get"}, v : Slots]
                                 \cup [kind : {"put", "del", "void"}, v : {Nothing} \cup 0..Writes]
    BY <1>1 DEF Gets, Rest
  <2> QED BY <2>1 DEF Types, WireOK
<1>4. op \in [Slots -> [kind : Reading \cup Writing, v : {Nothing} \cup 0..Writes,
                        st : {"idle", "asking", "answered", "read", "wrote", "touching"}]]
  BY <1>1 DEF Types, OpsOK, Operations
<1>5. faults \in 0..Faults
  BY DEF Types, OthersOK
<1>6. late \in BOOLEAN /\ lost \in BOOLEAN
  BY Zenon DEF Types, OthersOK
<1>7. cacheTtl \in {Never, Ttl}
  BY DEF Types, OthersOK
<1> QED BY <1>1, <1>2, <1>3, <1>4, <1>5, <1>6, <1>7 DEF TypeOK, Types, TableOK

LEMMA TypesInit == Init => Types
<1> SUFFICES ASSUME Init PROVE Types
  OBVIOUS
<1>1. TableOK
  BY CacheAssumption DEF Init, TableOK
<1>2. CachesOK
  BY CacheAssumption DEF Init, CachesOK, NoEntry, Values
<1>3. WireOK
  BY DEF Init, WireOK
<1>4. OpsOK
  BY DEF Init, OpsOK, Operations, Idle, Reading, Values
<1>5. late \in BOOLEAN /\ lost \in BOOLEAN
  BY Zenon DEF Init
<1>6. faults \in 0..Faults
  BY CacheAssumption DEF Init
<1>7. cacheTtl \in {Never, Ttl}
  BY DEF Init
<1> QED BY <1>1, <1>2, <1>3, <1>4, <1>5, <1>6, <1>7 DEF Types, OthersOK

-----------------------------------------------------------------------------
(* The parts of the state that the steps have in common. *)

LEMMA ValuesGrow == ASSUME TableOK, row' = row \/ row' = row + 1
                    PROVE  Values \subseteq Values'
BY DEF TableOK, Values, Nothing

LEMMA CachesStay ==
  ASSUME CachesOK, Values \subseteq Values', UNCHANGED <<l1, l2>>
  PROVE  CachesOK'
<1>1. l1' \in [v : Values', ttl : 0..Ttl]
  BY DEF CachesOK
<1>2. l2' \in [Processes -> [v : Values', ttl : 0..Ttl2]]
  BY DEF CachesOK
<1> QED BY <1>1, <1>2 DEF CachesOK

LEMMA MessagesGrow ==
  ASSUME Values \subseteq Values' PROVE Gets \cup Rest \subseteq (Gets \cup Rest)'
BY DEF Gets, Rest

LEMMA WireStays ==
  ASSUME WireOK, Values \subseteq Values', wire' = wire
  PROVE  WireOK'
BY MessagesGrow DEF WireOK

LEMMA Sent ==
  ASSUME WireOK, row' = row, NEW p \in Processes, NEW m \in Gets \cup Rest, Send(p, m)
  PROVE  WireOK' /\ wire' = [wire EXCEPT ![p] = Append(@, m)]
<1>1. Gets' = Gets /\ Rest' = Rest
  BY DEF Gets, Rest, Values
<1> QED BY <1>1 DEF Send, WireOK

LEMMA OpsStay ==
  ASSUME OpsOK, Values \subseteq Values', op' = op
  PROVE  OpsOK'
<1>1. Operations \subseteq Operations'
  BY DEF Operations
<1> QED BY <1>1 DEF OpsOK

LEMMA OpSet ==
  ASSUME OpsOK, Values \subseteq Values', NEW o \in Slots, NEW x \in Operations',
         op' = [op EXCEPT ![o] = x]
  PROVE  OpsOK'
<1>1. Operations \subseteq Operations'
  BY DEF Operations
<1> QED BY <1>1 DEF OpsOK

LEMMA IdleOp == Idle \in Operations'
BY DEF Idle, Operations, Reading, Values

LEMMA GotOp ==
  ASSUME OpsOK, Values' = Values, NEW o \in Slots, op[o].st # "wrote", NEW v \in Values, Got(o, v)
  PROVE  OpsOK' /\ \A d \in Slots : op[d].st = "wrote" => op'[d] = op[d]
<1> DEFINE x == IF op[o].kind = "touch" THEN [op[o] EXCEPT !.st = "touching", !.v = v] ELSE Idle
<1>1. op' = [op EXCEPT ![o] = x]
  BY DEF Got
<1>2. op[o] \in Operations /\ Operations' = Operations
  BY DEF OpsOK, Operations
<1>3. [op[o] EXCEPT !.st = "touching", !.v = v] \in Operations
  BY <1>2 DEF Operations
<1>4. x \in Operations'
  BY <1>2, <1>3, IdleOp
<1>5. OpsOK'
  BY <1>1, <1>4, OpSet
<1>6. \A d \in Slots : d # o => op'[d] = op[d]
  BY <1>1 DEF OpsOK
<1> QED BY <1>5, <1>6

LEMMA Written ==
  ASSUME Types, NEW o \in Slots, NEW kind \in Writing, Modify(o, kind)
  PROVE  /\ TableOK' /\ OpsOK' /\ Values \subseteq Values' /\ row' = row + 1
         /\ op'[o].st = "wrote" /\ op'[o].v = row'
         /\ \A d \in Slots : d # o => op'[d] = op[d]
<1>1. row' = row + 1 /\ writes' = writes - 1 /\ writes > 0 /\ age' = [age EXCEPT ![row + 1] = 0]
  BY DEF Modify
<1>2. TableOK'
  BY <1>1, CacheAssumption DEF Types, TableOK
<1>3. Values \subseteq Values'
  BY <1>1, ValuesGrow DEF Types
<1>4. op' = [op EXCEPT ![o] = [kind |-> kind, st |-> "wrote", v |-> row']]
  BY <1>1 DEF Modify
<1>5. [kind |-> kind, st |-> "wrote", v |-> row'] \in Operations'
  BY <1>1 DEF Operations, Values, Types, TableOK
<1>6. OpsOK'
  BY <1>3, <1>4, <1>5, OpSet DEF Types
<1> QED BY <1>1, <1>2, <1>3, <1>4, <1>6 DEF Types, OpsOK

LEMMA Put ==
  ASSUME Types, row' = row, NEW p \in Processes, NEW v \in Values, PutCache(p, v), UNCHANGED l1
  PROVE  /\ CachesOK' /\ WireOK'
         /\ wire' = [wire EXCEPT ![p] = Append(@, Message("put", v))]
<1>1. Message("put", v) \in Gets \cup Rest
  BY DEF Message, Rest
<1>2. WireOK' /\ wire' = [wire EXCEPT ![p] = Append(@, Message("put", v))]
  BY <1>1, Sent DEF PutCache, Types
<1>3. Values' = Values /\ Entry(v, Ttl2) \in [v : Values, ttl : 0..Ttl2]
  BY CacheAssumption DEF Entry, Values
<1>4. CachesOK'
  BY <1>3 DEF Types, CachesOK, PutCache
<1> QED BY <1>2, <1>4

LEMMA TableStays ==
  ASSUME TableOK, UNCHANGED <<table, writes>>
  PROVE  TableOK' /\ row' = row /\ Values' = Values
BY DEF TableOK, table, Values

\* What a message is, and what is left behind it.
LEMMA First ==
  ASSUME WireOK, NEW p \in Processes, wire[p] # <<>>
  PROVE  /\ Head(wire[p]) \in Gets \cup Rest
         /\ Tail(wire[p]) \in Seq(Gets \cup Rest)
         /\ Head(wire[p]).kind \in {"get", "put", "del", "void"}
<1>1. wire[p] \in Seq(Gets \cup Rest)
  BY DEF WireOK
<1>2. Head(wire[p]) \in Gets \cup Rest /\ Tail(wire[p]) \in Seq(Gets \cup Rest)
  BY <1>1
<1> QED BY <1>2 DEF Gets, Rest

LEMMA OthersStep == Types /\ [Next]_vars => OthersOK'
<1> SUFFICES ASSUME Types, [Next]_vars PROVE OthersOK'
  OBVIOUS
<1>1. faults' = faults \/ (faults > 0 /\ faults' = faults - 1)
  <2>1. ASSUME NEW o \in Slots PROVE
          /\ Begin(o) \/ Hit(o) \/ Miss(o) \/ FinishGet(o) \/ FinishWrite(o) \/ Touch(o) => faults' = faults
          /\ FailRead(o) \/ FailWrite(o) => faults > 0 /\ faults' = faults - 1
    BY DEF Begin, Hit, Miss, FinishGet, FinishWrite, Touch, FailRead, FailWrite, bounds
  <2>2. ASSUME NEW p \in Processes PROVE
          /\ Deliver(p) => faults' = faults
          /\ Crash(p) => faults > 0 /\ faults' = faults - 1
    BY DEF Deliver, Crash, bounds
  <2>3. Evict \/ Tick \/ UNCHANGED vars => faults' = faults
    BY DEF Evict, Tick, vars, bounds
  <2> QED BY <2>1, <2>2, <2>3 DEF Next
<1>2. faults' \in 0..Faults
  BY <1>1, CacheAssumption DEF Types, OthersOK
<1>3. late' = late \/ late' \in BOOLEAN
  <2>1. ASSUME NEW p \in Processes, Deliver(p) PROVE late' = late \/ late' \in BOOLEAN
    <3>1. Head(wire[p]).kind \in {"get", "put", "del", "void"}
      BY <2>1, First DEF Deliver, Types
    <3> QED BY <2>1, <3>1, Zenon DEF Deliver
  <2>2. ASSUME NEW o \in Slots PROVE
          Begin(o) \/ Hit(o) \/ Miss(o) \/ FinishGet(o) \/ FinishWrite(o) \/ Touch(o)
            \/ FailRead(o) \/ FailWrite(o) => late' = late
    BY Zenon DEF Begin, Hit, Miss, FinishGet, FinishWrite, Touch, FailRead, FailWrite
  <2>3. ASSUME NEW p \in Processes PROVE Crash(p) => late' = late
    BY Zenon DEF Crash
  <2>4. Evict \/ Tick \/ UNCHANGED vars => late' = late
    BY Zenon DEF Evict, Tick, vars
  <2> QED BY <2>1, <2>2, <2>3, <2>4, Zenon DEF Next
<1>4. lost' = lost \/ lost' \in BOOLEAN
  <2>1. ASSUME NEW o \in Slots PROVE
          /\ Begin(o) \/ Hit(o) \/ Miss(o) \/ FinishGet(o) \/ FinishWrite(o) \/ Touch(o) \/ FailRead(o) => lost' = lost
          /\ FailWrite(o) => lost' = TRUE
    BY Zenon DEF Begin, Hit, Miss, FinishGet, FinishWrite, Touch, FailRead, FailWrite
  <2>2. ASSUME NEW p \in Processes PROVE
          /\ Deliver(p) => lost' = lost
          /\ Crash(p) => lost' \in BOOLEAN
    BY Zenon DEF Deliver, Crash
  <2>3. Evict \/ Tick \/ UNCHANGED vars => lost' = lost
    BY Zenon DEF Evict, Tick, vars
  <2> QED BY <2>1, <2>2, <2>3, Zenon DEF Next
<1>5. late' \in BOOLEAN /\ lost' \in BOOLEAN
  BY <1>3, <1>4, Zenon DEF Types, OthersOK
<1>6. cacheTtl' = cacheTtl
  <2>1. ASSUME NEW o \in Slots PROVE
          Begin(o) \/ Hit(o) \/ Miss(o) \/ FinishGet(o) \/ FinishWrite(o) \/ Touch(o)
            \/ FailRead(o) \/ FailWrite(o) => cacheTtl' = cacheTtl
    BY DEF Begin, Hit, Miss, FinishGet, FinishWrite, Touch, FailRead, FailWrite
  <2>2. ASSUME NEW p \in Processes PROVE Deliver(p) \/ Crash(p) => cacheTtl' = cacheTtl
    BY DEF Deliver, Crash
  <2>3. Evict \/ Tick \/ UNCHANGED vars => cacheTtl' = cacheTtl
    BY DEF Evict, Tick, vars
  <2> QED BY <2>1, <2>2, <2>3 DEF Next
<1>7. cacheTtl' \in {Never, Ttl}
  BY <1>6 DEF Types, OthersOK
<1> QED BY <1>2, <1>5, <1>7, Zenon DEF OthersOK

-----------------------------------------------------------------------------
Parts == TableOK /\ CachesOK /\ WireOK /\ OpsOK

LEMMA HomeType == ASSUME NEW o \in Slots PROVE Home[o] \in Processes
BY CacheAssumption

\* What a step may do to the state without bringing the shared cache out of date.
LEMMA Keeps ==
  ASSUME Types, Invalidated, row' = row, ~lost' => ~lost, ~late' => ~late,
         l1' = NoEntry \/ (l1 # NoEntry /\ l1'.v = l1.v),
         \A o \in Slots : op[o].st = "wrote" => op'[o] = op[o],
         \A p \in Processes : \A i \in DOMAIN wire[p] :
            wire[p][i].kind \in {"put", "del"} => \E j \in DOMAIN wire'[p] : wire'[p][j] = wire[p][i]
  PROVE  Invalidated'
<1> SUFFICES ASSUME ~lost', ~late', l1' # NoEntry, l1'.v # row'
             PROVE  (\E p \in Processes : Replacing(p, l1.v))'
  BY Zenon DEF Invalidated
<1>0. ~lost /\ ~late /\ l1 # NoEntry /\ l1.v # row /\ l1'.v = l1.v
  BY Zenon DEF NoEntry
<1>1. PICK p \in Processes : Replacing(p, l1.v)
  BY <1>0, Zenon DEF Invalidated
<1>2. CASE \E o \in Slots : Home[o] = p /\ op[o].st = "wrote" /\ op[o].v > l1.v
  <2>1. PICK o \in Slots : Home[o] = p /\ op[o].st = "wrote" /\ op[o].v > l1.v
    BY <1>2
  <2> QED BY <1>0, <2>1 DEF Replacing
<1>3. CASE \E i \in DOMAIN wire[p] : wire[p][i].kind = "del" \/ (wire[p][i].kind = "put" /\ wire[p][i].v > l1.v)
  <2>1. PICK i \in DOMAIN wire[p] : wire[p][i].kind = "del" \/ (wire[p][i].kind = "put" /\ wire[p][i].v > l1.v)
    BY <1>3
  <2>2. PICK j \in DOMAIN wire'[p] : wire'[p][j] = wire[p][i]
    BY <2>1
  <2> QED BY <1>0, <2>1, <2>2 DEF Replacing
<1> QED BY <1>1, <1>2, <1>3 DEF Replacing

LEMMA Appended ==
  ASSUME WireOK, NEW p \in Processes, NEW m, wire' = [wire EXCEPT ![p] = Append(@, m)]
  PROVE  /\ \A q \in Processes : \A i \in DOMAIN wire[q] :
               i \in DOMAIN wire'[q] /\ wire'[q][i] = wire[q][i]
         /\ \E i \in DOMAIN wire'[p] : wire'[p][i] = m
<1>1. \A q \in Processes : wire[q] \in Seq(Gets \cup Rest)
  BY DEF WireOK
<1>2. wire'[p] = Append(wire[p], m) /\ \A q \in Processes : q # p => wire'[q] = wire[q]
  BY DEF WireOK
<1>3. \A i \in DOMAIN wire[p] : i \in DOMAIN wire'[p] /\ wire'[p][i] = wire[p][i]
  BY <1>1, <1>2
<1>4. Len(wire[p]) + 1 \in DOMAIN wire'[p] /\ wire'[p][Len(wire[p]) + 1] = m
  BY <1>1, <1>2
<1> QED BY <1>2, <1>3, <1>4

\* A statement that takes effect: its operation is the one that replaces the old row.
LEMMA WrittenInvalidates ==
  ASSUME Types, Invalidated, NEW o \in Slots, NEW kind \in Writing, Modify(o, kind),
         l1' = l1, wire' = wire
  PROVE  Invalidated'
<1>1. row' = row + 1 /\ op'[o].st = "wrote" /\ op'[o].v = row'
  BY Written
<1>2. row \in Nat /\ l1.v \in Int /\ l1.v <= row
  BY DEF Types, TableOK, CachesOK, Values, Nothing
<1>3. op'[o].v > l1'.v
  BY <1>1, <1>2
<1>4. Replacing(Home[o], l1.v)'
  BY <1>1, <1>3 DEF Replacing
<1> QED BY <1>4, HomeType, Zenon DEF Invalidated

LEMMA PutKeeps ==
  ASSUME Types, Invalidated, row' = row, ~lost' => ~lost, ~late' => ~late, l1' = l1,
         NEW p \in Processes, NEW m, wire' = [wire EXCEPT ![p] = Append(@, m)],
         \A o \in Slots : op[o].st = "wrote" => op'[o] = op[o]
  PROVE  Invalidated'
<1>1. \A q \in Processes : \A i \in DOMAIN wire[q] :
        i \in DOMAIN wire'[q] /\ wire'[q][i] = wire[q][i]
  BY Appended DEF Types
<1> QED BY <1>1, Keeps

-----------------------------------------------------------------------------
(* A get that is under way is the only one of its operation, which waits for it. *)

Waiting ==
  \A p \in Processes : \A i \in DOMAIN wire[p] : wire[p][i].kind = "get" =>
    /\ Home[wire[p][i].v] = p /\ op[wire[p][i].v].st = "asking"
    /\ \A j \in DOMAIN wire[p] : wire[p][j].kind = "get" /\ wire[p][j].v = wire[p][i].v => i = j

LEMMA WaitingInit == Init => Waiting
BY DEF Init, Waiting

\* Most steps add no get and do not touch operations that wait.
LEMMA WaitingStays ==
  ASSUME Types, Waiting, \A o \in Slots : op[o].st = "asking" => op'[o].st = "asking",
         \/ wire' = wire
         \/ \E p \in Processes : \E m : m.kind # "get" /\ wire' = [wire EXCEPT ![p] = Append(@, m)]
  PROVE  Waiting'
<1>1. \A q \in Processes : wire[q] \in Seq(Gets \cup Rest)
  BY DEF Types, WireOK
<1>2. \A q \in Processes : \A i \in DOMAIN wire'[q] :
        wire'[q][i].kind = "get" => i \in DOMAIN wire[q] /\ wire'[q][i] = wire[q][i]
  <2>1. CASE wire' = wire
    BY <2>1
  <2>2. ASSUME NEW p \in Processes, NEW m, m.kind # "get", wire' = [wire EXCEPT ![p] = Append(@, m)],
               NEW q \in Processes, NEW i \in DOMAIN wire'[q], wire'[q][i].kind = "get"
        PROVE  i \in DOMAIN wire[q] /\ wire'[q][i] = wire[q][i]
    <3>1. CASE q # p
      BY <2>2, <3>1 DEF Types, WireOK
    <3>2. CASE q = p
      <4>1. wire'[q] = Append(wire[q], m)
        BY <2>2, <3>2 DEF Types, WireOK
      <4>2. i \in 1..(Len(wire[q]) + 1)
        BY <1>1, <4>1
      <4>3. i # Len(wire[q]) + 1
        BY <1>1, <2>2, <4>1
      <4> QED BY <1>1, <4>1, <4>2, <4>3
    <3> QED BY <3>1, <3>2
  <2> QED BY <2>1, <2>2
<1>3. \A q \in Processes : \A i \in DOMAIN wire[q] : wire[q][i].kind = "get" => wire[q][i].v \in Slots
  BY <1>1 DEF Gets, Rest
<1> QED BY <1>2, <1>3 DEF Waiting

-----------------------------------------------------------------------------
(* One lemma for each action. *)

StepOK == Parts' /\ Invalidated'

LEMMA BeginStep ==
  ASSUME Types, Invalidated, NEW o \in Slots, Begin(o)
  PROVE  StepOK
<1>1. Home[o] \in Processes /\ op[o].st = "idle"
  BY HomeType DEF Begin, Idle
<1>2. CASE (\E kind \in Writing : Modify(o, kind)) /\ UNCHANGED wire
  <2>1. PICK kind \in Writing : Modify(o, kind)
    BY <1>2
  <2>2. l1' = l1 /\ l2' = l2 /\ wire' = wire
    BY <1>2 DEF Begin
  <2>3. TableOK' /\ OpsOK' /\ Values \subseteq Values'
    BY <2>1, Written
  <2>4. CachesOK' /\ WireOK'
    BY <2>2, <2>3, CachesStay, WireStays DEF Types
  <2>5. Invalidated'
    BY <2>1, <2>2, WrittenInvalidates
  <2> QED BY <2>3, <2>4, <2>5 DEF StepOK, Parts
<1>3. CASE (\E kind \in Reading : Get(o, kind)) /\ UNCHANGED <<table, writes>>
  <2>1. PICK kind \in Reading : Get(o, kind)
    BY <1>3
  <2>2. TableOK' /\ row' = row /\ Values' = Values
    BY <1>3, TableStays DEF Types
  <2>3. CachesOK'
    BY <2>2, CachesStay DEF Begin, Types
  <2>4. (~lost' => ~lost) /\ (~late' => ~late) /\ l1' = l1
    BY Zenon DEF Begin
  <2>5. CASE l2[Home[o]] # NoEntry
    <3>1. wire' = wire
      BY <2>1, <2>5 DEF Get
    <3>2. \E x \in Operations' : op' = [op EXCEPT ![o] = x]
      <4>1. l2[Home[o]].v \in Values'
        BY <1>1, <2>2 DEF Types, CachesOK
      <4>2. CASE kind = "get"
        <5>1. op' = [op EXCEPT ![o] = Idle]
          BY <2>1, <2>5, <4>2 DEF Get
        <5>2. Idle \in Operations'
          BY DEF Idle, Operations, Reading, Values
        <5> QED BY <5>1, <5>2
      <4>3. CASE kind # "get"
        <5>1. op' = [op EXCEPT ![o] = [kind |-> kind, st |-> "touching", v |-> l2[Home[o]].v]]
          BY <2>1, <2>5, <4>3 DEF Get
        <5>2. [kind |-> kind, st |-> "touching", v |-> l2[Home[o]].v] \in Operations'
          BY <4>1 DEF Operations
        <5> QED BY <5>1, <5>2
      <4> QED BY <4>2, <4>3
    <3>3. OpsOK'
      BY <2>2, <3>2, OpSet DEF Types
    <3>4. WireOK'
      BY <2>2, <3>1, WireStays DEF Types
    <3>5. \A d \in Slots : op[d].st = "wrote" => op'[d] = op[d]
      BY <1>1, <3>2 DEF Types, OpsOK
    <3>6. Invalidated'
      BY <2>2, <2>4, <3>1, <3>5, Keeps
    <3> QED BY <2>2, <2>3, <3>3, <3>4, <3>6 DEF StepOK, Parts
  <2>6. CASE l2[Home[o]] = NoEntry
    <3>1. Send(Home[o], Message("get", o)) /\ op' = [op EXCEPT ![o] = [kind |-> kind, st |-> "asking", v |-> Nothing]]
      BY <2>1, <2>6 DEF Get
    <3>2. Message("get", o) \in Gets \cup Rest
      BY DEF Message, Gets
    <3>3. WireOK' /\ wire' = [wire EXCEPT ![Home[o]] = Append(@, Message("get", o))]
      BY <1>1, <2>2, <3>1, <3>2, Sent DEF Types
    <3>4. [kind |-> kind, st |-> "asking", v |-> Nothing] \in Operations'
      BY DEF Operations, Values
    <3>5. OpsOK'
      BY <2>2, <3>1, <3>4, OpSet DEF Types
    <3>6. \A d \in Slots : op[d].st = "wrote" => op'[d] = op[d]
      BY <1>1, <3>1 DEF Types, OpsOK
    <3>7. Invalidated'
      BY <1>1, <2>2, <2>4, <3>3, <3>6, PutKeeps
    <3> QED BY <2>2, <2>3, <3>3, <3>5, <3>7 DEF StepOK, Parts
  <2> QED BY <2>5, <2>6
<1> QED BY <1>2, <1>3 DEF Begin

LEMMA DeliverStep ==
  ASSUME Types, Invalidated, Waiting, NEW p \in Processes, Deliver(p)
  PROVE  StepOK
<1> DEFINE m == Head(wire[p])
<1>1. m \in Gets \cup Rest /\ Tail(wire[p]) \in Seq(Gets \cup Rest) /\ m.kind \in {"get", "put", "del", "void"}
  BY First DEF Deliver, Types
<1>2. TableOK' /\ row' = row /\ Values' = Values
  <2>1. UNCHANGED <<table, writes>>
    BY DEF Deliver, bounds
  <2> QED BY <2>1, TableStays DEF Types
<1>3. wire' = [wire EXCEPT ![p] = Tail(@)] /\ wire[p] # <<>> /\ l2' = l2
  BY DEF Deliver
<1>4. WireOK'
  <2>1. (Gets \cup Rest)' = Gets \cup Rest
    BY <1>2 DEF Gets, Rest
  <2> QED BY <1>1, <1>3, <2>1 DEF Types, WireOK
<1>5. ~lost' => ~lost
  BY Zenon DEF Deliver
<1>6. ASSUME NEW q \in Processes, NEW i \in DOMAIN wire[q], q # p \/ m.kind \notin {"put", "del"},
             wire[q][i].kind \in {"put", "del"}
      PROVE  \E j \in DOMAIN wire'[q] : wire'[q][j] = wire[q][i]
  <2>1. CASE q # p
    BY <1>3, <2>1 DEF Types, WireOK
  <2>2. CASE q = p
    <3>1. wire[p] \in Seq(Gets \cup Rest) /\ wire'[p] = Tail(wire[p]) /\ wire[p] # <<>>
      BY <1>3 DEF Types, WireOK
    <3>2. i \in 1..Len(wire[p]) /\ i # 1
      BY <1>6, <2>2, <3>1
    <3>3. i - 1 \in DOMAIN wire'[p] /\ wire'[p][i - 1] = wire[p][i]
      BY <3>1, <3>2
    <3> QED BY <2>2, <3>3
  <2> QED BY <2>1, <2>2
<1>7. CASE m.kind = "get"
  <2>1. m.v \in Slots
    BY <1>1, <1>7 DEF Gets, Rest
  <2>2. /\ op' = [op EXCEPT ![m.v] = [@ EXCEPT !.st = "answered", !.v = l1.v]]
        /\ l1' = l1
    BY <1>7 DEF Deliver
  <2>3. ~late' => ~late
    BY <1>7, Zenon DEF Deliver
  <2>4. op[m.v].st = "asking"
    <3>1. 1 \in DOMAIN wire[p] /\ wire[p][1] = m
      BY <1>3 DEF Types, WireOK
    <3> QED BY <1>7, <3>1 DEF Waiting
  <2>5. CachesOK'
    BY <1>2, <1>3, <2>2, CachesStay DEF Types
  <2>6. OpsOK'
    <3>1. op[m.v] \in Operations /\ l1.v \in Values
      BY <2>1 DEF Types, OpsOK, CachesOK
    <3>2. [op[m.v] EXCEPT !.st = "answered", !.v = l1.v] \in Operations
      BY <3>1 DEF Operations
    <3>3. Operations' = Operations
      BY <1>2 DEF Operations
    <3> QED BY <1>2, <2>1, <2>2, <3>2, <3>3, OpSet DEF Types
  <2>7. \A d \in Slots : op[d].st = "wrote" => op'[d] = op[d]
    BY <2>1, <2>2, <2>4 DEF Types, OpsOK
  <2>8. Invalidated'
    BY <1>2, <1>5, <1>6, <1>7, <2>2, <2>3, <2>7, Keeps
  <2> QED BY <1>2, <1>4, <2>5, <2>6, <2>8 DEF StepOK, Parts
<1>8. CASE m.kind = "put"
  <2>1. l1' = Entry(m.v, cacheTtl) /\ op' = op /\ cacheTtl \in 0..Ttl
    <3>1. l1' = Entry(m.v, cacheTtl) /\ op' = op
      BY <1>8 DEF Deliver
    <3>2. cacheTtl \in 0..Ttl
      <4>1. cacheTtl \in {Never, Ttl}
        BY DEF Types, OthersOK
      <4>2. Never \in 0..Ttl /\ Ttl \in 0..Ttl
        BY CacheAssumption DEF Never
      <4> QED BY <4>1, <4>2
    <3> QED BY <3>1, <3>2
  <2>2. m.v \in Values
    BY <1>1, <1>8 DEF Gets, Rest
  <2>3. CachesOK'
    BY <1>2, <1>3, <2>1, <2>2, CacheAssumption DEF Types, CachesOK, Entry
  <2>4. OpsOK'
    BY <1>2, <2>1, OpsStay DEF Types
  <2>5. ~late' => m.v = row
    BY <1>8, Zenon DEF Deliver
  <2>6. ~late' => l1'.v = row'
    BY <1>2, <2>1, <2>5 DEF Entry
  <2>7. Invalidated'
    BY <2>6, Zenon DEF Invalidated
  <2> QED BY <1>2, <1>4, <2>3, <2>4, <2>7 DEF StepOK, Parts
<1>9. CASE m.kind = "del"
  <2>1. l1' = NoEntry /\ op' = op
    BY <1>9 DEF Deliver
  <2>2. CachesOK'
    BY <1>2, <1>3, <2>1, CacheAssumption DEF Types, CachesOK, NoEntry, Values
  <2>3. OpsOK'
    BY <1>2, <2>1, OpsStay DEF Types
  <2>4. Invalidated'
    BY <2>1, Zenon DEF Invalidated, NoEntry
  <2> QED BY <1>2, <1>4, <2>2, <2>3, <2>4 DEF StepOK, Parts
<1>10. CASE m.kind = "void"
  <2>1. l1' = l1 /\ op' = op
    BY <1>10 DEF Deliver
  <2>2. ~late' => ~late
    BY <1>10, Zenon DEF Deliver
  <2>3. CachesOK' /\ OpsOK'
    BY <1>2, <1>3, <2>1, CachesStay, OpsStay DEF Types
  <2>4. Invalidated'
    BY <1>2, <1>5, <1>6, <1>10, <2>1, <2>2, Keeps
  <2> QED BY <1>2, <1>4, <2>3, <2>4 DEF StepOK, Parts
<1> QED BY <1>1, <1>7, <1>8, <1>9, <1>10

LEMMA HitStep ==
  ASSUME Types, Invalidated, NEW o \in Slots, Hit(o)
  PROVE  StepOK
<1>1. op[o].st = "answered" /\ Home[o] \in Processes /\ op[o] \in Operations
  BY HomeType DEF Hit, Types, OpsOK
<1>2. TableOK' /\ row' = row /\ Values' = Values
  <2>1. UNCHANGED <<table, writes>>
    BY DEF Hit, bounds
  <2> QED BY <2>1, TableStays DEF Types
<1>3. l1' = l1 /\ wire' = wire /\ l2' = [l2 EXCEPT ![Home[o]] = Entry(op[o].v, Ttl2)]
  BY DEF Hit
<1>4. op[o].v \in Values
  BY <1>1 DEF Operations
<1>5. CachesOK'
  <2>1. Entry(op[o].v, Ttl2) \in [v : Values, ttl : 0..Ttl2]
    BY <1>4, CacheAssumption DEF Entry
  <2> QED BY <1>1, <1>2, <1>3, <2>1 DEF Types, CachesOK
<1>6. WireOK'
  BY <1>2, <1>3, WireStays DEF Types
<1>7. OpsOK' /\ \A d \in Slots : op[d].st = "wrote" => op'[d] = op[d]
  BY <1>1, <1>2, <1>4, GotOp DEF Hit, Types
<1>8. (~lost' => ~lost) /\ (~late' => ~late)
  BY Zenon DEF Hit
<1>9. Invalidated'
  BY <1>2, <1>3, <1>7, <1>8, Keeps
<1> QED BY <1>2, <1>5, <1>6, <1>7, <1>9 DEF StepOK, Parts

LEMMA FinishGetStep ==
  ASSUME Types, Invalidated, NEW o \in Slots, FinishGet(o)
  PROVE  StepOK
<1>1. op[o].st = "read" /\ Home[o] \in Processes /\ op[o] \in Operations
  BY HomeType DEF FinishGet, Types, OpsOK
<1>2. TableOK' /\ row' = row /\ Values' = Values
  <2>1. UNCHANGED <<table, writes>>
    BY DEF FinishGet, bounds
  <2> QED BY <2>1, TableStays DEF Types
<1>3. op[o].v \in Values
  BY <1>1 DEF Operations
<1>4. CachesOK' /\ WireOK' /\ wire' = [wire EXCEPT ![Home[o]] = Append(@, Message("put", op[o].v))]
  BY <1>1, <1>2, <1>3, Put DEF FinishGet
<1>5. OpsOK' /\ \A d \in Slots : op[d].st = "wrote" => op'[d] = op[d]
  BY <1>1, <1>2, <1>3, GotOp DEF FinishGet, Types
<1>6. (~lost' => ~lost) /\ (~late' => ~late) /\ l1' = l1
  BY Zenon DEF FinishGet
<1>7. Invalidated'
  BY <1>1, <1>2, <1>4, <1>5, <1>6, PutKeeps
<1> QED BY <1>2, <1>4, <1>5, <1>7 DEF StepOK, Parts

LEMMA MissStep ==
  ASSUME Types, Invalidated, NEW o \in Slots, Miss(o)
  PROVE  StepOK
<1>1. op[o].st = "answered" /\ op[o] \in Operations
  BY DEF Miss, Types, OpsOK
<1>2. TableOK' /\ row' = row /\ Values' = Values
  <2>1. UNCHANGED <<table, writes>>
    BY DEF Miss, bounds
  <2> QED BY <2>1, TableStays DEF Types
<1>3. l1' = l1 /\ l2' = l2 /\ wire' = wire /\ op' = [op EXCEPT ![o] = [@ EXCEPT !.st = "read", !.v = row]]
  BY DEF Miss
<1>4. [op[o] EXCEPT !.st = "read", !.v = row] \in Operations /\ Operations' = Operations
  <2>1. row \in Values
    BY DEF Values, Types, TableOK
  <2> QED BY <1>1, <1>2, <2>1 DEF Operations
<1>5. OpsOK'
  BY <1>2, <1>3, <1>4, OpSet DEF Types
<1>6. CachesOK' /\ WireOK'
  BY <1>2, <1>3, CachesStay, WireStays DEF Types
<1>7. \A d \in Slots : op[d].st = "wrote" => op'[d] = op[d]
  BY <1>1, <1>3 DEF Types, OpsOK
<1>8. (~lost' => ~lost) /\ (~late' => ~late)
  BY Zenon DEF Miss
<1>9. Invalidated'
  BY <1>2, <1>3, <1>7, <1>8, Keeps
<1> QED BY <1>2, <1>5, <1>6, <1>9 DEF StepOK, Parts

LEMMA FailStep ==
  ASSUME Types, Invalidated, NEW o \in Slots, FailRead(o) \/ FailWrite(o)
  PROVE  StepOK
<1>1. TableOK' /\ row' = row /\ Values' = Values
  <2>1. UNCHANGED <<table, writes>>
    BY DEF FailRead, FailWrite
  <2> QED BY <2>1, TableStays DEF Types
<1>2. l1' = l1 /\ l2' = l2 /\ wire' = wire /\ op' = [op EXCEPT ![o] = Idle]
  BY DEF FailRead, FailWrite
<1>3. CachesOK' /\ WireOK'
  BY <1>1, <1>2, CachesStay, WireStays DEF Types
<1>4. OpsOK'
  BY <1>1, <1>2, IdleOp, OpSet DEF Types
<1>5. CASE FailRead(o)
  <2>1. \A d \in Slots : op[d].st = "wrote" => op'[d] = op[d]
    BY <1>2, <1>5 DEF FailRead, Types, OpsOK
  <2>2. (~lost' => ~lost) /\ (~late' => ~late)
    BY <1>5, Zenon DEF FailRead
  <2>3. Invalidated'
    BY <1>1, <1>2, <2>1, <2>2, Keeps
  <2> QED BY <1>1, <1>3, <1>4, <2>3 DEF StepOK, Parts
<1>6. CASE FailWrite(o)
  <2>1. Invalidated'
    BY <1>6, Zenon DEF FailWrite, Invalidated
  <2> QED BY <1>1, <1>3, <1>4, <2>1 DEF StepOK, Parts
<1> QED BY <1>5, <1>6

\* The message takes over from the operation that wrote.
LEMMA FinishWriteStep ==
  ASSUME Types, Invalidated, NEW o \in Slots, FinishWrite(o)
  PROVE  StepOK
<1> DEFINE m == IF op[o].kind = "returning" THEN Message("put", op[o].v) ELSE Message("del", Nothing)
<1>1. op[o].st = "wrote" /\ Home[o] \in Processes /\ op[o] \in Operations /\ l1' = l1
  BY HomeType DEF FinishWrite, Types, OpsOK
<1>2. TableOK' /\ row' = row /\ Values' = Values
  <2>1. UNCHANGED <<table, writes>>
    BY DEF FinishWrite, bounds
  <2> QED BY <2>1, TableStays DEF Types
<1>3. OpsOK' /\ op' = [op EXCEPT ![o] = Idle]
  BY <1>2, IdleOp, OpSet DEF FinishWrite, Types
<1>4. CachesOK' /\ WireOK' /\ wire' = [wire EXCEPT ![Home[o]] = Append(@, m)]
  <2>1. CASE op[o].kind = "returning"
    <3>1. op[o].v \in Values /\ PutCache(Home[o], op[o].v)
      BY <1>1, <2>1 DEF FinishWrite, Operations
    <3> QED BY <1>1, <1>2, <2>1, <3>1, Put
  <2>2. CASE op[o].kind # "returning"
    <3>1. DelCache(Home[o])
      BY <2>2 DEF FinishWrite
    <3>2. Message("del", Nothing) \in Gets \cup Rest
      BY DEF Message, Rest, Values
    <3>3. WireOK' /\ wire' = [wire EXCEPT ![Home[o]] = Append(@, m)]
      BY <1>1, <1>2, <2>2, <3>1, <3>2, Sent DEF DelCache, Types
    <3>4. CachesOK'
      BY <1>1, <1>2, <3>1, CacheAssumption DEF DelCache, Types, CachesOK, NoEntry, Values
    <3> QED BY <3>3, <3>4
  <2> QED BY <2>1, <2>2
<1>5. Invalidated'
  <2> SUFFICES ASSUME ~lost', ~late', l1' # NoEntry, l1'.v # row'
               PROVE  (\E p \in Processes : Replacing(p, l1.v))'
    BY Zenon DEF Invalidated
  <2>1. ~lost /\ ~late /\ l1 # NoEntry /\ l1.v # row
    BY <1>1, <1>2, Zenon DEF FinishWrite, NoEntry
  <2>2. PICK p \in Processes : Replacing(p, l1.v)
    BY <2>1, Zenon DEF Invalidated
  <2>3. /\ \A q \in Processes : \A i \in DOMAIN wire[q] : i \in DOMAIN wire'[q] /\ wire'[q][i] = wire[q][i]
        /\ \E i \in DOMAIN wire'[Home[o]] : wire'[Home[o]][i] = m
    <3> HIDE DEF m
    <3>1. WireOK
      BY DEF Types
    <3> QED BY <1>1, <1>4, <3>1, Appended
  <2>4. CASE \E d \in Slots : Home[d] = p /\ op[d].st = "wrote" /\ op[d].v > l1.v
    <3>1. PICK d \in Slots : Home[d] = p /\ op[d].st = "wrote" /\ op[d].v > l1.v
      BY <2>4
    <3>2. CASE d # o
      <4>1. op'[d] = op[d]
        BY <1>3, <3>2 DEF Types, OpsOK
      <4> QED BY <1>1, <3>1, <4>1 DEF Replacing
    <3>3. CASE d = o
      <4>1. PICK i \in DOMAIN wire'[p] : wire'[p][i] = m
        BY <2>3, <3>1, <3>3
      <4>2. m.kind = "del" \/ (m.kind = "put" /\ m.v > l1.v)
        BY <3>1, <3>3 DEF Message
      <4> QED BY <1>1, <4>1, <4>2 DEF Replacing
    <3> QED BY <3>2, <3>3
  <2>5. CASE \E i \in DOMAIN wire[p] : wire[p][i].kind = "del" \/ (wire[p][i].kind = "put" /\ wire[p][i].v > l1.v)
    BY <1>1, <2>3, <2>5 DEF Replacing
  <2> QED BY <2>2, <2>4, <2>5 DEF Replacing
<1> QED BY <1>2, <1>3, <1>4, <1>5 DEF StepOK, Parts

LEMMA TouchStep ==
  ASSUME Types, Invalidated, NEW o \in Slots, Touch(o)
  PROVE  StepOK
<1>1. op[o].st = "touching" /\ Home[o] \in Processes /\ op[o] \in Operations /\ l1' = l1
  BY HomeType DEF Touch, Types, OpsOK
<1>2. (~lost' => ~lost) /\ (~late' => ~late)
  BY Zenon DEF Touch
<1>3. CASE Modify(o, "put") /\ UNCHANGED <<l2, wire>>
  <2>1. TableOK' /\ OpsOK' /\ Values \subseteq Values'
    BY <1>3, Written DEF Writing
  <2>2. CachesOK' /\ WireOK'
    BY <1>1, <1>3, <2>1, CachesStay, WireStays DEF Types
  <2>3. Invalidated'
    BY <1>1, <1>3, WrittenInvalidates DEF Writing
  <2> QED BY <2>1, <2>2, <2>3 DEF StepOK, Parts
<1>4. ASSUME op' = [op EXCEPT ![o] = Idle], UNCHANGED <<table, writes>>,
             (CachesOK' /\ WireOK' /\ wire' = [wire EXCEPT ![Home[o]] = Append(@, Message("put", op[o].v))])
               \/ UNCHANGED <<l2, wire>>
      PROVE  StepOK
  <2>1. TableOK' /\ row' = row /\ Values' = Values
    BY <1>4, TableStays DEF Types
  <2>2. OpsOK'
    BY <1>4, <2>1, IdleOp, OpSet DEF Types
  <2>3. \A d \in Slots : op[d].st = "wrote" => op'[d] = op[d]
    BY <1>1, <1>4 DEF Types, OpsOK
  <2>4. CASE UNCHANGED <<l2, wire>>
    <3>1. CachesOK' /\ WireOK'
      BY <1>1, <2>1, <2>4, CachesStay, WireStays DEF Types
    <3>2. Invalidated'
      BY <1>1, <1>2, <2>1, <2>3, <2>4, Keeps
    <3> QED BY <2>1, <2>2, <3>1, <3>2 DEF StepOK, Parts
  <2>5. CASE CachesOK' /\ WireOK' /\ wire' = [wire EXCEPT ![Home[o]] = Append(@, Message("put", op[o].v))]
    <3>1. Invalidated'
      BY <1>1, <1>2, <2>1, <2>3, <2>5, PutKeeps
    <3> QED BY <2>1, <2>2, <2>5, <3>1 DEF StepOK, Parts
  <2> QED BY <1>4, <2>4, <2>5
<1>5. CASE Hot(op[o].v)
  <2>1. PutCache(Home[o], op[o].v) /\ op' = [op EXCEPT ![o] = Idle] /\ UNCHANGED <<table, writes>>
    BY <1>5 DEF Touch
  <2>2. op[o].v \in Values /\ row' = row
    BY <1>1, <2>1 DEF Operations, table
  <2>3. CachesOK' /\ WireOK' /\ wire' = [wire EXCEPT ![Home[o]] = Append(@, Message("put", op[o].v))]
    BY <1>1, <2>1, <2>2, Put
  <2> QED BY <1>4, <2>1, <2>3
<1>6. CASE ~Hot(op[o].v)
  <2>1. UNCHANGED <<l2, wire>> /\ (Modify(o, "put") \/ (op' = [op EXCEPT ![o] = Idle] /\ UNCHANGED <<table, writes>>))
    BY <1>6 DEF Touch
  <2> QED BY <1>3, <1>4, <2>1
<1> QED BY <1>5, <1>6

\* Nothing is lost when the process had nothing to say.
LEMMA CrashStep ==
  ASSUME Types, Invalidated, NEW p \in Processes, Crash(p)
  PROVE  StepOK
<1>1. TableOK' /\ row' = row /\ Values' = Values
  <2>1. UNCHANGED <<table, writes>>
    BY DEF Crash
  <2> QED BY <2>1, TableStays DEF Types
<1>2. CachesOK'
  <2>1. NoEntry \in [v : Values, ttl : 0..Ttl2]
    BY CacheAssumption DEF NoEntry, Values
  <2>2. l1' = l1 /\ l2' = [l2 EXCEPT ![p] = NoEntry]
    BY DEF Crash
  <2> QED BY <1>1, <2>1, <2>2 DEF Types, CachesOK
<1>3. PICK n \in 0..Len(wire[p]) : wire' = [wire EXCEPT
        ![p] = [i \in 1..n |-> IF @[i].kind = "get" THEN Message("void", Nothing) ELSE @[i]]]
  BY DEF Crash
<1>4. wire[p] \in Seq(Gets \cup Rest)
  BY DEF Types, WireOK
<1>5. WireOK'
  <2>1. \A i \in 1..n : wire[p][i] \in Gets \cup Rest
    BY <1>4
  <2>2. Message("void", Nothing) \in Gets \cup Rest
    BY DEF Message, Rest, Values
  <2>3. wire'[p] = [i \in 1..n |-> IF wire[p][i].kind = "get" THEN Message("void", Nothing) ELSE wire[p][i]]
    BY <1>3 DEF Types, WireOK
  <2>4. wire'[p] \in Seq(Gets \cup Rest)
    BY <1>4, <2>1, <2>2, <2>3
  <2>5. (Gets \cup Rest)' = Gets \cup Rest
    BY <1>1 DEF Gets, Rest
  <2> QED BY <1>3, <2>3, <2>4, <2>5 DEF Types, WireOK
<1>6. op' = [o \in Slots |-> IF Home[o] = p THEN Idle ELSE op[o]]
  BY DEF Crash
<1>7. OpsOK'
  <2>1. Operations' = Operations
    BY <1>1 DEF Operations
  <2> QED BY <1>6, <2>1, IdleOp DEF Types, OpsOK
<1>8. Invalidated'
  <2>1. CASE lost'
    BY <2>1, Zenon DEF Invalidated
  <2>2. CASE ~lost'
    <3>1. ~lost /\ (~late' => ~late) /\ wire[p] = <<>> /\ ~\E o \in Slots : Home[o] = p /\ op[o].st = "wrote"
      BY <2>2, Zenon DEF Crash
    <3>2. \A q \in Processes : \A i \in DOMAIN wire[q] : i \in DOMAIN wire'[q] /\ wire'[q][i] = wire[q][i]
      BY <1>3, <3>1 DEF Types, WireOK
    <3>3. \A o \in Slots : op[o].st = "wrote" => op'[o] = op[o]
      BY <1>6, <3>1
    <3>4. l1' = l1
      BY DEF Crash
    <3> QED BY <1>1, <3>1, <3>2, <3>3, <3>4, Keeps
  <2> QED BY <2>1, <2>2, Zenon
<1> QED BY <1>1, <1>2, <1>5, <1>7, <1>8 DEF StepOK, Parts

LEMMA EvictStep == ASSUME Types, Invalidated, Evict PROVE StepOK
<1>1. TableOK' /\ row' = row /\ Values' = Values
  <2>1. UNCHANGED <<table, writes>>
    BY DEF Evict, bounds
  <2> QED BY <2>1, TableStays DEF Types
<1>2. wire' = wire /\ op' = op
  BY DEF Evict
<1>3. WireOK' /\ OpsOK'
  BY <1>1, <1>2, WireStays, OpsStay DEF Types
<1>4. CachesOK'
  <2>1. NoEntry \in [v : Values, ttl : 0..Ttl] /\ NoEntry \in [v : Values, ttl : 0..Ttl2]
    BY CacheAssumption DEF NoEntry, Values
  <2>2. l1' \in {l1, NoEntry} /\ (l2' = l2 \/ \E p \in Processes : l2' = [l2 EXCEPT ![p] = NoEntry])
    BY DEF Evict
  <2> QED BY <1>1, <2>1, <2>2 DEF Types, CachesOK
<1>5. (~lost' => ~lost) /\ (~late' => ~late) /\ l1' \in {l1, NoEntry}
  BY Zenon DEF Evict
<1>6. Invalidated'
  <2>1. CASE l1' = NoEntry
    BY <2>1, Zenon DEF Invalidated
  <2>2. CASE l1 # NoEntry /\ l1' = l1
    BY <1>1, <1>2, <1>5, <2>2, Keeps
  <2> QED BY <1>5, <2>1, <2>2
<1> QED BY <1>1, <1>3, <1>4, <1>6 DEF StepOK, Parts

LEMMA TickStep == ASSUME Types, Invalidated, Tick PROVE StepOK
<1>1. row' = row /\ writes' = writes /\ wire' = wire /\ op' = op /\ Values' = Values
  BY DEF Tick, bounds, Values
<1>2. TableOK'
  <2>1. age' = [n \in 0..Writes |-> IF age[n] < StatusInterval /\ n <= row THEN age[n] + 1 ELSE age[n]]
    BY DEF Tick
  <2> QED BY <1>1, <2>1, CacheAssumption DEF Types, TableOK
<1>3. WireOK' /\ OpsOK'
  BY <1>1, WireStays, OpsStay DEF Types
<1>4. ASSUME NEW t \in Nat, NEW e \in [v : Values, ttl : 0..t]
      PROVE  Older(e) \in [v : Values, ttl : 0..t]
  BY <1>4 DEF Older, NoEntry, Never, Values
<1>5. CachesOK'
  <2>1. l1' = Older(l1) /\ l2' = [p \in Processes |-> Older(l2[p])]
    BY DEF Tick
  <2> QED BY <1>1, <1>4, <2>1, CacheAssumption DEF Types, CachesOK
<1>6. (~lost' => ~lost) /\ (~late' => ~late)
  BY Zenon DEF Tick
<1>7. l1' = NoEntry \/ (l1 # NoEntry /\ l1'.v = l1.v)
  BY DEF Tick, Older, NoEntry, Never, Types, CachesOK
<1>8. Invalidated'
  BY <1>1, <1>6, <1>7, Keeps
<1> QED BY <1>2, <1>3, <1>5, <1>8 DEF StepOK, Parts

-----------------------------------------------------------------------------
(* The steps and the gets that are under way *)

LEMMA WaitingBegin ==
  ASSUME Types, Waiting, NEW o \in Slots, Begin(o)
  PROVE  Waiting'
<1>1. op[o].st = "idle"
  BY DEF Begin, Idle
<1>2. \A d \in Slots : d # o => op'[d] = op[d]
  BY DEF Begin, Get, Modify, Types, OpsOK
<1>3. CASE wire' = wire
  BY <1>1, <1>2, <1>3, WaitingStays
<1>4. CASE wire' # wire
  <2>1. PICK kind \in Reading : Get(o, kind)
    BY <1>4 DEF Begin
  <2>2. Send(Home[o], Message("get", o)) /\ op' = [op EXCEPT ![o] = [kind |-> kind, st |-> "asking", v |-> Nothing]]
    BY <1>4, <2>1 DEF Get
  <2>3. op'[o].st = "asking" /\ Message("get", o).v = o
    BY <2>2 DEF Types, OpsOK, Message
  <2>4. \A q \in Processes : wire[q] \in Seq(Gets \cup Rest)
    BY DEF Types, WireOK
  <2>5. /\ wire'[Home[o]] = Append(wire[Home[o]], Message("get", o))
        /\ \A q \in Processes : q # Home[o] => wire'[q] = wire[q]
    BY <2>2, HomeType DEF Send, Types, WireOK
  <2>6. \A q \in Processes : \A i \in DOMAIN wire[q] : wire[q][i].kind = "get" =>
          wire[q][i].v \in Slots /\ wire[q][i].v # o
    BY <1>1, <2>4 DEF Waiting, Gets, Rest
  <2>7. \A q \in Processes : \A i \in DOMAIN wire'[q] :
          \/ i \in DOMAIN wire[q] /\ wire'[q][i] = wire[q][i]
          \/ q = Home[o] /\ i = Len(wire[q]) + 1 /\ wire'[q][i] = Message("get", o)
    <3>1. ASSUME NEW i \in DOMAIN wire'[Home[o]], i # Len(wire[Home[o]]) + 1
          PROVE  i \in DOMAIN wire[Home[o]] /\ wire'[Home[o]][i] = wire[Home[o]][i]
      BY <2>4, <2>5, <3>1, HomeType
    <3>2. wire'[Home[o]][Len(wire[Home[o]]) + 1] = Message("get", o)
      BY <2>4, <2>5, HomeType
    <3> QED BY <2>5, <3>1, <3>2
  <2> QED BY <1>2, <2>3, <2>6, <2>7 DEF Waiting
<1> QED BY <1>3, <1>4

LEMMA WaitingDeliver ==
  ASSUME Types, Waiting, NEW p \in Processes, Deliver(p)
  PROVE  Waiting'
<1> DEFINE m == Head(wire[p])
           From(q, i) == IF q = p THEN i + 1 ELSE i
<1>1. m \in Gets \cup Rest /\ m.kind \in {"get", "put", "del", "void"}
  BY First DEF Deliver, Types
<1>2. wire' = [wire EXCEPT ![p] = Tail(@)] /\ wire[p] # <<>>
  BY DEF Deliver
<1>3. 1 \in DOMAIN wire[p] /\ wire[p][1] = m
  BY <1>2 DEF Types, WireOK
<1>4. ASSUME NEW q \in Processes, NEW i \in DOMAIN wire'[q]
      PROVE  i \in Nat \ {0} /\ From(q, i) \in DOMAIN wire[q] /\ wire'[q][i] = wire[q][From(q, i)]
  <2>1. wire[q] \in Seq(Gets \cup Rest)
    BY DEF Types, WireOK
  <2>2. CASE q = p
    <3>1. wire'[q] = Tail(wire[q]) /\ wire[q] # <<>>
      BY <1>2, <2>2 DEF Types, WireOK
    <3> QED BY <2>1, <2>2, <3>1
  <2>3. CASE q # p
    <3>1. wire'[q] = wire[q]
      BY <1>2, <2>3 DEF Types, WireOK
    <3> QED BY <2>1, <2>3, <3>1
  <2> QED BY <2>2, <2>3
<1>5. ASSUME NEW q \in Processes, NEW i \in DOMAIN wire'[q], wire'[q][i].kind = "get"
      PROVE  op'[wire'[q][i].v] = op[wire'[q][i].v]
  <2> DEFINE k == From(q, i)
  <2>1. i \in Nat \ {0} /\ k \in DOMAIN wire[q] /\ wire'[q][i] = wire[q][k] /\ wire[q][k].kind = "get"
    BY <1>4, <1>5
  <2>2. wire[q][k].v \in Slots /\ Home[wire[q][k].v] = q
    BY <2>1 DEF Waiting, Types, WireOK, Gets, Rest
  <2>3. CASE m.kind = "get"
    <3>1. op' = [op EXCEPT ![m.v] = [@ EXCEPT !.st = "answered", !.v = l1.v]]
      BY <2>3 DEF Deliver
    <3>2. Home[m.v] = p /\ \A j \in DOMAIN wire[p] : wire[p][j].kind = "get" /\ wire[p][j].v = m.v => 1 = j
      BY <1>3, <2>3 DEF Waiting
    <3>3. wire[q][k].v # m.v
      <4>1. CASE q = p
        BY <2>1, <3>2, <4>1
      <4>2. CASE q # p
        BY <2>2, <3>2, <4>2
      <4> QED BY <4>1, <4>2
    <3> QED BY <2>1, <2>2, <3>1, <3>3 DEF Types, OpsOK
  <2>4. CASE m.kind # "get"
    <3>1. op' = op
      BY <1>1, <2>4 DEF Deliver
    <3> QED BY <3>1
  <2> QED BY <2>3, <2>4
<1>6. ASSUME NEW q \in Processes, NEW i \in DOMAIN wire'[q], wire'[q][i].kind = "get"
      PROVE  /\ Home[wire'[q][i].v] = q /\ op'[wire'[q][i].v].st = "asking"
             /\ \A j \in DOMAIN wire'[q] :
                  wire'[q][j].kind = "get" /\ wire'[q][j].v = wire'[q][i].v => i = j
  <2>1. From(q, i) \in DOMAIN wire[q] /\ wire'[q][i] = wire[q][From(q, i)] /\ i \in Nat
    BY <1>4, <1>6
  <2>2. \A j \in DOMAIN wire'[q] : From(q, j) \in DOMAIN wire[q] /\ wire'[q][j] = wire[q][From(q, j)] /\ j \in Nat
    BY <1>4, <1>6
  <2>3. \A j \in DOMAIN wire'[q] :
          wire'[q][j].kind = "get" /\ wire'[q][j].v = wire'[q][i].v => From(q, i) = From(q, j)
    <3> HIDE DEF From
    <3> QED BY <1>6, <2>1, <2>2 DEF Waiting
  <2>4. Home[wire'[q][i].v] = q /\ op[wire'[q][i].v].st = "asking"
    <3> HIDE DEF From
    <3> QED BY <1>6, <2>1 DEF Waiting
  <2>5. op'[wire'[q][i].v] = op[wire'[q][i].v]
    BY <1>5, <1>6
  <2> QED BY <2>1, <2>2, <2>3, <2>4, <2>5
<1> QED BY <1>6 DEF Waiting

LEMMA WaitingCrash ==
  ASSUME Types, Waiting, NEW p \in Processes, Crash(p)
  PROVE  Waiting'
<1>1. PICK n \in 0..Len(wire[p]) : wire' = [wire EXCEPT
        ![p] = [i \in 1..n |-> IF @[i].kind = "get" THEN Message("void", Nothing) ELSE @[i]]]
  BY DEF Crash
<1>2. wire'[p] = [i \in 1..n |-> IF wire[p][i].kind = "get" THEN Message("void", Nothing) ELSE wire[p][i]]
  BY <1>1 DEF Types, WireOK
<1>3. \A i \in DOMAIN wire'[p] : wire'[p][i].kind # "get"
  BY <1>2 DEF Message
<1>4. \A q \in Processes : q # p => wire'[q] = wire[q]
  BY <1>1 DEF Types, WireOK
<1>5. \A o \in Slots : Home[o] # p => op'[o] = op[o]
  BY DEF Crash
<1>6. \A q \in Processes : \A i \in DOMAIN wire[q] : wire[q][i].kind = "get" => wire[q][i].v \in Slots
  BY DEF Types, WireOK, Gets, Rest
<1> QED BY <1>3, <1>4, <1>5, <1>6 DEF Waiting

LEMMA WaitingStep == Types /\ Waiting /\ [Next]_vars => Waiting'
<1> SUFFICES ASSUME Types, Waiting, [Next]_vars PROVE Waiting'
  OBVIOUS
<1>1. ASSUME NEW o \in Slots, Hit(o) \/ Miss(o) \/ FailRead(o) \/ FailWrite(o) PROVE Waiting'
  <2>1. wire' = wire /\ op[o].st # "asking"
    BY <1>1 DEF Hit, Miss, FailRead, FailWrite
  <2>2. \A d \in Slots : d # o => op'[d] = op[d]
    BY <1>1 DEF Hit, Miss, FailRead, FailWrite, Got, Types, OpsOK
  <2> QED BY <2>1, <2>2, WaitingStays
<1>2. ASSUME NEW o \in Slots, FinishGet(o) \/ FinishWrite(o) \/ Touch(o) PROVE Waiting'
  <2>1. op[o].st # "asking" /\ Home[o] \in Processes
    BY <1>2, HomeType DEF FinishGet, FinishWrite, Touch
  <2>2. \A d \in Slots : d # o => op'[d] = op[d]
    BY <1>2 DEF FinishGet, FinishWrite, Touch, Got, Modify, Types, OpsOK
  <2>3. \/ wire' = wire
        \/ \E m : m.kind # "get" /\ wire' = [wire EXCEPT ![Home[o]] = Append(@, m)]
    <3>1. \/ wire' = wire \/ Send(Home[o], Message("put", op[o].v))
          \/ Send(Home[o], Message("del", Nothing))
      BY <1>2 DEF FinishGet, FinishWrite, Touch, PutCache, DelCache
    <3>2. Message("put", op[o].v).kind # "get" /\ Message("del", Nothing).kind # "get"
      BY DEF Message
    <3> QED BY <3>1, <3>2 DEF Send
  <2> QED BY <2>1, <2>2, <2>3, WaitingStays
<1>3. ASSUME Evict \/ Tick \/ UNCHANGED vars PROVE Waiting'
  <2>1. wire' = wire /\ op' = op
    BY <1>3 DEF Evict, Tick, vars
  <2> QED BY <2>1, WaitingStays
<1> QED BY <1>1, <1>2, <1>3, WaitingBegin, WaitingDeliver, WaitingCrash DEF Next

-----------------------------------------------------------------------------
Inv == Types /\ Waiting /\ Invalidated

LEMMA InvInit == Init => Inv
<1> SUFFICES ASSUME Init PROVE Inv
  OBVIOUS
<1>1. Types /\ Waiting
  BY TypesInit, WaitingInit
<1>2. l1 = NoEntry
  BY DEF Init
<1> QED BY <1>1, <1>2, Zenon DEF Inv, Invalidated

LEMMA InvStep == Inv /\ [Next]_vars => Inv'
<1> SUFFICES ASSUME Inv, [Next]_vars PROVE Inv'
  OBVIOUS
<1>1. Types /\ Waiting /\ Invalidated
  BY DEF Inv
<1>2. OthersOK' /\ Waiting'
  BY <1>1, OthersStep, WaitingStep
<1>3. StepOK
  <2>1. ASSUME NEW o \in Slots,
               \/ Begin(o) \/ Hit(o) \/ Miss(o) \/ FailRead(o) \/ FailWrite(o)
               \/ FinishGet(o) \/ FinishWrite(o) \/ Touch(o)
        PROVE  StepOK
    BY <1>1, <2>1, BeginStep, HitStep, MissStep, FailStep, FinishGetStep, FinishWriteStep, TouchStep
  <2>2. ASSUME NEW p \in Processes, Deliver(p) \/ Crash(p) PROVE StepOK
    BY <1>1, <2>2, DeliverStep, CrashStep
  <2>3. CASE Evict \/ Tick
    BY <1>1, <2>3, EvictStep, TickStep
  <2>4. CASE UNCHANGED vars
    <3>1. UNCHANGED <<row, age, writes, l1, l2, wire, op>> /\ Values' = Values
      BY <2>4 DEF vars, table, bounds, Values
    <3>2. Parts'
      <4>1. TableOK'
        BY <1>1, <3>1 DEF Types, TableOK
      <4>2. CachesOK' /\ WireOK' /\ OpsOK'
        BY <1>1, <3>1, CachesStay, WireStays, OpsStay DEF Types
      <4> QED BY <4>1, <4>2 DEF Parts
    <3>3. (~lost' => ~lost) /\ (~late' => ~late)
      BY <2>4, Zenon DEF vars
    <3>4. l1' = NoEntry \/ (l1 # NoEntry /\ l1'.v = l1.v)
      BY <3>1
    <3>5. Invalidated'
      BY <1>1, <3>1, <3>3, <3>4, Keeps
    <3> QED BY <3>2, <3>5 DEF StepOK
  <2> QED BY <2>1, <2>2, <2>3, <2>4 DEF Next
<1> QED BY <1>2, <1>3 DEF Inv, StepOK, Parts, Types

(* Every state of the cached row is of its types, and the values in the caches and in the    *)
(* messages are those of writes that have been made (put, putCache, queryResult).            *)
THEOREM TypeCorrect == Spec => []TypeOK
<1>1. Inv => TypeOK
  BY TypesSuffice DEF Inv
<1> QED BY InvInit, InvStep, <1>1, PTL DEF Spec

(* For any number of processes and operations: unless a write's success was not reported or  *)
(* the row was cached late, a row that the shared cache holds and that is not the last one   *)
(* has its removal or its successor under way (queryResult, putCache, delCache).             *)
THEOREM RemovalUnderWay == Spec => []Invalidated
<1>1. Inv => Invalidated
  BY DEF Inv
<1> QED BY InvInit, InvStep, <1>1, PTL DEF Spec
=============================================================================
