-------------------------- MODULE Processes_proofs --------------------------
(***************************************************************************)
(* Proofs about the processes of a backend.                                *)
(*                                                                         *)
(* The calls between them (IpcCalls), for any number of processes and      *)
(* calls and any operations: the type invariant, that the table of         *)
(* callbacks agrees with the timers, and that the calls are operations of  *)
(* one cache, each of which happens once and is answered with its own      *)
(* result or with none.                                                    *)
(*                                                                         *)
(* The web server, its workers and its parent (ServerCluster), for any     *)
(* number of workers, faults and signals and any settings of the respawn   *)
(* throttle: types, the number of workers, the port, the rolling restart   *)
(* and the throttle.  The two components share no names.                   *)
(***************************************************************************)
EXTENDS IpcCalls, ServerCluster, SequenceTheorems, FiniteSetTheorems, TLAPS

-----------------------------------------------------------------------------
(* Queues of messages, as sets. *)

Elems(s) == {s[i] : i \in DOMAIN s}

\* No message is in the queue twice.
Once(s) == \A i, k \in DOMAIN s : s[i] = s[k] => i = k

LEMMA HeadTail ==
  ASSUME NEW S, NEW s \in Seq(S), s # <<>>
  PROVE  /\ Head(s) \in S /\ Tail(s) \in Seq(S)
         /\ Head(s) \in Elems(s) /\ Elems(Tail(s)) \subseteq Elems(s)
         /\ Once(s) => Once(Tail(s)) /\ Head(s) \notin Elems(Tail(s))
<1>1. /\ Len(s) \in Nat \ {0} /\ DOMAIN s = 1 .. Len(s) /\ Head(s) = s[1]
      /\ Head(s) \in S /\ Tail(s) \in Seq(S)
      /\ Len(Tail(s)) = Len(s) - 1 /\ DOMAIN Tail(s) = 1 .. Len(s) - 1
      /\ \A i \in 1 .. Len(s) - 1 : Tail(s)[i] = s[i + 1]
  BY EmptySeq, LenProperties, HeadTailProperties
<1>2. Head(s) \in Elems(s)
  BY <1>1 DEF Elems
<1>3. Elems(Tail(s)) \subseteq Elems(s)
  BY <1>1 DEF Elems
<1>4. ASSUME Once(s) PROVE Once(Tail(s)) /\ Head(s) \notin Elems(Tail(s))
  BY <1>1, <1>4 DEF Once, Elems
<1> QED BY <1>1, <1>2, <1>3, <1>4

LEMMA AppendOne ==
  ASSUME NEW S, NEW s \in Seq(S), NEW e \in S
  PROVE  /\ Append(s, e) \in Seq(S)
         /\ Elems(Append(s, e)) = Elems(s) \cup {e}
         /\ Once(s) /\ e \notin Elems(s) => Once(Append(s, e))
<1>1. /\ Len(s) \in Nat /\ DOMAIN s = 1 .. Len(s)
      /\ Append(s, e) \in Seq(S) /\ DOMAIN Append(s, e) = 1 .. Len(s) + 1
      /\ \A i \in 1 .. Len(s) : Append(s, e)[i] = s[i]
      /\ Append(s, e)[Len(s) + 1] = e
  BY LenProperties
<1>2. Elems(Append(s, e)) = Elems(s) \cup {e}
  <2>1. ASSUME NEW x \in Elems(Append(s, e)) PROVE x \in Elems(s) \cup {e}
    BY <1>1, <2>1 DEF Elems
  <2>2. ASSUME NEW x \in Elems(s) PROVE x \in Elems(Append(s, e))
    BY <1>1, <2>2 DEF Elems
  <2>3. e \in Elems(Append(s, e))
    BY <1>1 DEF Elems
  <2> QED BY <2>1, <2>2, <2>3
<1>3. ASSUME Once(s), e \notin Elems(s) PROVE Once(Append(s, e))
  BY <1>1, <1>3 DEF Once, Elems
<1> QED BY <1>1, <1>2, <1>3

-----------------------------------------------------------------------------
(* The invariant. *)

Types == /\ value \in Values
         /\ status \in [Calls -> {"new", "open", "done"}]
         /\ result \in [Calls -> Values \cup {NotYet}]
         /\ answer \in [Calls -> Values \cup {NotYet}]
         /\ nextId \in [Workers -> Nat \ {0}]
         /\ callId \in [Calls -> Nat]
         /\ timers \subseteq Calls
         /\ toMaster \in [Workers -> Seq(Calls)]
         /\ toWorker \in [Workers -> Seq(Reply)]
         /\ immediates \in [Workers -> Seq(Reply)]
         /\ DOMAIN msgs = Workers

\* The calls of workers that ask for an answer.
Deferred(c) == Caller[c] \in Workers /\ WithCallback(c)

\* Calls that were made have numbers of their own.
Numbers ==
  /\ \A c \in Calls : Deferred(c) /\ status[c] # "new" => callId[c] \in 1 .. nextId[Caller[c]] - 1
  /\ \A c, d \in Calls : (/\ Deferred(c) /\ status[c] # "new" /\ Deferred(d) /\ status[d] # "new"
                          /\ Caller[c] = Caller[d] /\ callId[c] = callId[d]) => c = d

\* The entries of the table, and the calls that wait.
Table == \A w \in Workers : \A n \in DOMAIN msgs[w] :
           /\ n \in 1 .. nextId[w] - 1
           /\ msgs[w][n] \in timers /\ Caller[msgs[w][n]] = w /\ callId[msgs[w][n]] = n

Waiting == /\ timers = {c \in Calls : status[c] = "open"}
           /\ \A c \in timers : Deferred(c) /\ callId[c] \in DOMAIN msgs[Caller[c]]

\* A message on its way to the master was not worked on yet, and is there once.
Requests == \A w \in Workers :
  /\ Once(toMaster[w])
  /\ \A c \in Elems(toMaster[w]) : Caller[c] = w /\ status[c] # "new" /\ result[c] = NotYet

\* A reply on its way holds the result of the call that has its number.
Replies == \A w \in Workers : \A r \in Elems(toWorker[w]) \cup Elems(immediates[w]) :
  /\ r.id \in 1 .. nextId[w] - 1
  /\ r.id \in DOMAIN msgs[w] => result[msgs[w][r.id]] = r.value

NewCalls == \A c \in Calls : status[c] = "new" => result[c] = NotYet

Inv == Types /\ Numbers /\ Table /\ Waiting /\ Requests /\ Replies /\ NewCalls

LEMMA EmptyElems == Elems(<<>>) = {} /\ Once(<<>>)
BY DEF Elems, Once

LEMMA InvInit == Init => Inv
<1> SUFFICES ASSUME Init PROVE Inv
  OBVIOUS
<1>1. Types
  BY DEF Init, Types, Values
<1>2. \A w \in Workers : DOMAIN msgs[w] = {}
  BY DEF Init
<1>3. Numbers /\ Table /\ Waiting /\ NewCalls
  BY <1>2 DEF Init, Numbers, Table, Waiting, NewCalls
<1>4. Requests /\ Replies
  BY EmptyElems DEF Init, Requests, Replies
<1> QED BY <1>1, <1>3, <1>4 DEF Inv

\* The call that waits under a number.
LEMMA Entry ==
  ASSUME Inv, NEW w \in Workers, NEW n \in DOMAIN msgs[w]
  PROVE  /\ msgs[w][n] \in Calls /\ msgs[w][n] \in timers /\ status[msgs[w][n]] = "open"
         /\ Caller[msgs[w][n]] = w /\ callId[msgs[w][n]] = n /\ Deferred(msgs[w][n])
BY DEF Inv, Types, Table, Waiting

\* What an operation does is what the cache promises.
LEMMA Outcome ==
  ASSUME NEW c \in Calls
  PROVE  Cache!Outcomes(Op[c], value) = <<Left(Op[c], value), Value(Op[c], value)>>
<1>1. Op[c] \in {"get", "getset", "incr", "put", "del"}
  BY OpAssumption DEF Ops
<1> QED BY <1>1 DEF Cache!Outcomes, Left, Value

LEMMA OutcomeType ==
  ASSUME NEW c \in Calls, value \in Values
  PROVE  Left(Op[c], value) \in Values /\ Value(Op[c], value) \in Values
BY ValueAssumption, OpAssumption DEF Left, Value, Values, Ops

LEMMA PerformTypes ==
  ASSUME Types, NEW c \in Calls, Perform(c)
  PROVE  /\ value' \in Values /\ result' \in [Calls -> Values \cup {NotYet}]
         /\ result'[c] \in Values
         /\ \A d \in Calls : d # c => result'[d] = result[d]
<1>1. value' = Left(Op[c], value) /\ result' = [result EXCEPT ![c] = Value(Op[c], value)]
  BY DEF Perform
<1>2. Left(Op[c], value) \in Values /\ Value(Op[c], value) \in Values
  BY OutcomeType DEF Types
<1> QED BY <1>1, <1>2 DEF Types

-----------------------------------------------------------------------------
(* The steps. *)

LEMMA ServeStep ==
  ASSUME Inv, NEW w \in Workers, Serve(w)
  PROVE  Inv' /\ Cache!Execute(Head(toMaster[w]))
<1> DEFINE c == Head(toMaster[w])
<1>1. /\ toMaster[w] # <<>> /\ Perform(c)
      /\ toMaster' = [toMaster EXCEPT ![w] = Tail(@)]
      /\ UNCHANGED <<status, answer, callId, nextId, msgs, timers, immediates>>
      /\ WithCallback(c) => toWorker' = [toWorker EXCEPT ![w] = Append(@, [id |-> callId[c], value |-> result'[c]])]
      /\ ~WithCallback(c) => toWorker' = toWorker
  BY DEF Serve, deferVars
<1>2. toMaster[w] \in Seq(Calls) /\ toWorker[w] \in Seq(Reply)
  BY DEF Inv, Types
<1>3. /\ c \in Calls /\ Tail(toMaster[w]) \in Seq(Calls)
      /\ c \in Elems(toMaster[w]) /\ Elems(Tail(toMaster[w])) \subseteq Elems(toMaster[w])
      /\ Once(Tail(toMaster[w])) /\ c \notin Elems(Tail(toMaster[w]))
  BY <1>1, <1>2, HeadTail DEF Inv, Requests
<1>4. Caller[c] = w /\ status[c] # "new" /\ result[c] = NotYet
  BY <1>3 DEF Inv, Requests
<1> HIDE DEF c
<1>5. /\ value' \in Values /\ result' \in [Calls -> Values \cup {NotYet}] /\ result'[c] \in Values
      /\ \A d \in Calls : d # c => result'[d] = result[d]
  BY <1>1, <1>3, PerformTypes DEF Inv
<1> DEFINE r == [id |-> callId[c], value |-> result'[c]]
<1>6. r \in Reply /\ r.id = callId[c] /\ r.value = result'[c]
  BY <1>3, <1>5 DEF Reply, Inv, Types
<1> HIDE DEF r
<1>8. /\ toWorker' \in [Workers -> Seq(Reply)]
      /\ \A v \in Workers : Elems(toWorker'[v]) \subseteq Elems(toWorker[v]) \cup (IF v = w /\ WithCallback(c) THEN {r} ELSE {})
  <2>1. CASE WithCallback(c)
    <3>1. toWorker' = [toWorker EXCEPT ![w] = Append(@, r)]
      BY <1>1, <2>1 DEF r
    <3>2. Append(toWorker[w], r) \in Seq(Reply) /\ Elems(Append(toWorker[w], r)) = Elems(toWorker[w]) \cup {r}
      BY <1>2, <1>6, AppendOne
    <3> QED BY <2>1, <3>1, <3>2 DEF Inv, Types
  <2>2. CASE ~WithCallback(c)
    BY <1>1, <2>2 DEF Inv, Types
  <2> QED BY <2>1, <2>2
<1>9. Types'
  BY <1>1, <1>3, <1>5, <1>8 DEF Inv, Types
<1>10. Numbers' /\ Table' /\ Waiting'
  BY <1>1 DEF Inv, Numbers, Table, Waiting, Deferred
<1>11. NewCalls'
  BY <1>1, <1>4, <1>5 DEF Inv, NewCalls
<1>12. Requests'
  <2>1. ASSUME NEW v \in Workers
        PROVE  /\ Once(toMaster'[v])
               /\ \A d \in Elems(toMaster'[v]) : Caller[d] = v /\ status'[d] # "new" /\ result'[d] = NotYet
    <3>1. CASE v = w
      <4>1. toMaster'[v] = Tail(toMaster[w])
        BY <1>1, <3>1 DEF Inv, Types
      <4>2. \A d \in Elems(toMaster[w]) : d \in Calls
        BY <1>2, LenProperties DEF Elems
      <4>3. \A d \in Elems(Tail(toMaster[w])) : result'[d] = result[d]
        BY <1>3, <1>5, <4>2
      <4> QED BY <1>1, <1>3, <3>1, <4>1, <4>3 DEF Inv, Requests
    <3>2. CASE v # w
      <4>1. toMaster'[v] = toMaster[v] /\ toMaster[v] \in Seq(Calls)
        BY <1>1, <3>2 DEF Inv, Types
      <4>2. \A d \in Elems(toMaster[v]) : d \in Calls /\ d # c
        BY <1>4, <3>2, <4>1, LenProperties DEF Elems, Inv, Requests
      <4> QED BY <1>1, <1>5, <4>1, <4>2 DEF Inv, Requests
    <3> QED BY <3>1, <3>2
  <2> QED BY <2>1 DEF Requests
<1>13. Replies'
  <2>1. ASSUME NEW v \in Workers, NEW q \in Elems(toWorker'[v]) \cup Elems(immediates'[v])
        PROVE  /\ q.id \in 1 .. nextId[v] - 1
               /\ q.id \in DOMAIN msgs[v] => result'[msgs[v][q.id]] = q.value
    <3>1. CASE q \in Elems(toWorker[v]) \cup Elems(immediates[v])
      <4>1. /\ q.id \in 1 .. nextId[v] - 1
            /\ q.id \in DOMAIN msgs[v] => result[msgs[v][q.id]] = q.value
        BY <3>1 DEF Inv, Replies
      <4>2. q.value \in Values
        <5>1. toWorker[v] \in Seq(Reply) /\ immediates[v] \in Seq(Reply)
          BY DEF Inv, Types
        <5>2. q \in Reply
          BY <3>1, <5>1, LenProperties DEF Elems
        <5> QED BY <5>2 DEF Reply
      <4>3. ASSUME q.id \in DOMAIN msgs[v] PROVE result'[msgs[v][q.id]] = q.value
        <5>1. msgs[v][q.id] \in Calls
          BY <4>3, Entry
        <5>2. msgs[v][q.id] # c
          BY <1>4, <4>1, <4>2, <4>3, ValueAssumption DEF Values
        <5> QED BY <1>5, <4>1, <4>3, <5>1, <5>2
      <4> QED BY <4>1, <4>3
    <3>2. CASE v = w /\ WithCallback(c) /\ q = r
      <4>1. Deferred(c)
        BY <1>4, <3>2 DEF Deferred
      <4>2. callId[c] \in 1 .. nextId[w] - 1
        BY <1>3, <1>4, <4>1 DEF Inv, Numbers
      <4>3. ASSUME callId[c] \in DOMAIN msgs[w] PROVE msgs[w][callId[c]] = c
        <5>1. /\ msgs[w][callId[c]] \in Calls /\ status[msgs[w][callId[c]]] = "open"
              /\ Caller[msgs[w][callId[c]]] = w /\ callId[msgs[w][callId[c]]] = callId[c]
              /\ Deferred(msgs[w][callId[c]])
          BY <4>3, Entry
        <5> QED BY <1>3, <1>4, <4>1, <5>1 DEF Inv, Numbers
      <4> QED BY <1>6, <3>2, <4>2, <4>3
    <3> QED BY <1>1, <1>8, <2>1, <3>1, <3>2
  <2> QED BY <1>1, <2>1 DEF Replies
<1>14. Cache!Execute(c)
  <2>1. /\ value' = Left(Op[c], value) /\ result' = [result EXCEPT ![c] = Value(Op[c], value)]
    BY <1>1 DEF Perform
  <2>2. Cache!Outcomes(Op[c], value)[1] = Left(Op[c], value) /\ Cache!Outcomes(Op[c], value)[2] = Value(Op[c], value)
    BY <1>3, Outcome
  <2> QED BY <1>1, <1>4, <2>1, <2>2 DEF Cache!Execute, Cache!Happens
<1> QED BY <1>9, <1>10, <1>11, <1>12, <1>13, <1>14 DEF Inv, c

LEMMA EvictStep ==
  ASSUME Inv, Evict
  PROVE  Inv' /\ Cache!Evict
<1>1. value' = NoValue /\ UNCHANGED <<status, result, answer, callId, nextId, msgs, timers, toMaster, toWorker, immediates>>
  BY DEF Evict, deferVars, channels
<1>2. Types' /\ Numbers' /\ Table' /\ Waiting' /\ Requests' /\ Replies' /\ NewCalls'
  BY <1>1 DEF Inv, Types, Numbers, Table, Waiting, Requests, Replies, NewCalls, Deferred, Values
<1> QED BY <1>1, <1>2 DEF Inv, Cache!Evict

\* A call from the master itself has no number and no message.
LEMMA HomeStep ==
  ASSUME Inv, NEW c \in Calls, CallAtHome(c)
  PROVE  Inv' /\ Cache!CallAtHome(c)
<1>1. /\ Caller[c] = Server /\ status[c] = "new" /\ Perform(c)
      /\ status' = [status EXCEPT ![c] = "done"] /\ answer' = [answer EXCEPT ![c] = result'[c]]
      /\ UNCHANGED <<callId, nextId, msgs, timers, toMaster, toWorker, immediates>>
  BY DEF CallAtHome, deferVars, channels
<1>2. /\ value' \in Values /\ result' \in [Calls -> Values \cup {NotYet}] /\ result'[c] \in Values
      /\ \A d \in Calls : d # c => result'[d] = result[d]
  BY <1>1, PerformTypes DEF Inv
<1>3. result[c] = NotYet
  BY <1>1 DEF Inv, NewCalls
<1>4. Types'
  BY <1>1, <1>2 DEF Inv, Types
<1>5. ~Deferred(c)
  BY <1>1, CallerAssumption DEF Deferred
<1>6. \A d \in Calls : d # c => status'[d] = status[d]
  BY <1>1 DEF Inv, Types
<1>7. Numbers'
  BY <1>1, <1>5, <1>6 DEF Inv, Numbers, Deferred
<1>8. status'[c] = "done"
  BY <1>1 DEF Inv, Types
<1>9. Table' /\ Waiting'
  BY <1>1, <1>6, <1>8 DEF Inv, Table, Waiting, Deferred
<1>10. NewCalls'
  BY <1>2, <1>6, <1>8 DEF Inv, NewCalls
<1>11. Requests'
  <2>1. ASSUME NEW w \in Workers, NEW d \in Elems(toMaster[w])
        PROVE  Caller[d] = w /\ status'[d] # "new" /\ result'[d] = NotYet
    <3>1. toMaster[w] \in Seq(Calls)
      BY DEF Inv, Types
    <3>2. d \in Calls /\ d # c
      BY <1>1, <3>1, LenProperties DEF Elems, Inv, Requests
    <3> QED BY <1>2, <1>6, <3>2 DEF Inv, Requests
  <2> QED BY <1>1, <2>1 DEF Requests, Inv
<1>12. Replies'
  <2>1. ASSUME NEW w \in Workers, NEW n \in DOMAIN msgs[w] PROVE result'[msgs[w][n]] = result[msgs[w][n]]
    BY <1>1, <1>2, Entry
  <2> QED BY <1>1, <2>1 DEF Inv, Replies
<1>13. Cache!CallAtHome(c)
  <2>1. /\ value' = Left(Op[c], value) /\ result' = [result EXCEPT ![c] = Value(Op[c], value)]
    BY <1>1 DEF Perform
  <2>2. Cache!Outcomes(Op[c], value)[1] = Left(Op[c], value) /\ Cache!Outcomes(Op[c], value)[2] = Value(Op[c], value)
    BY Outcome
  <2> QED BY <1>1, <1>3, <2>1, <2>2 DEF Cache!CallAtHome, Cache!Happens
<1> QED BY <1>4, <1>7, <1>9, <1>10, <1>11, <1>12, <1>13 DEF Inv

\* A call without a callback.
LEMMA PostStep ==
  ASSUME Inv, NEW c \in Calls, Post(c)
  PROVE  Inv' /\ Cache!Call(c, "done")
<1> DEFINE w == Caller[c]
<1>1. /\ w \in Workers /\ ~WithCallback(c) /\ status[c] = "new"
      /\ status' = [status EXCEPT ![c] = "done"]
      /\ toMaster' = [toMaster EXCEPT ![w] = Append(@, c)]
      /\ UNCHANGED <<value, result, answer, callId, nextId, msgs, timers, toWorker, immediates>>
  BY DEF Post, deferVars
<1>2. toMaster[w] \in Seq(Calls)
  BY <1>1 DEF Inv, Types
<1>3. c \notin Elems(toMaster[w])
  BY <1>1 DEF Inv, Requests
<1>4. /\ Append(toMaster[w], c) \in Seq(Calls) /\ Once(Append(toMaster[w], c))
      /\ Elems(Append(toMaster[w], c)) = Elems(toMaster[w]) \cup {c}
  BY <1>1, <1>2, <1>3, AppendOne DEF Inv, Requests
<1>5. /\ \A d \in Calls : d # c => status'[d] = status[d]
      /\ status'[c] = "done"
  BY <1>1 DEF Inv, Types
<1>6. Types'
  BY <1>1, <1>4 DEF Inv, Types
<1>7. Numbers'
  BY <1>1, <1>5 DEF Inv, Numbers, Deferred
<1>8. Table' /\ Waiting' /\ NewCalls' /\ Replies'
  BY <1>1, <1>5 DEF Inv, Table, Waiting, NewCalls, Replies, Deferred
<1>9. Requests'
  <2>1. ASSUME NEW v \in Workers
        PROVE  /\ Once(toMaster'[v])
               /\ \A d \in Elems(toMaster'[v]) : Caller[d] = v /\ status'[d] # "new" /\ result[d] = NotYet
    <3>0. ASSUME NEW d \in Elems(toMaster[v]) PROVE Caller[d] = v /\ status'[d] # "new" /\ result[d] = NotYet
      <4>1. toMaster[v] \in Seq(Calls)
        BY DEF Inv, Types
      <4>2. d \in Calls /\ status[d] # "new"
        BY <4>1, LenProperties DEF Elems, Inv, Requests
      <4> QED BY <1>1, <1>5, <4>2 DEF Inv, Requests
    <3>1. CASE v = w
      BY <1>1, <1>4, <1>5, <3>0, <3>1 DEF Inv, Types, NewCalls
    <3>2. CASE v # w
      BY <1>1, <3>0, <3>2 DEF Inv, Types, Requests
    <3> QED BY <3>1, <3>2
  <2> QED BY <1>1, <2>1 DEF Requests
<1> QED BY <1>1, <1>6, <1>7, <1>8, <1>9 DEF Inv, Cache!Call

\* A call with a callback gets the next number.
LEMMA CallStep ==
  ASSUME Inv, NEW c \in Calls, Call(c)
  PROVE  Inv' /\ Cache!Call(c, "open")
<1> DEFINE w == Caller[c]
           id == nextId[w]
<1>1. /\ w \in Workers /\ WithCallback(c) /\ status[c] = "new"
      /\ callId' = [callId EXCEPT ![c] = id] /\ nextId' = [nextId EXCEPT ![w] = @ + 1]
      /\ msgs' = [msgs EXCEPT ![w] = [n \in DOMAIN @ \cup {id} |-> IF n = id THEN c ELSE @[n]]]
      /\ timers' = timers \cup {c}
      /\ status' = [status EXCEPT ![c] = "open"]
      /\ toMaster' = [toMaster EXCEPT ![w] = Append(@, c)]
      /\ UNCHANGED <<value, result, answer, toWorker, immediates>>
  BY DEF Call, Defer
<1>2. toMaster[w] \in Seq(Calls) /\ id \in Nat \ {0} /\ result[c] = NotYet
  BY <1>1 DEF Inv, Types, NewCalls
<1>3. c \notin Elems(toMaster[w])
  BY <1>1 DEF Inv, Requests
<1>4. /\ Append(toMaster[w], c) \in Seq(Calls) /\ Once(Append(toMaster[w], c))
      /\ Elems(Append(toMaster[w], c)) = Elems(toMaster[w]) \cup {c}
  BY <1>1, <1>2, <1>3, AppendOne DEF Inv, Requests
<1>5. /\ \A d \in Calls : d # c => status'[d] = status[d] /\ callId'[d] = callId[d]
      /\ status'[c] = "open" /\ callId'[c] = id
      /\ \A v \in Workers : v # w => nextId'[v] = nextId[v] /\ msgs'[v] = msgs[v] /\ toMaster'[v] = toMaster[v]
      /\ nextId'[w] = id + 1 /\ toMaster'[w] = Append(toMaster[w], c)
      /\ DOMAIN msgs'[w] = DOMAIN msgs[w] \cup {id}
      /\ \A n \in DOMAIN msgs'[w] : msgs'[w][n] = IF n = id THEN c ELSE msgs[w][n]
  BY <1>1 DEF Inv, Types
<1> HIDE DEF id
<1>6. Types'
  BY <1>1, <1>2, <1>4, <1>5 DEF Inv, Types
<1>7. Numbers'
  <2>1. ASSUME NEW d \in Calls, Deferred(d), status'[d] # "new"
        PROVE  callId'[d] \in 1 .. nextId'[Caller[d]] - 1
    <3>1. CASE d = c
      BY <1>2, <1>5, <3>1
    <3>2. CASE d # c
      <4>1. callId[d] \in 1 .. nextId[Caller[d]] - 1 /\ Caller[d] \in Workers
        BY <1>5, <2>1, <3>2 DEF Inv, Numbers, Deferred
      <4>2. nextId[Caller[d]] \in Nat /\ (nextId'[Caller[d]] = nextId[Caller[d]] \/ nextId'[Caller[d]] = nextId[Caller[d]] + 1)
        BY <1>1, <1>5, <4>1 DEF Inv, Types
      <4> QED BY <1>5, <3>2, <4>1, <4>2
    <3> QED BY <3>1, <3>2
  <2>2. ASSUME NEW d \in Calls, d # c, Deferred(d), status'[d] # "new", Caller[d] = w
        PROVE  callId'[d] # id
    <3>1. callId[d] \in 1 .. nextId[w] - 1
      BY <1>5, <2>2 DEF Inv, Numbers
    <3> QED BY <1>2, <1>5, <2>2, <3>1 DEF id
  <2>3. ASSUME NEW d \in Calls, NEW e \in Calls, Deferred(d), status'[d] # "new", Deferred(e), status'[e] # "new",
               Caller[d] = Caller[e], callId'[d] = callId'[e]
        PROVE  d = e
    <3>1. CASE d # c /\ e # c
      BY <1>5, <2>3, <3>1 DEF Inv, Numbers
    <3>2. CASE d = c
      BY <1>5, <2>2, <2>3, <3>2
    <3>3. CASE e = c
      BY <1>5, <2>2, <2>3, <3>3
    <3> QED BY <3>1, <3>2, <3>3
  <2> QED BY <2>1, <2>3 DEF Numbers, Deferred
<1>8. Table'
  <2>1. ASSUME NEW v \in Workers, NEW n \in DOMAIN msgs'[v]
        PROVE  /\ n \in 1 .. nextId'[v] - 1
               /\ msgs'[v][n] \in timers' /\ Caller[msgs'[v][n]] = v /\ callId'[msgs'[v][n]] = n
    <3>1. CASE v = w /\ n = id
      <4>1. id \in 1 .. nextId'[w] - 1
        BY <1>2, <1>5
      <4>2. id \in DOMAIN msgs'[w] /\ msgs'[w][id] = c
        BY <1>5
      <4>3. c \in timers'
        BY <1>1
      <4> QED BY <1>5, <3>1, <4>1, <4>2, <4>3
    <3>2. CASE ~(v = w /\ n = id)
      <4>1. n \in DOMAIN msgs[v] /\ msgs'[v][n] = msgs[v][n]
        BY <1>5, <2>1, <3>2
      <4>2. msgs[v][n] \in Calls /\ msgs[v][n] # c
        BY <1>1, <4>1, Entry
      <4>3. n \in 1 .. nextId[v] - 1 /\ msgs[v][n] \in timers /\ Caller[msgs[v][n]] = v /\ callId[msgs[v][n]] = n
        BY <4>1 DEF Inv, Table
      <4>4. nextId[v] \in Nat /\ (nextId'[v] = nextId[v] \/ nextId'[v] = nextId[v] + 1)
        BY <1>1, <1>5 DEF Inv, Types
      <4>5. n \in 1 .. nextId'[v] - 1
        BY <4>3, <4>4
      <4> QED BY <1>1, <1>5, <4>1, <4>2, <4>3, <4>5
    <3> QED BY <3>1, <3>2
  <2> QED BY <2>1 DEF Table
<1>9. Waiting'
  <2>1. timers' = {d \in Calls : status'[d] = "open"}
    BY <1>1, <1>5 DEF Inv, Waiting
  <2>2. ASSUME NEW d \in timers' PROVE Deferred(d) /\ callId'[d] \in DOMAIN msgs'[Caller[d]]
    <3>1. CASE d = c
      BY <1>1, <1>5, <3>1 DEF Deferred
    <3>2. CASE d # c
      <4>1. d \in timers /\ d \in Calls
        BY <1>1, <2>2, <3>2 DEF Inv, Types
      <4>2. Deferred(d) /\ callId[d] \in DOMAIN msgs[Caller[d]] /\ Caller[d] \in Workers
        BY <4>1 DEF Inv, Waiting, Deferred
      <4>3. DOMAIN msgs[Caller[d]] \subseteq DOMAIN msgs'[Caller[d]]
        BY <1>5, <4>2
      <4> QED BY <1>5, <3>2, <4>1, <4>2, <4>3
    <3> QED BY <3>1, <3>2
  <2> QED BY <2>1, <2>2 DEF Waiting, Deferred
<1>10. NewCalls'
  BY <1>1, <1>5 DEF Inv, NewCalls
<1>11. Requests'
  <2>1. ASSUME NEW v \in Workers
        PROVE  /\ Once(toMaster'[v])
               /\ \A d \in Elems(toMaster'[v]) : Caller[d] = v /\ status'[d] # "new" /\ result[d] = NotYet
    <3>0. ASSUME NEW d \in Elems(toMaster[v]) PROVE Caller[d] = v /\ status'[d] # "new" /\ result[d] = NotYet
      <4>1. toMaster[v] \in Seq(Calls)
        BY DEF Inv, Types
      <4>2. d \in Calls /\ status[d] # "new"
        BY <4>1, LenProperties DEF Elems, Inv, Requests
      <4> QED BY <1>1, <1>5, <4>2 DEF Inv, Requests
    <3>1. CASE v = w
      BY <1>2, <1>4, <1>5, <3>0, <3>1
    <3>2. CASE v # w
      BY <1>5, <3>0, <3>2 DEF Inv, Requests
    <3> QED BY <3>1, <3>2
  <2> QED BY <1>1, <2>1 DEF Requests
<1>12. Replies'
  <2>1. ASSUME NEW v \in Workers, NEW r \in Elems(toWorker[v]) \cup Elems(immediates[v])
        PROVE  /\ r.id \in 1 .. nextId'[v] - 1
               /\ r.id \in DOMAIN msgs'[v] => result[msgs'[v][r.id]] = r.value
    <3>1. /\ r.id \in 1 .. nextId[v] - 1
          /\ r.id \in DOMAIN msgs[v] => result[msgs[v][r.id]] = r.value
      BY DEF Inv, Replies
    <3>2. nextId[v] \in Nat /\ (nextId'[v] = nextId[v] \/ nextId'[v] = nextId[v] + 1)
      BY <1>1, <1>5 DEF Inv, Types
    <3>3. r.id \in 1 .. nextId'[v] - 1
      BY <3>1, <3>2
    <3>4. ~(v = w /\ r.id = id)
      BY <1>2, <3>1 DEF id
    <3>5. r.id \in DOMAIN msgs'[v] => r.id \in DOMAIN msgs[v] /\ msgs'[v][r.id] = msgs[v][r.id]
      BY <1>5, <3>4
    <3> QED BY <3>1, <3>3, <3>5
  <2> QED BY <1>1, <2>1 DEF Replies
<1> QED BY <1>1, <1>6, <1>7, <1>8, <1>9, <1>10, <1>11, <1>12 DEF Inv, Cache!Call

LEMMA ReceiveStep ==
  ASSUME Inv, NEW w \in Workers, Receive(w)
  PROVE  Inv' /\ UNCHANGED Cache!vars
<1> DEFINE r == Head(toWorker[w])
<1>1. /\ toWorker[w] # <<>> /\ toWorker' = [toWorker EXCEPT ![w] = Tail(@)]
      /\ immediates' = immediates \/ immediates' = [immediates EXCEPT ![w] = Append(@, r)]
      /\ UNCHANGED <<value, status, result, answer, callId, nextId, msgs, timers, toMaster>>
  BY DEF Receive, cacheVars, deferVars
<1>2. toWorker[w] \in Seq(Reply) /\ immediates[w] \in Seq(Reply)
  BY DEF Inv, Types
<1>3. /\ r \in Reply /\ Tail(toWorker[w]) \in Seq(Reply)
      /\ r \in Elems(toWorker[w]) /\ Elems(Tail(toWorker[w])) \subseteq Elems(toWorker[w])
  BY <1>1, <1>2, HeadTail
<1> HIDE DEF r
<1>4. Append(immediates[w], r) \in Seq(Reply) /\ Elems(Append(immediates[w], r)) = Elems(immediates[w]) \cup {r}
  BY <1>2, <1>3, AppendOne
<1>5. Types'
  BY <1>1, <1>3, <1>4 DEF Inv, Types
<1>6. \A v \in Workers : Elems(toWorker'[v]) \cup Elems(immediates'[v])
                         \subseteq Elems(toWorker[v]) \cup Elems(immediates[v])
  BY <1>1, <1>3, <1>4 DEF Inv, Types
<1>7. Numbers' /\ Table' /\ Waiting' /\ Requests' /\ NewCalls'
  BY <1>1 DEF Inv, Numbers, Table, Waiting, Requests, NewCalls, Deferred
<1>8. Replies'
  BY <1>1, <1>6 DEF Inv, Replies
<1> QED BY <1>1, <1>5, <1>7, <1>8 DEF Inv, Cache!vars

\* The callback of an entry runs: the entry and its timer go, and nothing else.
LEMMA SettleStep ==
  ASSUME Inv, NEW w \in Workers, NEW n \in DOMAIN msgs[w], NEW v, v \in Values,
         Settle(w, n, v), UNCHANGED <<value, result, callId, nextId, toMaster, toWorker>>,
         immediates' \in [Workers -> Seq(Reply)],
         \A u \in Workers : Elems(immediates'[u]) \subseteq Elems(immediates[u]),
         v \in {result[msgs[w][n]], Sent(msgs[w][n])}
  PROVE  Inv' /\ Cache!Answer(msgs[w][n], v)
<1> DEFINE c == msgs[w][n]
<1>1. /\ c \in Calls /\ c \in timers /\ status[c] = "open" /\ Caller[c] = w /\ callId[c] = n /\ Deferred(c)
  BY Entry
<1>2. /\ msgs' = [msgs EXCEPT ![w] = [k \in DOMAIN @ \ {n} |-> @[k]]]
      /\ timers' = timers \ {c}
      /\ status' = [status EXCEPT ![c] = "done"] /\ answer' = [answer EXCEPT ![c] = v]
  BY DEF Settle
<1>a. v # NotYet /\ v \in {result[c], IF Op[c] = "incr" THEN 1 ELSE NoValue}
  BY ValueAssumption DEF Values, Sent
<1> HIDE DEF c
<1>3. /\ \A d \in Calls : d # c => status'[d] = status[d]
      /\ status'[c] = "done"
      /\ \A u \in Workers : u # w => msgs'[u] = msgs[u]
      /\ DOMAIN msgs'[w] = DOMAIN msgs[w] \ {n} /\ DOMAIN msgs' = Workers
      /\ \A k \in DOMAIN msgs'[w] : msgs'[w][k] = msgs[w][k]
  BY <1>1, <1>2 DEF Inv, Types
<1>4. \A u \in Workers : /\ DOMAIN msgs'[u] \subseteq DOMAIN msgs[u]
                         /\ \A k \in DOMAIN msgs'[u] : msgs'[u][k] = msgs[u][k]
  BY <1>3
<1>5. Types'
  BY <1>1, <1>2, <1>3 DEF Inv, Types
<1>6. Numbers'
  BY <1>1, <1>3 DEF Inv, Numbers, Deferred
<1>7. Table'
  <2>1. ASSUME NEW u \in Workers, NEW k \in DOMAIN msgs'[u] PROVE msgs[u][k] # c
    BY <1>1, <1>3, <2>1, Entry
  <2> QED BY <1>2, <1>4, <2>1 DEF Inv, Table
<1>8. Waiting'
  <2>1. timers' = {d \in Calls : status'[d] = "open"}
    BY <1>1, <1>2, <1>3 DEF Inv, Waiting
  <2>2. ASSUME NEW d \in timers' PROVE Deferred(d) /\ callId[d] \in DOMAIN msgs'[Caller[d]]
    <3>1. d \in timers /\ d # c /\ d \in Calls /\ status[d] = "open"
      BY <1>2, <2>2 DEF Inv, Types, Waiting
    <3>2. Deferred(d) /\ callId[d] \in DOMAIN msgs[Caller[d]]
      BY <3>1 DEF Inv, Waiting
    <3>3. ~(Caller[d] = w /\ callId[d] = n)
      BY <1>1, <3>1, <3>2 DEF Inv, Numbers
    <3> QED BY <1>3, <3>2, <3>3 DEF Deferred
  <2> QED BY <2>1, <2>2 DEF Waiting, Deferred
<1>9. NewCalls'
  BY <1>1, <1>3 DEF Inv, NewCalls
<1>10. Requests'
  <2>1. ASSUME NEW u \in Workers, NEW d \in Elems(toMaster[u]) PROVE status'[d] # "new"
    <3>1. toMaster[u] \in Seq(Calls)
      BY DEF Inv, Types
    <3>2. d \in Calls /\ status[d] # "new"
      BY <3>1, LenProperties DEF Elems, Inv, Requests
    <3> QED BY <1>3, <3>2
  <2> QED BY <2>1 DEF Inv, Requests
<1>11. Replies'
  BY <1>4 DEF Inv, Replies
<1>12. Cache!Answer(c, v)
  BY <1>1, <1>2, <1>a DEF Cache!Answer
<1> QED BY <1>5, <1>6, <1>7, <1>8, <1>9, <1>10, <1>11, <1>12 DEF Inv, c

LEMMA ImmediateStep ==
  ASSUME Inv, NEW w \in Workers, Immediate(w)
  PROVE  Inv' /\ (UNCHANGED Cache!vars \/ \E c \in Calls : \E v \in {result[c], 1, NoValue} : Cache!Answer(c, v))
<1> DEFINE r == Head(immediates[w])
<1>1. /\ immediates[w] # <<>> /\ immediates' = [immediates EXCEPT ![w] = Tail(@)]
      /\ \/ r.id \in DOMAIN msgs[w] /\ Settle(w, r.id, r.value)
         \/ r.id \notin DOMAIN msgs[w] /\ UNCHANGED <<status, answer, msgs, timers>>
      /\ UNCHANGED <<value, result, callId, nextId, toMaster, toWorker>>
  BY DEF Immediate
<1>2. immediates[w] \in Seq(Reply)
  BY DEF Inv, Types
<1>3. /\ r \in Reply /\ Tail(immediates[w]) \in Seq(Reply)
      /\ r \in Elems(immediates[w]) /\ Elems(Tail(immediates[w])) \subseteq Elems(immediates[w])
  BY <1>1, <1>2, HeadTail
<1> HIDE DEF r
<1>4. /\ immediates' \in [Workers -> Seq(Reply)]
      /\ \A u \in Workers : Elems(immediates'[u]) \subseteq Elems(immediates[u])
  BY <1>1, <1>3 DEF Inv, Types
<1>5. CASE r.id \in DOMAIN msgs[w] /\ Settle(w, r.id, r.value)
  <2>1. r.value \in Values
    BY <1>3 DEF Reply
  <2>2. r.value = result[msgs[w][r.id]]
    BY <1>3, <1>5 DEF Inv, Replies
  <2>3. msgs[w][r.id] \in Calls
    BY <1>5, Entry
  <2>4. Inv' /\ Cache!Answer(msgs[w][r.id], r.value)
    BY <1>1, <1>4, <1>5, <2>1, <2>2, SettleStep
  <2> QED BY <2>2, <2>3, <2>4
<1>6. CASE UNCHANGED <<status, answer, msgs, timers>>
  <2>1. Types' /\ Numbers' /\ Table' /\ Waiting' /\ Requests' /\ NewCalls'
    BY <1>1, <1>4, <1>6 DEF Inv, Types, Numbers, Table, Waiting, Requests, NewCalls, Deferred
  <2>2. Replies'
    BY <1>1, <1>4, <1>6 DEF Inv, Replies
  <2> QED BY <1>1, <1>6, <2>1, <2>2 DEF Inv, Cache!vars
<1> QED BY <1>1, <1>5, <1>6

LEMMA TimeoutStep ==
  ASSUME Inv, NEW c \in Calls, Timeout(c)
  PROVE  Inv' /\ \E v \in {result[c], 1, NoValue} : Cache!Answer(c, v)
<1>1. /\ c \in timers /\ callId[c] \in DOMAIN msgs[Caller[c]]
      /\ Settle(Caller[c], callId[c], Sent(c))
      /\ UNCHANGED <<value, result, callId, nextId, toMaster, toWorker, immediates>>
  BY DEF Timeout, channels
<1>2. Deferred(c) /\ Caller[c] \in Workers /\ status[c] = "open"
  BY <1>1 DEF Inv, Waiting, Deferred
<1>3. msgs[Caller[c]][callId[c]] = c
  <2>1. /\ msgs[Caller[c]][callId[c]] \in Calls /\ status[msgs[Caller[c]][callId[c]]] = "open"
        /\ Caller[msgs[Caller[c]][callId[c]]] = Caller[c] /\ callId[msgs[Caller[c]][callId[c]]] = callId[c]
        /\ Deferred(msgs[Caller[c]][callId[c]])
    BY <1>1, <1>2, Entry
  <2> QED BY <1>2, <2>1 DEF Inv, Numbers
<1>4. Sent(c) \in Values /\ Sent(c) \in {1, NoValue}
  BY DEF Sent, Values
<1>5. immediates' \in [Workers -> Seq(Reply)] /\ \A u \in Workers : Elems(immediates'[u]) \subseteq Elems(immediates[u])
  BY <1>1 DEF Inv, Types
<1>6. Inv' /\ Cache!Answer(c, Sent(c))
  BY <1>1, <1>2, <1>3, <1>4, <1>5, SettleStep
<1> QED BY <1>4, <1>6

LEMMA Step == Inv /\ [Next]_vars => Inv' /\ [Cache!Next]_(Cache!vars)
<1> SUFFICES ASSUME Inv, [Next]_vars PROVE Inv' /\ (Cache!Next \/ UNCHANGED Cache!vars)
  OBVIOUS
<1>1. CASE Evict
  BY <1>1, EvictStep DEF Cache!Next
<1>2. ASSUME NEW w \in Workers, Serve(w) PROVE Inv' /\ Cache!Next
  <2>1. Head(toMaster[w]) \in Calls
    BY <1>2, HeadTail DEF Inv, Types, Serve
  <2> QED BY <1>2, <2>1, ServeStep DEF Cache!Next
<1>3. ASSUME NEW w \in Workers, Receive(w) PROVE Inv' /\ UNCHANGED Cache!vars
  BY <1>3, ReceiveStep
<1>4. ASSUME NEW w \in Workers, Immediate(w) PROVE Inv' /\ (Cache!Next \/ UNCHANGED Cache!vars)
  BY <1>4, ImmediateStep DEF Cache!Next
<1>5. ASSUME NEW c \in Calls, CallAtHome(c) PROVE Inv' /\ Cache!Next
  BY <1>5, HomeStep DEF Cache!Next
<1>6. ASSUME NEW c \in Calls, Call(c) PROVE Inv' /\ Cache!Next
  BY <1>6, CallStep DEF Cache!Next
<1>7. ASSUME NEW c \in Calls, Post(c) PROVE Inv' /\ Cache!Next
  BY <1>7, PostStep DEF Cache!Next
<1>8. ASSUME NEW c \in Calls, Timeout(c) PROVE Inv' /\ Cache!Next
  BY <1>8, TimeoutStep DEF Cache!Next
<1>9. CASE UNCHANGED vars
  BY <1>9 DEF vars, Inv, Types, Numbers, Table, Waiting, Requests, Replies, NewCalls, Deferred, Cache!vars
<1> QED BY <1>1, <1>2, <1>3, <1>4, <1>5, <1>6, <1>7, <1>8, <1>9 DEF Next

LEMMA Invariant == Spec => []Inv
BY InvInit, Step, PTL DEF Spec

-----------------------------------------------------------------------------
(* The theorems. *)

\* The type invariant.
THEOREM TypeCorrect == Spec => []TypeOK
<1>1. Inv => TypeOK
  BY DEF Inv, Types, Table, TypeOK
<1> QED BY <1>1, Invariant, PTL

\* No timer outlives its entry in the table, and no entry is without a timer.
THEOREM TableTimers == Spec => []TableMatchesTimers
<1>1. Inv => TableMatchesTimers
  BY DEF Inv, Table, Waiting, TableMatchesTimers
<1> QED BY <1>1, Invariant, PTL

\* The calls of all processes are operations of one cache: a callback is never
\* given the result of another call, however late the replies are.
THEOREM OneCache == Spec => ImplementsSharedCache
<1>1. Init => Cache!Init
  BY DEF Init, Cache!Init
<1> QED BY <1>1, Step, InvInit, PTL DEF Spec, ImplementsSharedCache, Cache!Spec

-----------------------------------------------------------------------------
(* The processes of the web server (ServerCluster).                        *)

\* A worker that leaves the list.
LEMMA WorkerRemoved ==
  ASSUME NEW S, NEW s \in Seq(S), NEW i \in DOMAIN s
  PROVE  /\ RemoveAt(s, i) \in Seq(S) /\ Len(RemoveAt(s, i)) = Len(s) - 1
         /\ \A j \in 1 .. Len(s) - 1 : RemoveAt(s, i)[j] = IF j < i THEN s[j] ELSE s[j + 1]
<1>1. Len(s) \in Nat /\ DOMAIN s = 1 .. Len(s) /\ i \in 1 .. Len(s)
  OBVIOUS
<1> DEFINE a == SubSeq(s, 1, i - 1)
           b == SubSeq(s, i + 1, Len(s))
<1>2. /\ SubSeq(s, 1, i - 1) \in Seq(S) /\ Len(SubSeq(s, 1, i - 1)) = i - 1
      /\ \A j \in 1 .. i - 1 : SubSeq(s, 1, i - 1)[j] = s[j]
  BY <1>1
<1>3. /\ SubSeq(s, i + 1, Len(s)) \in Seq(S) /\ Len(SubSeq(s, i + 1, Len(s))) = Len(s) - i
      /\ \A j \in 1 .. Len(s) - i : SubSeq(s, i + 1, Len(s))[j] = s[j + i]
  BY <1>1
<1>4. RemoveAt(s, i) = a \o b
  BY DEF RemoveAt
<1> HIDE DEF a, b
<1>5. /\ a \o b \in Seq(S) /\ Len(a \o b) = Len(a) + Len(b)
      /\ \A j \in 1 .. Len(a) : (a \o b)[j] = a[j]
      /\ \A j \in Len(a) + 1 .. Len(a) + Len(b) : (a \o b)[j] = b[j - Len(a)]
  <2>1. a \in Seq(S) /\ b \in Seq(S)
    BY <1>2, <1>3 DEF a, b
  <2> QED
    BY <2>1, ConcatProperties
<1>6. Len(a) = i - 1 /\ Len(b) = Len(s) - i /\ (\A j \in 1 .. i - 1 : a[j] = s[j])
      /\ \A j \in 1 .. Len(s) - i : b[j] = s[j + i]
  BY <1>2, <1>3 DEF a, b
<1>7. Len(a \o b) = Len(s) - 1
  BY <1>1, <1>5, <1>6
<1>8. ASSUME NEW j \in 1 .. Len(s) - 1
      PROVE  (a \o b)[j] = IF j < i THEN s[j] ELSE s[j + 1]
  <2>1. CASE j < i
    BY <1>1, <1>5, <1>6, <2>1
  <2>2. CASE ~(j < i)
    <3> DEFINE k == j - i + 1
    <3>1. /\ j \in Len(a) + 1 .. Len(a) + Len(b) /\ j - Len(a) = k
          /\ k \in 1 .. Len(s) - i /\ k + i = j + 1
      <4>1. /\ i \in Nat /\ j \in Nat /\ Len(s) \in Nat /\ i >= 1 /\ i <= Len(s) /\ j >= i
            /\ j <= Len(s) - 1
        BY <1>1, <2>2
      <4>2. Len(a) = i - 1 /\ Len(b) = Len(s) - i
        BY <1>6
      <4>3. j \in i .. (i - 1) + (Len(s) - i) /\ (i - 1) + 1 = i
        BY <4>1
      <4>4. j \in Len(a) + 1 .. Len(a) + Len(b)
        BY <4>2, <4>3
      <4>5. j - Len(a) = k
        BY <4>1, <4>2
      <4>6. k \in 1 .. Len(s) - i /\ k + i = j + 1
        BY <4>1
      <4> QED
        BY <4>4, <4>5, <4>6
    <3> HIDE DEF k
    <3>2. b[k] = s[j + 1]
      BY <1>6, <3>1
    <3> QED
      BY <1>5, <2>2, <3>1, <3>2
  <2> QED
    BY <2>1, <2>2
<1> QED
  BY <1>4, <1>5, <1>7, <1>8

LEMMA ChangedWorker ==
  ASSUME NEW w \in Worker
  PROVE  /\ \A x \in {"starting", "ready", "closing", "aborting", "hung", "killed"} :
              [w EXCEPT !.st = x] \in Worker /\ [w EXCEPT !.st = x].st = x
         /\ [w EXCEPT !.old = TRUE] \in Worker /\ [w EXCEPT !.old = TRUE].st = w.st
BY DEF Worker

\* A worker that is told to restart or to stop.
LEMMA AskedWorker ==
  ASSUME NEW w \in Worker
  PROVE  /\ Asked(w) \in Worker
         /\ w.st = "ready" => Asked(w).st = "closing"
         /\ w.st = "closing" => Asked(w).st = "closing"
BY DEF Asked, Worker

\* The delay and the crash counters that server.respawn comes to.
LEMMA RespawnTypes ==
  ASSUME NEW c \in [age : 0 .. CrashInterval, events : Nat]
  PROVE  /\ Respawn(c).delay \in CrashTimeout .. CrashDelay /\ Respawn(c).delay \in 0 .. CrashDelay
         /\ Respawn(c).crash \in [age : 0 .. CrashInterval, events : Nat]
BY ClusterAssumption DEF Respawn

LEMMA OlderAge ==
  ASSUME NEW n \in Nat, NEW a \in 0 .. n
  PROVE  /\ Older(a, n) \in 0 .. n /\ Older(a, n) >= a
         /\ Older(a, n) = n \/ Older(a, n) = a + 1
BY DEF Older, Smaller

LEMMA SpanIsNat == Span \in Nat /\ Kept \in Nat /\ Kept > 2
<1>1. (CrashCount + 1) * CrashTimeout \in Nat
  BY ClusterAssumption
<1> QED
  BY <1>1, ClusterAssumption DEF Span, Smaller, Larger, Kept

-----------------------------------------------------------------------------
(* What the processes' states have to do with each other.                  *)

TimersInv ==
  /\ unseen => server = "down" /\ ptimer = None
  /\ ptimer # None => server = "down" /\ parent # "gone" /\ (parent = "master" => orphans = 0)
  /\ server # "down" => (parent = "master" => orphans = 0)
  /\ server = "down" => workers = <<>> /\ pending = <<>> /\ restarting = 0

ClusterInv == ClusterTypeOK /\ TimersInv /\ Strength

LEMMA ClusterInitially == ClusterInit => ClusterInv
<1> SUFFICES ASSUME ClusterInit PROVE ClusterInv
  OBVIOUS
<1> USE ClusterAssumption
<1>1. workers \in Seq(Worker) /\ Len(workers) = MaxProcesses
  <2>1. NewWorker \in Worker
    BY DEF NewWorker, Worker
  <2> QED
    BY <2>1 DEF ClusterInit
<1>2. starts \in Seq(0 .. Span)
  BY SpanIsNat DEF ClusterInit
<1>3. unseen \in BOOLEAN /\ calm \in BOOLEAN
  BY Zenon DEF ClusterInit
<1>4. /\ pcrash \in [age : 0 .. CrashInterval, events : Nat]
      /\ crash \in [age : 0 .. CrashInterval, events : Nat]
  BY DEF ClusterInit, Never
<1>5. pending \in Seq(0 .. CrashDelay) /\ Len(pending) = 0
  BY DEF ClusterInit
<1>6. ClusterTypeOK
  BY <1>1, <1>2, <1>3, <1>4, <1>5 DEF ClusterTypeOK, ClusterInit
<1>7. TimersInv
  BY DEF ClusterInit, TimersInv
<1> QED
  BY <1>1, <1>5, <1>6, <1>7 DEF ClusterInv, ClusterInit, Strength

\* What a step leaves alone besides the processes.
Others == faults' \in 0 .. Faults /\ signals' \in 0 .. Signals /\ calm' \in BOOLEAN
          /\ starts' \in Seq(0 .. Span) /\ pings' = pings

LEMMA ServerExitsStep ==
  ASSUME ClusterInv, Others, server # "down", ServerExits, UNCHANGED <<parent, pcrash, ptimer>>
  PROVE  ClusterInv'
<1> USE ClusterAssumption DEF ClusterInv
<1> DEFINE H == {i \in DOMAIN workers : workers[i].st = "hung"}
<1>1. Len(workers) \in 0 .. MaxProcesses /\ Len(pending) \in Nat /\ orphans \in Nat
  BY DEF ClusterTypeOK, Strength, TimersInv
<1>2. Cardinality(H) \in Nat
  <2>1. DOMAIN workers = 1 .. Len(workers)
    BY DEF ClusterTypeOK
  <2>2. IsFiniteSet(DOMAIN workers) /\ Cardinality(DOMAIN workers) = Len(workers)
    <3>1. Len(workers) \in Int /\ 1 \in Int
      BY <1>1
    <3>2. /\ IsFiniteSet(1 .. Len(workers))
          /\ Cardinality(1 .. Len(workers)) = IF 1 > Len(workers) THEN 0 ELSE Len(workers) - 1 + 1
      BY <3>1, FS_Interval
    <3> QED
      BY <1>1, <2>1, <3>2
  <2> QED
    BY <2>2, FS_Subset, FS_CardinalityType
<1>3. orphans' \in Nat
  BY <1>1, <1>2 DEF ServerExits
<1>4. ClusterTypeOK'
  <2>1. crash' \in [age : 0 .. CrashInterval, events : Nat] /\ pending' \in Seq(0 .. CrashDelay)
        /\ workers' \in Seq(Worker) /\ restarting' \in 0 .. MaxProcesses
    BY DEF ServerExits, Never
  <2> QED
    BY <1>3, <2>1 DEF ClusterTypeOK, ServerExits, Others
<1>5. TimersInv' /\ Strength'
  BY DEF TimersInv, Strength, ServerExits
<1> QED
  BY <1>4, <1>5

LEMMA WorkerExitsStep ==
  ASSUME ClusterInv, Others, NEW i \in DOMAIN workers, WorkerExits(i),
         UNCHANGED <<parent, pcrash, ptimer>>
  PROVE  ClusterInv'
<1> USE ClusterAssumption DEF ClusterInv
<1> DEFINE left == RemoveAt(workers, i)
           r == Respawn(crash)
<1>1. /\ workers \in Seq(Worker) /\ pending \in Seq(0 .. CrashDelay)
      /\ Len(workers) \in Nat /\ Len(pending) \in Nat
  BY DEF ClusterTypeOK
<1>2. left \in Seq(Worker) /\ Len(left) = Len(workers) - 1
  BY <1>1, WorkerRemoved
<1>3. server # "down"
  BY DEF TimersInv
<1>4. CASE server = "exiting" /\ left = <<>>
  BY <1>3, <1>4, ServerExitsStep DEF WorkerExits
<1>5. CASE server = "exiting" /\ left # <<>>
  <2>1. /\ workers' = left
        /\ UNCHANGED <<server, unseen, orphans, crash, pending, restarting>>
    BY <1>5 DEF WorkerExits
  <2>2. ClusterTypeOK'
    BY <1>2, <2>1 DEF ClusterTypeOK, Others
  <2> QED
    BY <1>1, <1>2, <1>5, <2>1, <2>2 DEF TimersInv, Strength
<1>6. CASE server = "up"
  <2>1. /\ workers' = left /\ crash' = r.crash /\ pending' = Append(pending, r.delay)
        /\ UNCHANGED <<server, unseen, orphans, restarting>>
    BY <1>6 DEF WorkerExits
  <2>2. crash \in [age : 0 .. CrashInterval, events : Nat]
    BY DEF ClusterTypeOK
  <2>3. crash' \in [age : 0 .. CrashInterval, events : Nat] /\ pending' \in Seq(0 .. CrashDelay)
        /\ Len(pending') = Len(pending) + 1
    BY <1>1, <2>1, <2>2, RespawnTypes
  <2>4. ClusterTypeOK'
    BY <1>2, <2>1, <2>3 DEF ClusterTypeOK, Others
  <2> QED
    <3>1. Len(workers') + Len(pending') = Len(workers) + Len(pending)
      <4>1. Len(workers') = Len(workers) - 1
        BY <1>2, <2>1
      <4>2. Len(pending') = Len(pending) + 1
        BY <2>3
      <4>3. Len(workers) \in Nat /\ Len(pending) \in Nat
        BY <1>1
      <4> QED
        BY <4>1, <4>2, <4>3
    <3>2. Strength'
      BY <1>6, <2>1, <3>1 DEF Strength
    <3>3. TimersInv'
      BY <1>6, <2>1 DEF TimersInv
    <3> QED
      BY <2>4, <3>2, <3>3
<1> QED
  BY <1>3, <1>4, <1>5, <1>6 DEF ClusterTypeOK

\* One worker, if any, is told to restart.
LEMMA NextRestartStep ==
  ASSUME NEW ws \in Seq(Worker), NEW n \in 0 .. MaxProcesses, NextRestart(ws, n)
  PROVE  /\ workers' \in Seq(Worker) /\ Len(workers') = Len(ws)
         /\ restarting' \in 0 .. MaxProcesses
         /\ n = 0 => restarting' = 0
<1> USE ClusterAssumption
<1>1. CASE n > 0 /\ ws # <<>>
  <2>1. Len(ws) \in Nat /\ Len(ws) > 0 /\ ws[1] \in Worker
    BY <1>1
  <2>2. Asked(ws[1]) \in Worker
    BY <2>1, AskedWorker
  <2>3. workers' = [ws EXCEPT ![1] = Asked(ws[1])] /\ restarting' = n - 1
    BY <1>1 DEF NextRestart
  <2> QED
    BY <1>1, <2>1, <2>2, <2>3
<1>2. CASE ~(n > 0 /\ ws # <<>>)
  BY <1>2 DEF NextRestart
<1> QED
  BY <1>1, <1>2

LEMMA ClusterStep == ClusterInv /\ [ClusterNext]_clusterVars => ClusterInv'
<1> SUFFICES ASSUME ClusterInv, [ClusterNext]_clusterVars PROVE ClusterInv'
  OBVIOUS
<1> USE ClusterAssumption
<1>0. /\ workers \in Seq(Worker) /\ Len(workers) \in Nat /\ DOMAIN workers = 1 .. Len(workers)
      /\ pending \in Seq(0 .. CrashDelay) /\ Len(pending) \in Nat
      /\ server # "down" => Len(workers) <= MaxProcesses /\ Len(pending) <= MaxProcesses
  BY DEF ClusterInv, ClusterTypeOK, Strength
<1>1. ASSUME Restart PROVE ClusterInv'
  <2> DEFINE ws == [i \in DOMAIN workers |-> [workers[i] EXCEPT !.old = TRUE]]
  <2>1. CASE restarting > 0
    <3>1. UNCHANGED <<pings, workers, restarting, calm, procs, crash, pending, faults, starts>>
      BY <1>1, <2>1 DEF Restart
    <3>2. signals' \in 0 .. Signals
      <4>1. signals \in 0 .. Signals
        BY DEF ClusterInv, ClusterTypeOK
      <4>2. signals > 0 /\ signals' = signals - 1
        BY <1>1 DEF Restart
      <4> QED
        BY <4>1, <4>2
    <3> QED
      BY <3>1, <3>2 DEF ClusterInv, ClusterTypeOK, TimersInv, Strength, procs
  <2>2. CASE ~(restarting > 0)
    <3>1. ws \in Seq(Worker) /\ Len(ws) = Len(workers)
      <4>1. \A i \in DOMAIN workers : ws[i] \in Worker
        <5>1. \A i \in DOMAIN workers : workers[i] \in Worker
          BY <1>0
        <5> QED
          BY <5>1, ChangedWorker
      <4> QED
        BY <1>0, <4>1
    <3>2. NextRestart(ws, Len(workers)) /\ calm' \in BOOLEAN
      BY <1>1, <2>2, Zenon DEF Restart
    <3>3. server # "down" /\ Len(workers) \in 0 .. MaxProcesses
      BY <1>0, <1>1 DEF Restart
    <3>4. /\ workers' \in Seq(Worker) /\ Len(workers') = Len(workers)
          /\ restarting' \in 0 .. MaxProcesses
      BY <3>1, <3>2, <3>3, NextRestartStep
    <3>5. UNCHANGED <<pings, procs, crash, pending, faults, starts>> /\ signals' \in 0 .. Signals
      <4>1. signals \in 0 .. Signals
        BY DEF ClusterInv, ClusterTypeOK
      <4>2. /\ signals > 0 /\ signals' = signals - 1
            /\ UNCHANGED <<pings, procs, crash, pending, faults, starts>>
        BY <1>1 DEF Restart
      <4> QED
        BY <4>1, <4>2
    <3>6. ClusterTypeOK'
      BY <3>2, <3>4, <3>5 DEF ClusterInv, ClusterTypeOK, procs
    <3> QED
      BY <1>0, <3>3, <3>4, <3>5, <3>6 DEF ClusterInv, TimersInv, Strength, procs
  <2> QED
    BY <2>1, <2>2
<1>2. ASSUME NEW i \in DOMAIN workers, Ready(i) PROVE ClusterInv'
  <2> DEFINE ws == [workers EXCEPT ![i].st = IF @ = "starting" THEN "ready" ELSE "closing"]
  <2>1. ws \in Seq(Worker) /\ Len(ws) = Len(workers)
    <3>1. workers[i] \in Worker
      BY <1>0
    <3>2. [workers[i] EXCEPT !.st = IF @ = "starting" THEN "ready" ELSE "closing"] \in Worker
      BY <3>1, ChangedWorker
    <3> QED
      BY <1>0, <3>2
  <2>2. restarting \in 0 .. MaxProcesses
    BY DEF ClusterInv, ClusterTypeOK
  <2>3. /\ workers' \in Seq(Worker) /\ Len(workers') = Len(workers)
        /\ restarting' \in 0 .. MaxProcesses /\ (restarting = 0 => restarting' = 0)
    BY <1>2, <2>1, <2>2, NextRestartStep DEF Ready
  <2>4. ClusterTypeOK'
    BY <1>2, <2>3 DEF ClusterInv, ClusterTypeOK, Ready, procs, bounds
  <2> QED
    BY <1>0, <1>2, <2>3, <2>4 DEF ClusterInv, TimersInv, Strength, Ready, procs, bounds
<1>3. ASSUME NEW i \in DOMAIN workers, ShutdownDone(i) PROVE ClusterInv'
  <2>1. Others
    BY <1>3 DEF ShutdownDone, Others, ClusterInv, ClusterTypeOK, bounds
  <2> QED
    BY <1>3, <2>1, WorkerExitsStep DEF ShutdownDone
<1>4. ASSUME NEW i \in DOMAIN workers, Crash(i) PROVE ClusterInv'
  <2>1. calm' \in BOOLEAN
    BY <1>4, Zenon DEF Crash
  <2>2. Others
    BY <1>4, <2>1 DEF Crash, Others, ClusterInv, ClusterTypeOK
  <2> QED
    BY <1>4, <2>2, WorkerExitsStep DEF Crash
<1>5. ASSUME NEW i \in DOMAIN workers, PingKill(i) PROVE ClusterInv'
  <2>1. Others
    BY <1>5 DEF PingKill, Others, ClusterInv, ClusterTypeOK, bounds
  <2> QED
    BY <1>5, <2>1, WorkerExitsStep DEF PingKill
<1>6. ASSUME NEW i \in DOMAIN workers, Hang(i) PROVE ClusterInv'
  <2>1. workers' \in Seq(Worker) /\ Len(workers') = Len(workers)
    <3>1. workers[i] \in Worker
      BY <1>0
    <3>2. [workers[i] EXCEPT !.st = "hung"] \in Worker
      BY <3>1, ChangedWorker
    <3> QED
      BY <1>0, <1>6, <3>2 DEF Hang
  <2>2. calm' \in BOOLEAN
    BY <1>6, Zenon DEF Hang
  <2>3. faults' \in 0 .. Faults
    <3>1. faults \in 0 .. Faults
      BY DEF ClusterInv, ClusterTypeOK
    <3>2. faults > 0 /\ faults' = faults - 1
      BY <1>6 DEF Hang
    <3> QED
      BY <3>1, <3>2
  <2>4. ClusterTypeOK'
    BY <1>6, <2>1, <2>2, <2>3 DEF ClusterInv, ClusterTypeOK, Hang, procs
  <2> QED
    BY <1>0, <1>6, <2>1, <2>4 DEF ClusterInv, TimersInv, Strength, Hang, procs
<1>7. ASSUME Fork PROVE ClusterInv'
  <2>1. PICK i \in Due : pending' = RemoveAt(pending, i)
    BY <1>7 DEF Fork
  <2>2. pending' \in Seq(0 .. CrashDelay) /\ Len(pending') = Len(pending) - 1 /\ Len(pending) > 0
    BY <1>0, <2>1, WorkerRemoved DEF Due
  <2>3. workers' \in Seq(Worker) /\ Len(workers') = Len(workers) + 1
    <3>1. NewWorker \in Worker
      BY DEF NewWorker, Worker
    <3> QED
      BY <1>0, <1>7, <3>1 DEF Fork
  <2>4. server # "down"
    BY <1>0, <2>2 DEF ClusterInv, TimersInv
  <2>5. ClusterTypeOK'
    BY <1>7, <2>2, <2>3 DEF ClusterInv, ClusterTypeOK, Fork, procs, bounds
  <2> QED
    <3>1. UNCHANGED <<parent, ptimer, server, unseen, orphans, restarting>>
      BY <1>7 DEF Fork, procs
    <3>2. Len(workers') + Len(pending') = Len(workers) + Len(pending)
      BY <1>0, <2>2, <2>3
    <3>3. Strength'
      BY <3>1, <3>2 DEF ClusterInv, Strength
    <3>4. TimersInv'
      BY <2>4, <3>1 DEF ClusterInv, TimersInv
    <3> QED
      BY <2>5, <3>3, <3>4 DEF ClusterInv
<1>8. ASSUME server # "down", TerminateWorkers,
             \/ parent' = parent /\ ptimer' = ptimer
             \/ parent' = "gone" /\ ptimer' = None,
             signals' \in 0 .. Signals,
             UNCHANGED <<pings, pcrash, unseen, orphans, crash, pending, restarting, faults, starts>>
      PROVE  ClusterInv'
  <2>1. workers' \in Seq(Worker) /\ Len(workers') = Len(workers)
    <3>1. \A i \in DOMAIN workers : Asked(workers[i]) \in Worker
      BY <1>0, AskedWorker
    <3> QED
      BY <1>0, <1>8, <3>1 DEF TerminateWorkers
  <2>2. ClusterTypeOK'
    BY <1>8, <2>1 DEF ClusterInv, ClusterTypeOK, TerminateWorkers
  <2> QED
    BY <1>0, <1>8, <2>1, <2>2 DEF ClusterInv, TimersInv, Strength, TerminateWorkers
<1>9. ASSUME Terminate PROVE ClusterInv'
  <2>1. signals' \in 0 .. Signals
    BY <1>9 DEF ClusterInv, ClusterTypeOK, Terminate
  <2> QED
    <3>1. server # "down" /\ TerminateWorkers
      BY <1>9 DEF Terminate
    <3>2. \/ parent' = parent /\ ptimer' = ptimer
          \/ parent' = "gone" /\ ptimer' = None
      BY <1>9 DEF Terminate
    <3>3. UNCHANGED <<pings, pcrash, unseen, orphans, crash, pending, restarting, faults, starts>>
      BY <1>9 DEF Terminate
    <3> QED
      BY <1>8, <2>1, <3>1, <3>2, <3>3
<1>10. ASSUME TerminateParent PROVE ClusterInv'
  <2>1. signals' \in 0 .. Signals
    BY <1>10 DEF ClusterInv, ClusterTypeOK, TerminateParent
  <2>2. CASE server = "up"
    BY <1>8, <1>10, <2>1, <2>2 DEF TerminateParent
  <2>3. CASE server # "up"
    BY <1>10, <2>1, <2>3 DEF ClusterInv, ClusterTypeOK, TimersInv, Strength, TerminateParent
  <2> QED
    BY <2>2, <2>3
<1>11. ASSUME HardExit PROVE ClusterInv'
  <2>1. Others
    BY <1>11 DEF HardExit, Others, ClusterInv, ClusterTypeOK, bounds
  <2> QED
    BY <1>11, <2>1, ServerExitsStep DEF HardExit
<1>12. ASSUME ServerCrash PROVE ClusterInv'
  <2>1. calm' \in BOOLEAN
    BY <1>12, Zenon DEF ServerCrash
  <2>2. Others
    BY <1>12, <2>1 DEF ServerCrash, Others, ClusterInv, ClusterTypeOK
  <2> QED
    BY <1>12, <2>2, ServerExitsStep DEF ServerCrash
<1>13. ASSUME ServerExitSeen PROVE ClusterInv'
  <2>1. pcrash \in [age : 0 .. CrashInterval, events : Nat]
    BY DEF ClusterInv, ClusterTypeOK
  <2>2. pcrash' \in [age : 0 .. CrashInterval, events : Nat] /\ ptimer' \in 0 .. CrashDelay
    BY <1>13, <2>1, RespawnTypes DEF ServerExitSeen
  <2>3. unseen' \in BOOLEAN
    BY <1>13, Zenon DEF ServerExitSeen
  <2>4. /\ orphans' \in Nat /\ (parent = "master" => orphans' = 0)
        /\ UNCHANGED <<pings, parent, server, cluster, bounds, starts, calm>>
    BY <1>13 DEF ServerExitSeen, ClusterInv, ClusterTypeOK
  <2>5. ClusterTypeOK'
    BY <2>2, <2>3, <2>4 DEF ClusterInv, ClusterTypeOK, cluster, bounds
  <2> QED
    BY <1>13, <2>4, <2>5 DEF ClusterInv, TimersInv, Strength, ServerExitSeen, cluster, bounds
<1>14. ASSUME StartServer PROVE ClusterInv'
  <2>1. workers' \in Seq(Worker) /\ Len(workers') = MaxProcesses
    <3>1. NewWorker \in Worker
      BY DEF NewWorker, Worker
    <3> QED
      BY <1>14, <3>1 DEF StartServer
  <2>2. ptimer # None /\ pending' = <<>>
    BY <1>14 DEF StartServer, None, ClusterInv, TimersInv
  <2>3. starts' \in Seq(0 .. Span)
    <3>1. starts \in Seq(0 .. Span) /\ Len(starts) \in Nat
      BY DEF ClusterInv, ClusterTypeOK
    <3> DEFINE n == Smaller(Len(starts) + 1, Kept)
    <3>2. n \in Nat /\ n <= Len(starts) + 1
      BY <3>1, SpanIsNat DEF Smaller
    <3>3. starts' = [m \in 1 .. n |-> IF m = 1 THEN 0 ELSE starts[m - 1]]
      BY <1>14 DEF StartServer
    <3> HIDE DEF n
    <3>4. \A m \in 1 .. n : (IF m = 1 THEN 0 ELSE starts[m - 1]) \in 0 .. Span
      BY <3>1, <3>2, SpanIsNat
    <3> QED
      BY <3>2, <3>3, <3>4
  <2>4. ClusterTypeOK'
    BY <1>14, <2>1, <2>3 DEF ClusterInv, ClusterTypeOK, StartServer, bounds
  <2> QED
    BY <1>14, <2>1, <2>2, <2>4 DEF ClusterInv, TimersInv, Strength, StartServer
<1>15. ASSUME Tick PROVE ClusterInv'
  <2>1. ptimer' \in {None} \cup 0 .. CrashDelay /\ (ptimer' = None <=> ptimer = None)
    <3>1. ptimer \in {None} \cup 0 .. CrashDelay
      BY DEF ClusterInv, ClusterTypeOK
    <3>2. ptimer # 0 /\ ptimer' = IF ptimer = None THEN None ELSE ptimer - 1
      BY <1>15 DEF Tick
    <3> QED
      BY <3>1, <3>2 DEF None
  <2>2. pending' \in Seq(0 .. CrashDelay) /\ Len(pending') = Len(pending)
    <3>1. \A i \in 1 .. Len(pending) : pending[i] - 1 \in 0 .. CrashDelay
      BY <1>0, <1>15 DEF Tick, Due
    <3>2. pending' = [i \in 1 .. Len(pending) |-> pending[i] - 1]
      BY <1>0, <1>15 DEF Tick
    <3> QED
      BY <1>0, <3>1, <3>2
  <2>3. /\ pcrash' \in [age : 0 .. CrashInterval, events : Nat]
        /\ crash' \in [age : 0 .. CrashInterval, events : Nat]
    <3>1. /\ pcrash \in [age : 0 .. CrashInterval, events : Nat]
          /\ crash \in [age : 0 .. CrashInterval, events : Nat]
      BY DEF ClusterInv, ClusterTypeOK
    <3> QED
      BY <1>15, <3>1, OlderAge DEF Tick
  <2>4. starts' \in Seq(0 .. Span)
    <3>1. starts \in Seq(0 .. Span) /\ DOMAIN starts = 1 .. Len(starts) /\ Len(starts) \in Nat
      BY DEF ClusterInv, ClusterTypeOK
    <3>2. \A m \in 1 .. Len(starts) : Older(starts[m], Span) \in 0 .. Span
      BY <3>1, OlderAge, SpanIsNat
    <3>3. starts' = [m \in 1 .. Len(starts) |-> Older(starts[m], Span)]
      BY <1>15, <3>1 DEF Tick
    <3> QED
      BY <3>1, <3>2, <3>3
  <2>5. ClusterTypeOK'
    BY <1>15, <2>1, <2>2, <2>3, <2>4 DEF ClusterInv, ClusterTypeOK, Tick, bounds
  <2>6. pending = <<>> => pending' = <<>>
    BY <1>0, <2>2
  <2> QED
    BY <1>0, <1>15, <2>1, <2>2, <2>5, <2>6 DEF ClusterInv, TimersInv, Strength, Tick, bounds
<1>16. ASSUME NEW i \in DOMAIN workers, Killed(i) PROVE ClusterInv'
  <2>1. Others
    BY <1>16 DEF Killed, Others, ClusterInv, ClusterTypeOK, bounds
  <2> QED
    BY <1>16, <2>1, WorkerExitsStep DEF Killed
<1>17. ASSUME NEW i \in DOMAIN workers, PortInUse(i) PROVE ClusterInv'
  <2>1. workers' \in Seq(Worker) /\ Len(workers') = Len(workers)
    <3>1. \A j \in 1 .. Len(workers) : [workers[j] EXCEPT !.st = "killed"] \in Worker
      <4>1. \A j \in 1 .. Len(workers) : workers[j] \in Worker
        BY <1>0
      <4> QED
        BY <4>1, ChangedWorker
    <3>2. workers' = [j \in 1 .. Len(workers) |-> [workers[j] EXCEPT !.st = "killed"]]
      BY <1>0, <1>17 DEF PortInUse
    <3> QED
      BY <1>0, <3>1, <3>2
  <2>2. calm' \in BOOLEAN
    BY <1>17, Zenon DEF PortInUse
  <2>3. server # "down"
    BY <1>0, <1>17 DEF ClusterInv, TimersInv
  <2>4. ClusterTypeOK'
    BY <1>17, <2>1, <2>2 DEF ClusterInv, ClusterTypeOK, PortInUse, bounds
  <2> QED
    BY <1>0, <1>17, <2>1, <2>3, <2>4 DEF ClusterInv, TimersInv, Strength, PortInUse
<1>18. ASSUME UNCHANGED clusterVars PROVE ClusterInv'
  BY <1>18 DEF ClusterInv, ClusterTypeOK, TimersInv, Strength, clusterVars, procs, cluster, bounds
<1> QED
  BY <1>1, <1>2, <1>3, <1>4, <1>5, <1>6, <1>7, <1>9, <1>10, <1>11, <1>12, <1>13, <1>14, <1>15,
     <1>16, <1>17, <1>18 DEF ClusterNext, Expected

\* The variables of the parent, the web server and its workers stay in their sets
\* (server.js, ipc.js).
THEOREM ClusterTypeCorrect == ClusterSpec => []ClusterTypeOK
<1>1. ClusterInv => ClusterTypeOK
  BY DEF ClusterInv
<1> QED
  BY <1>1, ClusterInitially, ClusterStep, PTL DEF ClusterSpec

\* Every worker that exits is replaced by one timer and every timer by one worker, so a web
\* server that is up has maxProcesses workers or timers, and never more (startWeb).
THEOREM FullStrength == ClusterSpec => []Strength
<1>1. ClusterInv => Strength
  BY DEF ClusterInv
<1> QED
  BY <1>1, ClusterInitially, ClusterStep, PTL DEF ClusterSpec

\* A master starts a web server only after it has killed the workers of the last one, at
\* every one of its exits (handleChildProcess).
THEOREM PortFree == ClusterSpec => PortIsFree
<1>1. ASSUME ClusterInv, [ClusterNext]_clusterVars, parent = "master", server = "down",
             server' = "up"
      PROVE  orphans = 0
  <2>1. ASSUME NEW i \in DOMAIN workers PROVE FALSE
    BY <1>1, <2>1 DEF ClusterInv, TimersInv
  <2>2. CASE StartServer
    BY <1>1, <2>2 DEF ClusterInv, TimersInv, StartServer, None
  <2>3. CASE Fork \/ HardExit \/ ServerExitSeen \/ Tick \/ Restart \/ Terminate
             \/ TerminateParent \/ ServerCrash \/ UNCHANGED clusterVars
    BY <1>1, <2>3 DEF Fork, HardExit, ServerExitSeen, Tick, Restart, Terminate, TerminateParent,
                      ServerCrash, ServerExits, TerminateWorkers, procs, clusterVars
  <2> QED
    BY <1>1, <2>1, <2>2, <2>3 DEF ClusterNext, Expected
<1>2. ClusterInv /\ [ClusterNext]_clusterVars
      => [parent = "master" /\ server = "down" /\ server' = "up" => orphans = 0]_clusterVars
  BY <1>1
<1> QED
  BY <1>2, ClusterInitially, ClusterStep, PTL DEF ClusterSpec, PortIsFree

-----------------------------------------------------------------------------
(* The rolling restart: at most one worker is not ready, because it has    *)
(* been told to stop, because it has stopped, or because it is starting.   *)

AllReadyBut(S) == \A j \in DOMAIN workers \ S : workers[j].st = "ready"

OneInWork ==
  /\ Len(workers) = MaxProcesses
  /\ \E k \in DOMAIN workers :
       workers[k].st \in {"ready", "starting", "closing"} /\ AllReadyBut({k})
OneMissing == Len(workers) = MaxProcesses - 1 /\ AllReadyBut({})

RollingInv == calm => server = "up" /\ (OneInWork \/ OneMissing)

LEMMA RollingStep == ClusterInv /\ RollingInv /\ [ClusterNext]_clusterVars => RollingInv'
<1> SUFFICES ASSUME ClusterInv, RollingInv, [ClusterNext]_clusterVars PROVE RollingInv'
  OBVIOUS
<1> USE ClusterAssumption
<1>0. /\ workers \in Seq(Worker) /\ Len(workers) \in Nat /\ DOMAIN workers = 1 .. Len(workers)
      /\ pending \in Seq(0 .. CrashDelay) /\ Len(pending) \in Nat
      /\ server = "up" => Len(workers) + Len(pending) = MaxProcesses
      /\ \A i \in DOMAIN workers : workers[i] \in Worker
      /\ restarting \in 0 .. MaxProcesses
  BY DEF ClusterInv, ClusterTypeOK, Strength
<1>1. ASSUME Restart PROVE RollingInv'
  <2>1. CASE restarting > 0
    <3>1. UNCHANGED <<workers, calm, server>>
      BY <1>1, <2>1 DEF Restart, procs
    <3> QED
      BY <3>1 DEF RollingInv, OneInWork, OneMissing, AllReadyBut
  <2>2. CASE ~(restarting > 0)
    <3> SUFFICES ASSUME calm' PROVE server' = "up" /\ OneInWork'
      BY DEF RollingInv
    <3> DEFINE ws == [i \in DOMAIN workers |-> [workers[i] EXCEPT !.old = TRUE]]
    <3>1. /\ NextRestart(ws, Len(workers)) /\ server' = server
          /\ calm' = (server = "up" /\ Len(workers) = MaxProcesses
                      /\ \A i \in DOMAIN workers : workers[i].st = "ready")
      BY <1>1, <2>2 DEF Restart, procs
    <3>2. /\ server = "up" /\ Len(workers) = MaxProcesses
          /\ \A i \in DOMAIN workers : workers[i].st = "ready"
      BY <3>1, Zenon
    <3>3. /\ ws \in Seq(Worker) /\ Len(ws) = MaxProcesses
          /\ \A i \in 1 .. MaxProcesses : ws[i] \in Worker /\ ws[i].st = "ready"
      <4>1. \A i \in DOMAIN workers : ws[i] \in Worker /\ ws[i].st = "ready"
        <5> SUFFICES ASSUME NEW i \in DOMAIN workers PROVE ws[i] \in Worker /\ ws[i].st = "ready"
          OBVIOUS
        <5>1. workers[i] \in Worker /\ workers[i].st = "ready"
          BY <1>0, <3>2
        <5>2. ws[i] = [workers[i] EXCEPT !.old = TRUE]
          BY Zenon
        <5> HIDE DEF ws
        <5> DEFINE w == workers[i]
        <5>3. w \in Worker
          BY <5>1
        <5> HIDE DEF w
        <5>4. [w EXCEPT !.old = TRUE] \in Worker /\ [w EXCEPT !.old = TRUE].st = w.st
          BY <5>3, ChangedWorker
        <5> QED
          BY <5>1, <5>2, <5>4 DEF w
      <4>2. ws \in [1 .. MaxProcesses -> Worker]
        <5>1. DOMAIN workers = 1 .. MaxProcesses
          BY <1>0, <3>2
        <5> QED
          BY <4>1, <5>1
      <4> HIDE DEF ws
      <4> QED
        BY <1>0, <3>2, <4>1, <4>2
    <3> HIDE DEF ws
    <3>4. workers' = [ws EXCEPT ![1] = Asked(ws[1])]
      BY <1>0, <3>1, <3>2, <3>3 DEF NextRestart
    <3>5. Asked(ws[1]).st = "closing"
      BY <3>3, AskedWorker
    <3>6. Len(workers') = MaxProcesses /\ DOMAIN workers' = 1 .. MaxProcesses
      BY <3>3, <3>4
    <3>7. workers'[1].st = "closing" /\ \A j \in 2 .. MaxProcesses : workers'[j].st = "ready"
      BY <3>3, <3>4, <3>5
    <3>8. OneInWork'
      BY <3>6, <3>7 DEF OneInWork, AllReadyBut
    <3> QED
      BY <3>1, <3>2, <3>8
  <2> QED
    BY <2>1, <2>2
<1>2. ASSUME NEW i \in DOMAIN workers, Ready(i) PROVE RollingInv'
  <2> SUFFICES ASSUME calm PROVE server' = "up" /\ OneInWork'
    BY <1>2 DEF Ready, RollingInv
  <2> DEFINE ws == [workers EXCEPT ![i].st = IF @ = "starting" THEN "ready" ELSE "closing"]
  <2>1. /\ server = "up" /\ server' = "up" /\ workers[i].st \in {"starting", "aborting"}
        /\ NextRestart(ws, restarting)
    BY <1>2 DEF Ready, RollingInv, procs
  <2>2. ~OneMissing
    BY <2>1 DEF OneMissing, AllReadyBut
  <2>3. PICK k \in DOMAIN workers :
          workers[k].st \in {"ready", "starting", "closing"} /\ AllReadyBut({k})
    BY <2>2 DEF RollingInv, OneInWork
  <2>4. i = k /\ workers[i].st = "starting" /\ Len(workers) = MaxProcesses
    BY <2>1, <2>2, <2>3 DEF RollingInv, OneInWork, AllReadyBut
  <2>5. /\ ws \in Seq(Worker) /\ Len(ws) = MaxProcesses
        /\ \A j \in 1 .. MaxProcesses : ws[j] \in Worker /\ ws[j].st = "ready"
    <3>1. ws = [workers EXCEPT ![i] = [workers[i] EXCEPT !.st = "ready"]]
      BY <2>4
    <3>2. /\ [workers[i] EXCEPT !.st = "ready"] \in Worker
          /\ [workers[i] EXCEPT !.st = "ready"].st = "ready"
      BY <1>0, ChangedWorker
    <3> QED
      BY <1>0, <2>3, <2>4, <3>1, <3>2 DEF AllReadyBut
  <2> HIDE DEF ws
  <2>6. CASE restarting > 0 /\ ws # <<>>
    <3>1. workers' = [ws EXCEPT ![1] = Asked(ws[1])]
      BY <2>1, <2>6 DEF NextRestart
    <3>2. Asked(ws[1]).st = "closing"
      BY <2>5, AskedWorker
    <3>3. Len(workers') = MaxProcesses /\ DOMAIN workers' = 1 .. MaxProcesses
      BY <2>5, <3>1
    <3>4. workers'[1].st = "closing" /\ \A j \in 2 .. MaxProcesses : workers'[j].st = "ready"
      BY <2>5, <3>1, <3>2
    <3> QED
      BY <2>1, <3>3, <3>4 DEF OneInWork, AllReadyBut
  <2>7. CASE ~(restarting > 0 /\ ws # <<>>)
    <3>1. workers' = ws
      BY <2>1, <2>7 DEF NextRestart
    <3> QED
      BY <2>1, <2>5, <3>1 DEF OneInWork, AllReadyBut
  <2> QED
    BY <2>6, <2>7
<1>3. ASSUME NEW i \in DOMAIN workers, ShutdownDone(i) \/ PingKill(i) \/ Killed(i), calm
      PROVE  server' = "up" /\ OneMissing'
  <2>1. server = "up" /\ workers[i].st \in {"closing", "aborting", "hung", "killed"}
        /\ WorkerExits(i)
    BY <1>3 DEF ShutdownDone, PingKill, Killed, RollingInv
  <2>2. workers' = RemoveAt(workers, i) /\ server' = "up"
    BY <2>1 DEF WorkerExits
  <2>3. ~OneMissing
    BY <2>1 DEF OneMissing, AllReadyBut
  <2>4. Len(workers) = MaxProcesses /\ AllReadyBut({i})
    <3>1. PICK k \in DOMAIN workers : Len(workers) = MaxProcesses /\ AllReadyBut({k})
      BY <1>3, <2>3 DEF RollingInv, OneInWork
    <3>2. i = k
      BY <2>1, <3>1 DEF AllReadyBut
    <3> QED
      BY <3>1, <3>2
  <2>5. /\ workers' \in Seq(Worker) /\ Len(workers') = MaxProcesses - 1
        /\ \A j \in 1 .. MaxProcesses - 1 :
             workers'[j] = IF j < i THEN workers[j] ELSE workers[j + 1]
    BY <1>0, <2>2, <2>4, WorkerRemoved
  <2>6. DOMAIN workers' = 1 .. MaxProcesses - 1 /\ i \in 1 .. MaxProcesses
    BY <1>0, <2>4, <2>5
  <2>7. ASSUME NEW j \in 1 .. MaxProcesses - 1 PROVE workers'[j].st = "ready"
    <3>1. CASE j < i
      <4>1. workers'[j] = workers[j] /\ j \in DOMAIN workers \ {i}
        BY <1>0, <2>4, <2>5, <2>6, <3>1
      <4> QED
        BY <2>4, <4>1 DEF AllReadyBut
    <3>2. CASE ~(j < i)
      <4>1. workers'[j] = workers[j + 1] /\ j + 1 \in DOMAIN workers \ {i}
        BY <1>0, <2>4, <2>5, <2>6, <3>2
      <4> QED
        BY <2>4, <4>1 DEF AllReadyBut
    <3> QED
      BY <3>1, <3>2
  <2> QED
    BY <2>2, <2>5, <2>6, <2>7 DEF OneMissing, AllReadyBut
<1>4. ASSUME NEW i \in DOMAIN workers, ShutdownDone(i) \/ PingKill(i) \/ Killed(i)
      PROVE  RollingInv'
  <2>1. calm' = calm
    BY <1>4 DEF ShutdownDone, PingKill, Killed
  <2> QED
    BY <1>3, <1>4, <2>1 DEF RollingInv
<1>5. ASSUME Fork PROVE RollingInv'
  <2> SUFFICES ASSUME calm PROVE server' = "up" /\ OneInWork'
    BY <1>5 DEF Fork, RollingInv
  <2>1. /\ server = "up" /\ server' = "up" /\ Due # {} /\ workers' = Append(workers, NewWorker)
    BY <1>5 DEF Fork, RollingInv, procs
  <2>2. Len(pending) > 0
    BY <1>0, <2>1 DEF Due
  <2>3. Len(workers) = MaxProcesses - 1 /\ \A j \in 1 .. Len(workers) : workers[j].st = "ready"
    <3>1. Len(workers) # MaxProcesses
      <4>1. /\ Len(workers) + Len(pending) = MaxProcesses
            /\ Len(workers) \in Nat /\ Len(pending) \in Nat
        BY <1>0, <2>1
      <4> QED
        BY <2>2, <4>1
    <3>2. OneMissing
      BY <3>1 DEF RollingInv, OneInWork
    <3> QED
      BY <1>0, <3>2 DEF OneMissing, AllReadyBut
  <2>4. NewWorker \in Worker /\ NewWorker.st = "starting"
    BY DEF NewWorker, Worker
  <2>5. /\ Len(workers') = MaxProcesses /\ DOMAIN workers' = 1 .. MaxProcesses
        /\ workers'[MaxProcesses].st = "starting"
        /\ \A j \in 1 .. MaxProcesses - 1 : workers'[j].st = "ready"
    BY <1>0, <2>1, <2>3, <2>4
  <2> QED
    BY <2>1, <2>5 DEF OneInWork, AllReadyBut
<1>6. ASSUME HardExit \/ StartServer \/ ServerExitSeen PROVE RollingInv'
  <2>1. ~calm
    BY <1>6 DEF RollingInv, ClusterInv, TimersInv, HardExit, StartServer, ServerExitSeen, None
  <2>2. calm' = calm
    BY <1>6 DEF HardExit, StartServer, ServerExitSeen
  <2> QED
    BY <2>1, <2>2 DEF RollingInv
<1>7. ASSUME \/ Terminate \/ ServerCrash
             \/ \E i \in DOMAIN workers : Crash(i) \/ Hang(i) \/ PortInUse(i)
      PROVE  RollingInv'
  <2>1. ~calm'
    BY <1>7, Zenon DEF Terminate, TerminateWorkers, ServerCrash, Crash, Hang, PortInUse
  <2> QED
    BY <2>1 DEF RollingInv
<1>8. ASSUME TerminateParent PROVE RollingInv'
  <2>1. ~calm' \/ UNCHANGED <<server, workers, calm>>
    BY <1>8, Zenon DEF TerminateParent, TerminateWorkers
  <2> QED
    BY <2>1 DEF RollingInv, OneInWork, OneMissing, AllReadyBut
<1>9. ASSUME Tick \/ UNCHANGED clusterVars PROVE RollingInv'
  <2>1. UNCHANGED <<server, workers, calm>>
    BY <1>9 DEF Tick, clusterVars, procs, cluster
  <2> QED
    BY <2>1 DEF RollingInv, OneInWork, OneMissing, AllReadyBut
<1> QED
  BY <1>1, <1>2, <1>4, <1>5, <1>6, <1>7, <1>8, <1>9 DEF ClusterNext, Expected

LEMMA OneLeft ==
  ASSUME ClusterInv, RollingInv, calm
  PROVE  Cardinality(ReadyOnes) >= MaxProcesses - 1
<1> USE ClusterAssumption
<1> DEFINE n == Len(workers)
<1>1. workers \in Seq(Worker) /\ n \in Nat /\ DOMAIN workers = 1 .. n
  BY DEF ClusterInv, ClusterTypeOK
<1>2. IsFiniteSet(1 .. n) /\ Cardinality(1 .. n) = n
  <2>1. n \in Int /\ 1 \in Int
    BY <1>1
  <2>2. IsFiniteSet(1 .. n) /\ Cardinality(1 .. n) = IF 1 > n THEN 0 ELSE n - 1 + 1
    BY <2>1, FS_Interval
  <2> QED
    BY <1>1, <2>2
<1>3. IsFiniteSet(ReadyOnes)
  BY <1>1, <1>2, FS_Subset DEF ReadyOnes
<1>4. CASE OneMissing
  <2>1. ReadyOnes = 1 .. n /\ n = MaxProcesses - 1
    BY <1>1, <1>4 DEF OneMissing, AllReadyBut, ReadyOnes
  <2> QED
    BY <1>2, <2>1
<1>5. CASE OneInWork
  <2>1. PICK k \in DOMAIN workers : n = MaxProcesses /\ AllReadyBut({k})
    BY <1>5 DEF OneInWork
  <2>2. IsFiniteSet((1 .. n) \ {k}) /\ Cardinality((1 .. n) \ {k}) = n - 1
    <3>1. k \in 1 .. n
      BY <1>1
    <3> QED
      BY <1>2, <3>1, FS_RemoveElement
  <2>3. (1 .. n) \ {k} \subseteq ReadyOnes
    BY <1>1, <2>1 DEF AllReadyBut, ReadyOnes
  <2>4. Cardinality((1 .. n) \ {k}) <= Cardinality(ReadyOnes)
    BY <1>3, <2>3, FS_Subset
  <2> QED
    BY <1>1, <2>1, <2>2, <2>4
<1> QED
  BY <1>4, <1>5 DEF RollingInv

\* A rolling restart of a full server, in which nothing exits but by its order, has at all
\* times all its workers but one ready (api:restart and api:ready).
THEOREM RollingRestart == ClusterSpec => []OneAtATime
<1>1. ClusterInit => RollingInv
  BY DEF ClusterInit, RollingInv
<1>2. ClusterInv /\ RollingInv => OneAtATime
  BY OneLeft DEF OneAtATime
<1> QED
  BY <1>1, <1>2, ClusterInitially, ClusterStep, RollingStep, PTL DEF ClusterSpec

-----------------------------------------------------------------------------
(* The throttle.  The start whose age is starts[m] has been followed by    *)
(* Gaps(m) exits; a delay follows each of them, of which the last may be   *)
(* running.                                                                *)

InDelay == ptimer # None
DelayLeft == IF InDelay THEN ptimer ELSE 0
Gaps(m) == IF InDelay THEN m ELSE m - 1

\* The delay that is running will be over when the start is as old as that.
AtLeast(m, age) == starts[m] = Span \/ starts[m] + DelayLeft >= age
SlowExit == Larger(CrashInterval, CrashTimeout)

\* A delay takes at least crash.timeout.
UsualDelays == \A m \in DOMAIN starts : AtLeast(m, Gaps(m) * CrashTimeout)
\* After more exits than the quick ones counted in crash.events, one of the delays was the
\* long one or one of the exits was not quick.
QuickOnes == \A m \in DOMAIN starts : Gaps(m) >= pcrash.events + 2
               => AtLeast(m, CrashDelay) \/ AtLeast(m, (Gaps(m) - 1) * CrashTimeout + SlowExit)
\* The last exit was crash.age ago, after all delays but its own.
SinceExit == \A m \in DOMAIN starts : Gaps(m) >= 1
               => starts[m] = Span \/ starts[m] >= (Gaps(m) - 1) * CrashTimeout + pcrash.age

ThrottleInv ==
  /\ CrashCount > 0 => pcrash.events <= CrashCount
  /\ Len(starts) \in 1 .. Kept
  /\ parent # "gone" => UsualDelays /\ SinceExit /\ (CrashCount > 0 => QuickOnes)
  /\ StartsAreThrottled

LEMMA OneMore ==
  ASSUME NEW n \in Nat, NEW t \in Nat
  PROVE  (n + 1) * t = n * t + t /\ n * t \in Nat
OBVIOUS

\* What holds without the histories.
LEMMA ThrottleTypes ==
  ASSUME ClusterInv, ThrottleInv
  PROVE  /\ pcrash \in [age : 0 .. CrashInterval, events : Nat]
         /\ ptimer \in {None} \cup 0 .. CrashDelay
         /\ starts \in Seq(0 .. Span) /\ Len(starts) \in Nat \ {0} /\ Len(starts) <= Kept
         /\ DOMAIN starts = 1 .. Len(starts)
         /\ \A m \in DOMAIN starts : starts[m] \in 0 .. Span
         /\ DelayLeft \in 0 .. CrashDelay /\ (~InDelay => DelayLeft = 0)
         /\ \A m \in DOMAIN starts : Gaps(m) \in Nat /\ (Gaps(m) - 1) \in Int
<1> USE ClusterAssumption
<1>1. /\ pcrash \in [age : 0 .. CrashInterval, events : Nat]
      /\ ptimer \in {None} \cup 0 .. CrashDelay /\ starts \in Seq(0 .. Span)
  BY DEF ClusterInv, ClusterTypeOK
<1>2. Len(starts) \in Nat \ {0} /\ Len(starts) <= Kept
  BY SpanIsNat DEF ThrottleInv
<1>3. DOMAIN starts = 1 .. Len(starts) /\ \A m \in DOMAIN starts : starts[m] \in 0 .. Span
  <2> DEFINE A == 0 .. Span
  <2>1. starts \in Seq(A)
    BY <1>1
  <2> HIDE DEF A
  <2>2. DOMAIN starts = 1 .. Len(starts) /\ \A m \in 1 .. Len(starts) : starts[m] \in A
    BY <2>1
  <2> QED
    BY <2>2 DEF A
<1>4. DelayLeft \in 0 .. CrashDelay /\ (~InDelay => DelayLeft = 0)
  BY <1>1 DEF DelayLeft, InDelay
<1>5. \A m \in DOMAIN starts : Gaps(m) \in Nat /\ (Gaps(m) - 1) \in Int
  BY <1>2, <1>3 DEF Gaps
<1> QED
  BY <1>1, <1>2, <1>3, <1>4, <1>5

LEMMA ThrottleInitially == ClusterInit => ThrottleInv
<1> SUFFICES ASSUME ClusterInit PROVE ThrottleInv
  OBVIOUS
<1> USE ClusterAssumption
<1>1. /\ starts = <<0>> /\ Len(starts) = 1 /\ DOMAIN starts = {1} /\ starts[1] = 0
      /\ pcrash.events = 0 /\ ~InDelay /\ DelayLeft = 0 /\ Gaps(1) = 0
  BY DEF ClusterInit, Never, InDelay, DelayLeft, Gaps, None
<1>2. UsualDelays /\ SinceExit /\ QuickOnes
  BY <1>1 DEF UsualDelays, SinceExit, QuickOnes, AtLeast
<1>3. StartsAreThrottled /\ 1 \in 1 .. Kept
  BY <1>1, SpanIsNat DEF StartsAreThrottled
<1> QED
  BY <1>1, <1>2, <1>3 DEF ThrottleInv

\* The parent has seen that the server is gone, and waits.
LEMMA ThrottleExitSeen == ClusterInv /\ ThrottleInv /\ ServerExitSeen => ThrottleInv'
<1> SUFFICES ASSUME ClusterInv, ThrottleInv, ServerExitSeen PROVE ThrottleInv'
  OBVIOUS
<1> USE ClusterAssumption
<1> DEFINE r == Respawn(pcrash)
           quick == pcrash.age < CrashInterval
           throttled == quick /\ CrashCount > 0 /\ pcrash.events >= CrashCount
<1>0. /\ pcrash \in [age : 0 .. CrashInterval, events : Nat]
      /\ DOMAIN starts = 1 .. Len(starts) /\ Len(starts) \in Nat
      /\ \A m \in DOMAIN starts : starts[m] \in 0 .. Span
  BY ThrottleTypes
<1>1. /\ parent # "gone" /\ ~InDelay /\ UNCHANGED <<parent, starts>>
      /\ ptimer' = r.delay /\ pcrash' = r.crash
  BY DEF ServerExitSeen, ClusterInv, TimersInv, InDelay
<1>2. /\ r.delay = IF throttled THEN CrashDelay ELSE CrashTimeout
      /\ pcrash'.age = 0
      /\ pcrash'.events = IF quick /\ ~throttled THEN pcrash.events + 1 ELSE 0
  BY <1>1 DEF Respawn
<1> HIDE DEF r
<1>3. /\ InDelay' /\ DelayLeft' = r.delay /\ r.delay >= CrashTimeout /\ r.delay \in Nat
      /\ DelayLeft = 0
  <2>1. r.delay \in Nat /\ r.delay >= CrashTimeout
    BY <1>2
  <2>2. ptimer' # None /\ ptimer' = r.delay
    BY <1>1, <2>1 DEF None
  <2> QED
    BY <1>1, <2>1, <2>2 DEF InDelay, DelayLeft
<1>4. \A m \in DOMAIN starts : Gaps(m) = m - 1 /\ Gaps(m)' = m
  BY <1>1, <1>3 DEF Gaps
<1>5. ASSUME NEW m \in DOMAIN starts
      PROVE  /\ m \in Nat /\ m >= 1 /\ starts[m] \in Nat
             /\ m * CrashTimeout = (m - 1) * CrashTimeout + CrashTimeout
             /\ (m - 1) * CrashTimeout \in Nat
             /\ starts[m] = Span \/ starts[m] >= (m - 1) * CrashTimeout
  <2>1. m \in Nat /\ m - 1 \in Nat /\ m >= 1 /\ starts[m] \in Nat
    BY <1>0, SpanIsNat
  <2>2. /\ ((m - 1) + 1) * CrashTimeout = (m - 1) * CrashTimeout + CrashTimeout
        /\ (m - 1) * CrashTimeout \in Nat
    BY <2>1, OneMore
  <2>3. (m - 1) + 1 = m
    BY <2>1
  <2>4. AtLeast(m, (m - 1) * CrashTimeout)
    BY <1>1, <1>4 DEF ThrottleInv, UsualDelays
  <2> QED
    BY <1>3, <2>1, <2>2, <2>3, <2>4 DEF AtLeast
<1>6. UsualDelays'
  <2> SUFFICES ASSUME NEW m \in DOMAIN starts
               PROVE  starts[m] = Span \/ starts[m] + r.delay >= m * CrashTimeout
    BY <1>1, <1>3, <1>4 DEF UsualDelays, AtLeast
  <2> QED
    BY <1>3, <1>5
<1>7. SinceExit'
  <2> SUFFICES ASSUME NEW m \in DOMAIN starts
               PROVE  starts[m] = Span \/ starts[m] >= (m - 1) * CrashTimeout + 0
    BY <1>1, <1>2, <1>4 DEF SinceExit
  <2> QED
    BY <1>5
<1>8. ASSUME CrashCount > 0 PROVE QuickOnes'
  <2> SUFFICES ASSUME NEW m \in DOMAIN starts, m >= pcrash'.events + 2
               PROVE  \/ starts[m] = Span \/ starts[m] + r.delay >= CrashDelay
                      \/ starts[m] + r.delay >= (m - 1) * CrashTimeout + SlowExit
    BY <1>1, <1>3, <1>4 DEF QuickOnes, AtLeast
  <2>0. /\ m \in Nat /\ starts[m] \in Nat /\ (m - 1) * CrashTimeout \in Nat
        /\ m * CrashTimeout = (m - 1) * CrashTimeout + CrashTimeout
    BY <1>5
  <2>1. CASE throttled
    BY <1>2, <2>0, <2>1
  <2>2. CASE quick /\ ~throttled
    <3>1. Gaps(m) >= pcrash.events + 2
      BY <1>0, <1>2, <1>4, <2>0, <2>2
    <3>2. AtLeast(m, CrashDelay) \/ AtLeast(m, (m - 2) * CrashTimeout + SlowExit)
      BY <1>1, <1>4, <1>8, <3>1 DEF ThrottleInv, QuickOnes
    <3>3. (m - 1) * CrashTimeout = (m - 2) * CrashTimeout + CrashTimeout
      <4>1. m - 2 \in Nat /\ (m - 2) + 1 = m - 1
        BY <1>0, <1>2, <2>0, <2>2
      <4> QED
        BY <4>1, OneMore
    <3>4. (m - 2) * CrashTimeout \in Int /\ SlowExit \in Nat
      BY <2>0 DEF SlowExit, Larger
    <3> QED
      BY <1>2, <1>3, <2>0, <2>2, <3>2, <3>3, <3>4 DEF AtLeast
  <2>3. CASE ~quick
    <3>1. pcrash.age = CrashInterval
      BY <1>0, <2>3
    <3>2. starts[m] = Span \/ starts[m] >= (m - 2) * CrashTimeout + CrashInterval
      <4>1. Gaps(m) = m - 1 /\ Gaps(m) >= 1 /\ Gaps(m) - 1 = m - 2
        BY <1>2, <1>4, <2>0, <2>3
      <4>2. SinceExit
        BY <1>1 DEF ThrottleInv
      <4>3. starts[m] = Span \/ starts[m] >= (Gaps(m) - 1) * CrashTimeout + pcrash.age
        BY <4>1, <4>2 DEF SinceExit
      <4> QED
        BY <3>1, <4>1, <4>3
    <3>3. (m - 1) * CrashTimeout = (m - 2) * CrashTimeout + CrashTimeout
      <4>1. m - 2 \in Nat /\ (m - 2) + 1 = m - 1
        BY <1>0, <1>2, <2>0, <2>3
      <4> QED
        BY <4>1, OneMore
    <3>4. starts[m] = Span \/ starts[m] >= (m - 1) * CrashTimeout
      BY <1>5
    <3>5. (m - 2) * CrashTimeout \in Int /\ SlowExit \in {CrashInterval, CrashTimeout}
      BY <2>0 DEF SlowExit, Larger
    <3> QED
      BY <1>2, <1>3, <2>0, <2>3, <3>2, <3>3, <3>4, <3>5
  <2> QED
    BY <2>1, <2>2, <2>3
<1>9. CrashCount > 0 => pcrash'.events <= CrashCount
  BY <1>0, <1>2
<1>10. StartsAreThrottled' /\ Len(starts') \in 1 .. Kept
  BY <1>1 DEF ThrottleInv, StartsAreThrottled
<1> QED
  BY <1>6, <1>7, <1>8, <1>9, <1>10 DEF ThrottleInv

\* The parent's timer fires.
LEMMA ThrottleStart == ClusterInv /\ ThrottleInv /\ StartServer => ThrottleInv'
<1> SUFFICES ASSUME ClusterInv, ThrottleInv, StartServer PROVE ThrottleInv'
  OBVIOUS
<1> USE ClusterAssumption
<1> DEFINE n == Smaller(Len(starts) + 1, Kept)
<1>0. /\ pcrash \in [age : 0 .. CrashInterval, events : Nat]
      /\ DOMAIN starts = 1 .. Len(starts) /\ Len(starts) \in Nat \ {0}
      /\ \A m \in DOMAIN starts : starts[m] \in 0 .. Span
      /\ Span \in Nat /\ Kept \in Nat /\ Kept > 2
  BY ThrottleTypes, SpanIsNat
<1>1. /\ ptimer = 0 /\ ptimer' = None /\ UNCHANGED <<parent, pcrash>>
      /\ starts' = [m \in 1 .. n |-> IF m = 1 THEN 0 ELSE starts[m - 1]]
  BY DEF StartServer
<1>2. n \in 2 .. Kept /\ n <= Len(starts) + 1
  BY <1>0 DEF Smaller
<1> HIDE DEF n
<1>3. /\ DOMAIN starts' = 1 .. n /\ Len(starts') = n /\ starts'[1] = 0
      /\ \A m \in 2 .. n : starts'[m] = starts[m - 1] /\ m - 1 \in DOMAIN starts
  BY <1>0, <1>1, <1>2
<1>4. /\ parent # "gone" /\ InDelay /\ DelayLeft = 0 /\ ~InDelay' /\ DelayLeft' = 0
  BY <1>1 DEF InDelay, DelayLeft, None, ClusterInv, TimersInv
<1>5. ASSUME NEW m \in 2 .. n
      PROVE  /\ Gaps(m)' = Gaps(m - 1) /\ m - 1 \in DOMAIN starts
             /\ \A a \in Int : AtLeast(m - 1, a) => AtLeast(m, a)'
  <2>1. Gaps(m)' = Gaps(m - 1)
    BY <1>2, <1>4 DEF Gaps
  <2>2. starts'[m] = starts[m - 1] /\ m - 1 \in DOMAIN starts
    BY <1>3
  <2>3. Span' = Span
    BY DEF Span
  <2> QED
    BY <1>4, <2>1, <2>2 DEF AtLeast
<1>6. Gaps(1)' = 0
  BY <1>4 DEF Gaps
<1>7. UsualDelays'
  <2> SUFFICES ASSUME NEW m \in 1 .. n PROVE AtLeast(m, Gaps(m) * CrashTimeout)'
    BY <1>3 DEF UsualDelays
  <2>1. CASE m = 1
    BY <1>3, <1>4, <1>6, <2>1 DEF AtLeast
  <2>2. CASE m # 1
    <3>1. m \in 2 .. n
      BY <1>2, <2>2
    <3>2. AtLeast(m - 1, Gaps(m - 1) * CrashTimeout)
      BY <1>4, <1>5, <3>1 DEF ThrottleInv, UsualDelays
    <3>3. Gaps(m - 1) * CrashTimeout \in Int
      BY <1>5, <3>1, ThrottleTypes
    <3> QED
      BY <1>5, <3>1, <3>2, <3>3
  <2> QED
    BY <2>1, <2>2
<1>8. SinceExit'
  <2> SUFFICES ASSUME NEW m \in 1 .. n, Gaps(m)' >= 1
               PROVE  starts'[m] = Span \/ starts'[m] >= (Gaps(m)' - 1) * CrashTimeout + pcrash.age
    BY <1>1, <1>3 DEF SinceExit
  <2>1. m \in 2 .. n
    BY <1>2, <1>6
  <2>2. SinceExit
    BY <1>4 DEF ThrottleInv
  <2> QED
    BY <1>3, <1>5, <2>1, <2>2 DEF SinceExit
<1>9. ASSUME CrashCount > 0 PROVE QuickOnes'
  <2> SUFFICES ASSUME NEW m \in 1 .. n, Gaps(m)' >= pcrash.events + 2
               PROVE  \/ AtLeast(m, CrashDelay)'
                      \/ AtLeast(m, (Gaps(m) - 1) * CrashTimeout + SlowExit)'
    BY <1>1, <1>3 DEF QuickOnes
  <2>1. m \in 2 .. n
    BY <1>0, <1>2, <1>6
  <2>2. QuickOnes
    BY <1>4, <1>9 DEF ThrottleInv
  <2>3. Gaps(m)' = Gaps(m - 1) /\ m - 1 \in DOMAIN starts
    BY <1>5, <2>1
  <2>4. AtLeast(m - 1, CrashDelay) \/ AtLeast(m - 1, (Gaps(m - 1) - 1) * CrashTimeout + SlowExit)
    BY <2>2, <2>3 DEF QuickOnes
  <2>5. (Gaps(m - 1) - 1) * CrashTimeout + SlowExit \in Int /\ CrashDelay \in Int
    <3>1. Gaps(m - 1) - 1 \in Int
      BY <2>3, ThrottleTypes
    <3>2. SlowExit \in Int
      BY DEF SlowExit, Larger
    <3>3. (Gaps(m - 1) - 1) * CrashTimeout \in Int
      BY <3>1
    <3> QED
      BY <3>2, <3>3
  <2> QED
    BY <1>5, <2>1, <2>3, <2>4, <2>5
<1>10. StartsAreThrottled'
  <2> SUFFICES ASSUME CrashCount > 0, n = Kept PROVE starts'[Kept] = Span
    BY <1>3 DEF StartsAreThrottled
  <2>1. Gaps(Kept)' = CrashCount + 2 /\ Kept \in 1 .. n
    BY <1>0, <1>4 DEF Gaps, Kept
  <2>2. pcrash'.events <= CrashCount /\ pcrash'.events \in Nat
    BY <1>0, <1>1 DEF ThrottleInv
  <2>3. QuickOnes'
    BY <1>9
  <2>4. AtLeast(Kept, CrashDelay)' \/ AtLeast(Kept, (CrashCount + 1) * CrashTimeout + SlowExit)'
    <3>1. Gaps(Kept)' >= pcrash'.events + 2 /\ Gaps(Kept)' - 1 = CrashCount + 1
      BY <2>1, <2>2
    <3>2. AtLeast(Kept, CrashDelay)' \/ AtLeast(Kept, (Gaps(Kept) - 1) * CrashTimeout + SlowExit)'
      BY <1>3, <2>1, <2>3, <3>1 DEF QuickOnes
    <3> QED
      BY <3>1, <3>2 DEF AtLeast
  <2>5. starts'[Kept] \in 0 .. Span
    <3>1. Kept \in 2 .. n
      BY <1>0, <2>1
    <3> QED
      BY <1>0, <1>3, <3>1
  <2>6. (CrashCount + 1) * CrashTimeout \in Nat /\ SlowExit \in Nat
    BY DEF SlowExit, Larger
  <2>7. Span <= CrashDelay /\ Span <= (CrashCount + 1) * CrashTimeout + SlowExit
    BY <2>6 DEF Span, Smaller, SlowExit
  <2> QED
    BY <1>0, <1>4, <2>4, <2>5, <2>6, <2>7 DEF AtLeast
<1>11. /\ CrashCount > 0 => pcrash'.events <= CrashCount
       /\ Len(starts') \in 1 .. Kept
  BY <1>0, <1>1, <1>2, <1>3 DEF ThrottleInv
<1> QED
  BY <1>7, <1>8, <1>9, <1>10, <1>11 DEF ThrottleInv

\* Time passes.
LEMMA ThrottleTick == ClusterInv /\ ThrottleInv /\ Tick => ThrottleInv'
<1> SUFFICES ASSUME ClusterInv, ThrottleInv, Tick PROVE ThrottleInv'
  OBVIOUS
<1> USE ClusterAssumption
<1>0. /\ pcrash \in [age : 0 .. CrashInterval, events : Nat]
      /\ DOMAIN starts = 1 .. Len(starts) /\ Len(starts) \in Nat \ {0}
      /\ \A m \in DOMAIN starts : starts[m] \in 0 .. Span
      /\ Span \in Nat /\ ptimer \in {None} \cup 0 .. CrashDelay
      /\ \A m \in DOMAIN starts : Gaps(m) \in Nat
  BY ThrottleTypes, SpanIsNat
<1>1. /\ ptimer # 0 /\ ptimer' = IF ptimer = None THEN None ELSE ptimer - 1
      /\ pcrash' = [pcrash EXCEPT !.age = Older(@, CrashInterval)]
      /\ starts' = [m \in DOMAIN starts |-> Older(starts[m], Span)]
      /\ parent' = parent
  BY DEF Tick
<1>2. /\ pcrash'.events = pcrash.events /\ pcrash'.age \in 0 .. CrashInterval
      /\ pcrash'.age <= pcrash.age + 1
  BY <1>0, <1>1 DEF Older, Smaller
<1>3. /\ DOMAIN starts' = DOMAIN starts /\ Len(starts') = Len(starts)
      /\ \A m \in DOMAIN starts : /\ starts'[m] \in 0 .. Span
                                  /\ starts'[m] = Span \/ starts'[m] = starts[m] + 1
                                  /\ starts[m] = Span => starts'[m] = Span
  <2>1. \A m \in DOMAIN starts : starts'[m] = Older(starts[m], Span)
    BY <1>1
  <2>2. Len(starts') = Len(starts) /\ DOMAIN starts' = DOMAIN starts
    BY <1>0, <1>1
  <2> QED
    BY <1>0, <2>1, <2>2 DEF Older, Smaller
<1>4. /\ InDelay' <=> InDelay
      /\ InDelay => DelayLeft' = DelayLeft - 1 /\ DelayLeft \in Nat
      /\ ~InDelay => DelayLeft' = 0 /\ DelayLeft = 0
  BY <1>0, <1>1 DEF InDelay, DelayLeft, None
<1>5. ASSUME NEW m \in DOMAIN starts
      PROVE  Gaps(m)' = Gaps(m) /\ \A a \in Int : AtLeast(m, a) => AtLeast(m, a)'
  <2>1. Gaps(m)' = Gaps(m)
    BY <1>4 DEF Gaps
  <2>2. starts'[m] + DelayLeft' >= starts[m] + DelayLeft \/ starts'[m] = Span
    BY <1>0, <1>3, <1>4
  <2>3. starts[m] \in Int /\ starts'[m] \in Int /\ DelayLeft \in Int /\ DelayLeft' \in Int
    BY <1>0, <1>3, <1>4
  <2>4. starts[m] = Span => starts'[m] = Span
    BY <1>3
  <2> QED
    BY <2>1, <2>2, <2>3, <2>4 DEF AtLeast
<1>6. ASSUME parent # "gone" PROVE UsualDelays'
  <2> SUFFICES ASSUME NEW m \in DOMAIN starts PROVE AtLeast(m, Gaps(m) * CrashTimeout)'
    BY <1>3 DEF UsualDelays
  <2>1. AtLeast(m, Gaps(m) * CrashTimeout)
    BY <1>6 DEF ThrottleInv, UsualDelays
  <2>2. Gaps(m) * CrashTimeout \in Int
    BY <1>0
  <2> QED
    BY <1>5, <2>1, <2>2
<1>7. ASSUME parent # "gone" PROVE SinceExit'
  <2> SUFFICES ASSUME NEW m \in DOMAIN starts, Gaps(m)' >= 1
               PROVE  starts'[m] = Span \/ starts'[m] >= (Gaps(m)' - 1) * CrashTimeout + pcrash'.age
    BY <1>3 DEF SinceExit
  <2>1. Gaps(m)' = Gaps(m)
    BY <1>5
  <2>2. starts[m] = Span \/ starts[m] >= (Gaps(m) - 1) * CrashTimeout + pcrash.age
    BY <1>7, <2>1 DEF ThrottleInv, SinceExit
  <2>3. (Gaps(m) - 1) * CrashTimeout \in Int
    <3>1. Gaps(m) - 1 \in Int
      BY <1>0
    <3> QED
      BY <3>1
  <2>4. starts'[m] \in Int /\ starts[m] \in Int /\ pcrash.age \in Int /\ pcrash'.age \in Int
    BY <1>0, <1>2, <1>3
  <2> QED
    BY <1>2, <1>3, <2>1, <2>2, <2>3, <2>4
<1>8. ASSUME parent # "gone", CrashCount > 0 PROVE QuickOnes'
  <2> SUFFICES ASSUME NEW m \in DOMAIN starts, Gaps(m)' >= pcrash'.events + 2
               PROVE  \/ AtLeast(m, CrashDelay)'
                      \/ AtLeast(m, (Gaps(m) - 1) * CrashTimeout + SlowExit)'
    BY <1>3 DEF QuickOnes
  <2>1. Gaps(m)' = Gaps(m)
    BY <1>5
  <2>2. AtLeast(m, CrashDelay) \/ AtLeast(m, (Gaps(m) - 1) * CrashTimeout + SlowExit)
    BY <1>2, <1>8, <2>1 DEF ThrottleInv, QuickOnes
  <2>3. (Gaps(m) - 1) * CrashTimeout + SlowExit \in Int /\ CrashDelay \in Int
    <3>1. Gaps(m) - 1 \in Int
      BY <1>0
    <3>2. (Gaps(m) - 1) * CrashTimeout \in Int
      BY <3>1
    <3>3. SlowExit \in Int
      BY DEF SlowExit, Larger
    <3> QED
      BY <3>2, <3>3
  <2> QED
    BY <1>5, <2>1, <2>2, <2>3
<1>9. StartsAreThrottled' /\ Len(starts') \in 1 .. Kept
  <2>1. CrashCount > 0 /\ Len(starts) = Kept => Kept \in DOMAIN starts /\ starts[Kept] = Span
    BY <1>0 DEF ThrottleInv, StartsAreThrottled
  <2> QED
    BY <1>3, <2>1 DEF ThrottleInv, StartsAreThrottled
<1> QED
  BY <1>1, <1>2, <1>6, <1>7, <1>8, <1>9 DEF ThrottleInv

LEMMA ThrottleStep == ClusterInv /\ ThrottleInv /\ [ClusterNext]_clusterVars => ThrottleInv'
<1> SUFFICES ASSUME ClusterInv, ThrottleInv, [ClusterNext]_clusterVars PROVE ThrottleInv'
  OBVIOUS
<1>1. ASSUME UNCHANGED <<parent, pcrash, ptimer, starts>> PROVE ThrottleInv'
  BY <1>1 DEF ThrottleInv, UsualDelays, SinceExit, QuickOnes, StartsAreThrottled, AtLeast, Gaps,
              DelayLeft, InDelay
<1>2. ASSUME parent' = "gone", UNCHANGED <<pcrash, starts>> PROVE ThrottleInv'
  BY <1>2 DEF ThrottleInv, StartsAreThrottled
<1>3. ASSUME NEW i \in DOMAIN workers,
             \/ Ready(i) \/ ShutdownDone(i) \/ PingKill(i) \/ Killed(i) \/ Crash(i)
             \/ Hang(i) \/ PortInUse(i)
      PROVE  UNCHANGED <<parent, pcrash, ptimer, starts>>
  BY <1>3 DEF Ready, ShutdownDone, PingKill, Killed, Crash, Hang, PortInUse, procs
<1>4. ASSUME \/ Fork \/ HardExit \/ Restart \/ Terminate \/ ServerCrash
             \/ UNCHANGED clusterVars
      PROVE  UNCHANGED <<parent, pcrash, ptimer, starts>>
  BY <1>4 DEF Fork, HardExit, Restart, Terminate, ServerCrash, procs, clusterVars
<1>5. ASSUME TerminateParent PROVE parent' = "gone" /\ UNCHANGED <<pcrash, starts>>
  BY <1>5 DEF TerminateParent
<1> QED
  BY <1>1, <1>2, <1>3, <1>4, <1>5, ThrottleExitSeen, ThrottleStart, ThrottleTick
     DEF ClusterNext, Expected

\* With crash.count > 0 no crash.count + 3 starts of the web server come within Span, for
\* every setting of the interval and of the two delays of server.respawn.
THEOREM Throttled == ClusterSpec => []StartsAreThrottled
<1>1. ThrottleInv => StartsAreThrottled
  BY DEF ThrottleInv
<1> QED
  BY <1>1, ThrottleInitially, ThrottleStep, ClusterInitially, ClusterStep, PTL DEF ClusterSpec
=============================================================================
