---------------------------- MODULE SharedCache ----------------------------
(***************************************************************************)
(* What the cache of the master process promises to the processes that     *)
(* use it (ipc.get, put, incr, del with the local driver): every operation *)
(* happens at one moment, and at most once.  A caller that asked for the   *)
(* result is answered once: with the result of its own operation, or, if   *)
(* nothing came back in time, with what stands in the message it sent.  An *)
(* operation may still happen after its caller was told of no result.      *)
(***************************************************************************)
EXTENDS Integers

CONSTANTS Calls,     \* calls of the cache functions, on one key
          Op,        \* Op[c]: the operation of call c
          Initial,   \* the value that a get stores when there is none (set)
          Stored,    \* the value that a put stores
          NoValue,   \* the key is not in the cache
          NotYet     \* no result, or no answer, so far

VARIABLES value,     \* what the cache holds
          status,    \* has a call been made, and answered?
          result,    \* what the operation of each call returned
          answer     \* what the callback of each call was given

vars == <<value, status, result, answer>>

\* The operations: the value they leave, and the value they return.
Outcomes(op, v) ==
  CASE op = "get"    -> <<v, v>>
    [] op = "getset" -> <<IF v = NoValue THEN Initial ELSE v, v>>
    [] op = "incr"   -> LET n == IF v = NoValue THEN 1 ELSE v + 1 IN <<n, n>>
    [] op = "put"    -> <<Stored, NoValue>>
    [] op = "del"    -> <<NoValue, NoValue>>

Init == /\ value = NoValue
        /\ status = [c \in Calls |-> "new"]
        /\ result = [c \in Calls |-> NotYet]
        /\ answer = [c \in Calls |-> NotYet]

\* A call is made; its caller waits for an answer, or wants none.
Call(c, s) == /\ status[c] = "new"
              /\ status' = [status EXCEPT ![c] = s]
              /\ UNCHANGED <<value, result, answer>>

Happens(c) == /\ result[c] = NotYet
              /\ value' = Outcomes(Op[c], value)[1]
              /\ result' = [result EXCEPT ![c] = Outcomes(Op[c], value)[2]]

Execute(c) == /\ status[c] # "new"
              /\ Happens(c)
              /\ UNCHANGED <<status, answer>>

\* The answer: the result, or the value in the request (incr asks for 1).
Answer(c, v) == /\ v # NotYet
                /\ v \in {result[c], IF Op[c] = "incr" THEN 1 ELSE NoValue}
                /\ status[c] = "open"
                /\ status' = [status EXCEPT ![c] = "done"]
                /\ answer' = [answer EXCEPT ![c] = v]
                /\ UNCHANGED <<value, result>>

\* The process that keeps the cache gets its answer in the same step.
CallAtHome(c) == /\ status[c] = "new"
                 /\ Happens(c)
                 /\ status' = [status EXCEPT ![c] = "done"]
                 /\ answer' = [answer EXCEPT ![c] = result'[c]]

\* The cache may drop a value at any time to make room.
Evict == value' = NoValue /\ UNCHANGED <<status, result, answer>>

Next == \/ Evict
        \/ \E c \in Calls : \/ Call(c, "open") \/ Call(c, "done") \/ Execute(c)
                            \/ CallAtHome(c)
                            \/ \E v \in {result[c], 1, NoValue} : Answer(c, v)

Spec == Init /\ [][Next]_vars
=============================================================================
