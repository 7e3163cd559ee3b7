----------------------------- MODULE IpcCalls -----------------------------
(***************************************************************************)
(* lib/ipc.js and lib/lib.js: how a worker process calls the master.       *)
(* sendMsg registers the callback in the table this.msgs under a number    *)
(* (lib.deferCallback), with a timer, and sends the message; the master    *)
(* works on the messages one at a time (handleServerMessages) and sends    *)
(* the same message back; the reply is matched by the number               *)
(* (lib.runCallback) and the callback runs in a later turn of the event    *)
(* loop (lib.onDeferCallback), unless the timer was faster.                *)
(*                                                                         *)
(* The operations are those of the local cache driver (ipc_local.js) on    *)
(* one key of the master's cache; each builds a message object of its own. *)
(* Channels are in order and lose nothing: node ends a worker whose        *)
(* channel to the master closes.                                           *)
(***************************************************************************)
EXTENDS Integers, Sequences

CONSTANTS
  Workers,   \* worker processes
  Server,    \* the master process, which keeps the cache
  Calls,     \* calls of the cache functions
  Caller,    \* Caller[c]: the process that makes call c
  Op,        \* Op[c]: its operation
  Initial,   \* options.set of a getset
  Stored,    \* the value that a put stores
  NoValue,   \* nothing under the key
  NotYet     \* no result, or no answer, so far

Ops == {"get", "getset", "incr", "put", "del"}

ASSUME CallerAssumption == Server \notin Workers /\ Caller \in [Calls -> Workers \cup {Server}]
ASSUME OpAssumption == Op \in [Calls -> Ops]
ASSUME ValueAssumption == Initial \in Nat /\ Stored \in Nat /\ NoValue \notin Nat
                          /\ NotYet \notin Nat \cup {NoValue}

VARIABLES
  value,       \* the key's value in the LRU cache of the master
  status,      \* has a call been made ("open"), and answered ("done")?
  result,      \* history: what the master computed for each call
  answer,      \* what the callback of each call was given
  callId,      \* msg.__deferId of each call
  nextId,      \* lib.deferId of each worker
  msgs,        \* ipc.msgs of each worker: number -> call
  timers,      \* calls whose timer is set
  toMaster,    \* messages on their way, for each worker
  toWorker,    \* replies on their way, for each worker
  immediates   \* replies that wait for setImmediate, in each worker

cacheVars == <<value, status, result, answer>>
deferVars == <<callId, nextId, msgs, timers>>
channels == <<toMaster, toWorker, immediates>>
vars == <<value, status, result, answer, callId, nextId, msgs, timers,
          toMaster, toWorker, immediates>>

Values == Nat \cup {NoValue}
Reply == [id : Nat, value : Values]
WithCallback(c) == Op[c] \in {"get", "getset", "incr"}

Init == /\ value = NoValue
        /\ status = [c \in Calls |-> "new"]
        /\ result = [c \in Calls |-> NotYet]
        /\ answer = [c \in Calls |-> NotYet]
        /\ callId = [c \in Calls |-> 0]
        /\ nextId = [w \in Workers |-> 1]
        /\ msgs = [w \in Workers |-> [n \in {} |-> NotYet]]
        /\ timers = {}
        /\ toMaster = [w \in Workers |-> <<>>]
        /\ toWorker = [w \in Workers |-> <<>>]
        /\ immediates = [w \in Workers |-> <<>>]

-----------------------------------------------------------------------------
(* The master. *)

\* What each operation returns and what it leaves in the cache.
Value(op, v) == IF op = "incr" THEN (IF v = NoValue THEN 1 ELSE v + 1)
                ELSE IF op \in {"get", "getset"} THEN v
                ELSE NoValue
Left(op, v) == IF op = "incr" THEN Value(op, v)
               ELSE IF op = "getset" /\ v = NoValue THEN Initial
               ELSE IF op = "put" THEN Stored
               ELSE IF op = "del" THEN NoValue
               ELSE v

Perform(c) == /\ value' = Left(Op[c], value)
              /\ result' = [result EXCEPT ![c] = Value(Op[c], value)]

\* handleServerMessages takes the next message of a worker, and answers it in
\* the same step if a callback waits (__res).
Serve(w) ==
  /\ toMaster[w] # <<>>
  /\ LET c == Head(toMaster[w])
     IN  /\ Perform(c)
         /\ toWorker' = IF WithCallback(c)
                        THEN [toWorker EXCEPT ![w] = Append(@, [id |-> callId[c],
                                                                value |-> result'[c]])]
                        ELSE toWorker
  /\ toMaster' = [toMaster EXCEPT ![w] = Tail(@)]
  /\ UNCHANGED <<status, answer, deferVars, immediates>>

\* The LRU cache makes room for other keys, or the value expires.
Evict == /\ value # NoValue
         /\ value' = NoValue
         /\ UNCHANGED <<status, result, answer, deferVars, channels>>

\* In the master itself sendMsg handles the message and calls back at once.
CallAtHome(c) == /\ Caller[c] = Server
                 /\ status[c] = "new"
                 /\ Perform(c)
                 /\ status' = [status EXCEPT ![c] = "done"]
                 /\ answer' = [answer EXCEPT ![c] = result'[c]]
                 /\ UNCHANGED <<deferVars, channels>>

-----------------------------------------------------------------------------
(* The workers. *)

\* Mutant of Defer: a number is used again.
DeferAgain(c, w) == /\ callId' = [callId EXCEPT ![c] = nextId[w]]
                    /\ msgs' = [msgs EXCEPT ![w] = [n \in DOMAIN @ \cup {nextId[w]} |->
                                                      IF n = nextId[w] THEN c ELSE @[n]]]
                    /\ timers' = timers \cup {c}
                    /\ UNCHANGED nextId

\* deferCallback: the next number, an entry in the table, and a timer.
Defer(c, w) == /\ callId' = [callId EXCEPT ![c] = nextId[w]]
               /\ nextId' = [nextId EXCEPT ![w] = @ + 1]
               /\ msgs' = [msgs EXCEPT ![w] = [n \in DOMAIN @ \cup {nextId[w]} |->
                                                 IF n = nextId[w] THEN c ELSE @[n]]]
               /\ timers' = timers \cup {c}

\* sendMsg with a callback.
Call(c) == /\ Caller[c] \in Workers
           /\ WithCallback(c)
           /\ status[c] = "new"
           /\ Defer(c, Caller[c])
           /\ status' = [status EXCEPT ![c] = "open"]
           /\ toMaster' = [toMaster EXCEPT ![Caller[c]] = Append(@, c)]
           /\ UNCHANGED <<value, result, answer, toWorker, immediates>>

\* sendMsg without one.
Post(c) == /\ Caller[c] \in Workers
           /\ ~WithCallback(c)
           /\ status[c] = "new"
           /\ status' = [status EXCEPT ![c] = "done"]
           /\ toMaster' = [toMaster EXCEPT ![Caller[c]] = Append(@, c)]
           /\ UNCHANGED <<value, result, answer, deferVars, toWorker, immediates>>

\* runCallback: a reply with an entry is handed on to setImmediate, any other is
\* dropped.
Receive(w) ==
  /\ toWorker[w] # <<>>
  /\ toWorker' = [toWorker EXCEPT ![w] = Tail(@)]
  /\ LET reply == Head(toWorker[w])
     IN  immediates' = IF reply.id \in DOMAIN msgs[w]
                       THEN [immediates EXCEPT ![w] = Append(@, reply)]
                       ELSE immediates
  /\ UNCHANGED <<cacheVars, deferVars, toMaster>>

\* Mutants of Settle: the timer goes on; the entry stays.
SettleTimed(w, n, v) ==
  LET c == msgs[w][n]
  IN  /\ msgs' = [msgs EXCEPT ![w] = [k \in DOMAIN @ \ {n} |-> @[k]]]
      /\ UNCHANGED timers
      /\ status' = [status EXCEPT ![c] = "done"]
      /\ answer' = [answer EXCEPT ![c] = v]
SettleKept(w, n, v) ==
  LET c == msgs[w][n]
  IN  /\ UNCHANGED msgs
      /\ timers' = timers \ {c}
      /\ status' = [status EXCEPT ![c] = "done"]
      /\ answer' = [answer EXCEPT ![c] = v]

\* onDeferCallback with an entry: it is deleted, its timer cleared, and its
\* callback gets the value that stands in the message.
Settle(w, n, v) ==
  LET c == msgs[w][n]
  IN  /\ msgs' = [msgs EXCEPT ![w] = [k \in DOMAIN @ \ {n} |-> @[k]]]
      /\ timers' = timers \ {c}
      /\ status' = [status EXCEPT ![c] = "done"]
      /\ answer' = [answer EXCEPT ![c] = v]

\* The turn of a reply; if the timer was faster there is nothing to do.
Immediate(w) ==
  /\ immediates[w] # <<>>
  /\ immediates' = [immediates EXCEPT ![w] = Tail(@)]
  /\ LET reply == Head(immediates[w])
     IN  \/ reply.id \in DOMAIN msgs[w] /\ Settle(w, reply.id, reply.value)
         \/ reply.id \notin DOMAIN msgs[w] /\ UNCHANGED <<status, answer, msgs, timers>>
  /\ UNCHANGED <<value, result, callId, nextId, toMaster, toWorker>>

\* The value in the message that was sent: the request of incr holds the
\* increment in the place where the reply holds the new value.
Sent(c) == IF Op[c] = "incr" THEN 1 ELSE NoValue

\* The timer of a call: its callback gets the message that was sent.
Timeout(c) ==
  /\ c \in timers
  /\ callId[c] \in DOMAIN msgs[Caller[c]]
  /\ Settle(Caller[c], callId[c], Sent(c))
  /\ UNCHANGED <<value, result, callId, nextId, channels>>

Next == \/ Evict
        \/ \E w \in Workers : Serve(w) \/ Receive(w) \/ Immediate(w)
        \/ \E c \in Calls : CallAtHome(c) \/ Call(c) \/ Post(c) \/ Timeout(c)

Spec == Init /\ [][Next]_vars

\* A timer fires in the end unless it is cleared.  Nothing is asked of the master
\* or of the channels: a reply may stay away for ever.
FairSpec == Spec /\ \A c \in Calls : WF_vars(Timeout(c))

-----------------------------------------------------------------------------
\* The type invariant.
TypeOK == /\ value \in Values
          /\ status \in [Calls -> {"new", "open", "done"}]
          /\ result \in [Calls -> Values \cup {NotYet}]
          /\ answer \in [Calls -> Values \cup {NotYet}]
          /\ nextId \in [Workers -> Nat \ {0}]
          /\ callId \in [Calls -> Nat]
          /\ timers \subseteq Calls
          /\ \A w \in Workers : /\ toMaster[w] \in Seq(Calls)
                                /\ toWorker[w] \in Seq(Reply)
                                /\ immediates[w] \in Seq(Reply)
                                /\ DOMAIN msgs[w] \subseteq 1 .. nextId[w] - 1
                                /\ \A n \in DOMAIN msgs[w] : msgs[w][n] \in Calls

\* The table and the timers agree, and both hold exactly the calls that still
\* wait: no timer outlives its entry, to fire into the call that would get the
\* number next, and no entry is left without a timer to remove it.
TableMatchesTimers ==
  /\ timers = {c \in Calls : status[c] = "open"}
  /\ \A w \in Workers : \A n \in DOMAIN msgs[w] :
       LET c == msgs[w][n] IN c \in timers /\ Caller[c] = w /\ callId[c] = n
  /\ \A c \in timers : callId[c] \in DOMAIN msgs[Caller[c]]

\* The calls of the workers and of the master itself are operations of one
\* cache that happen at one moment and at most once; a callback runs once, with
\* the result of its own call or with the message it sent.
Cache == INSTANCE SharedCache
ImplementsSharedCache == Cache!Spec

\* deferCallback: a callback runs in the end, whether a reply comes or not.
EveryCallAnswered == \A c \in Calls : status[c] = "open" ~> status[c] = "done"
=============================================================================
