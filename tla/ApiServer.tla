----------------------------- MODULE ApiServer -----------------------------
(***************************************************************************)
(* The API server in one web worker (lib/api.js, lib/api_auth.js): the way *)
(* of a request through the middleware that api.init sets up, what becomes *)
(* of it when its client leaves or its code throws, the count of requests  *)
(* in process, and the graceful shutdown.                                  *)
(*                                                                         *)
(* A connection carries one request after another.  Between two stages the *)
(* event loop is free; what a stage decides (a limit, a signature, a hook) *)
(* is left open.  Once a request has been answered, what is left of it may *)
(* still run: each further answer finds res.headersSent.                   *)
(***************************************************************************)
EXTENDS Integers, FiniteSets

CONSTANTS
  Connections,
  MaxRequestQueue,  \* api-max-request-queue; 0 for no limit
  ExitOnError,      \* what api.exitOnError may be
  MaxWait,          \* ticks of 500 checks for open connections (api.shutdown)
  ShutdownTimeout,  \* ticks until the shutdown stops waiting for anything
  MaxArrivals,      \* bound: requests
  Faults            \* bound: exceptions

ASSUME OptionAssumption == MaxRequestQueue \in Nat /\ ExitOnError \subseteq BOOLEAN
ASSUME TimeAssumption == MaxWait \in Nat /\ ShutdownTimeout \in Nat /\ MaxWait <= ShutdownTimeout
ASSUME BoundAssumption == MaxArrivals \in Nat /\ Faults \in Nat
ASSUME ConnectionAssumption == IsFiniteSet(Connections)

VARIABLES
  limits,    \* are rate limits configured?
  server,    \* "up", "closing" (no new connections), "pools" (shutdownWeb), "down"
  waited,    \* ticks since the shutdown began
  open,      \* connections
  stage,     \* where the request of each connection is
  answered,  \* requests whose headers have been sent
  counted,   \* requests whose res.end is the one of startMetrics
  nreq,      \* the counter api_nreq
  arrivals, faults

process == <<server, waited>>
queue == <<answered, counted, nreq>>
bounds == <<arrivals, faults>>
vars == <<limits, process, open, stage, queue, bounds>>

\* "rest": the upload goes on after its request was answered; "waiting": subscribed to
\* events; "lost": its client left, and nothing will ever go on with it; "dropped": nor
\* with this one, since an exception ended it without an answer.
Stages == {"none", "ip", "body", "form", "rest", "login", "access", "signature",
           "authorization", "id", "route", "post", "waiting", "lost", "dropped"}

Init == /\ limits \in BOOLEAN
        /\ server = "up" /\ waited = 0
        /\ open = {}
        /\ stage = [c \in Connections |-> "none"]
        /\ answered = {} /\ counted = {} /\ nreq = 0
        /\ arrivals = 0 /\ faults = 0

Go(c, s) == stage' = [stage EXCEPT ![c] = s]

\* Mutant: res.end stays the one of startMetrics.
ReplyUncounted(c) ==
  /\ answered' = answered \cup {c}
  /\ nreq' = nreq - 1
  /\ UNCHANGED counted

\* sendStatus, sendJSON: nothing if the headers have been sent; otherwise res.end, which
\* is that of startMetrics, or node's before that.
Reply(c) ==
  IF c \in answered
    THEN UNCHANGED queue
    ELSE /\ answered' = answered \cup {c}
         /\ counted' = counted \ {c}
         /\ nreq' = IF c \in counted THEN nreq - 1 ELSE nreq

Finish(c) == Go(c, "none") /\ Reply(c)

\* An exception ends the request; unless it has been answered, nobody will answer it.
Drop(c) == /\ Go(c, IF c \in answered THEN "none" ELSE "dropped")
           /\ UNCHANGED queue

Free == server # "down"

-----------------------------------------------------------------------------
(* The middleware. *)

\* Stages that come next; the limiter is asked only where a rate is configured.
Secured == IF limits THEN {"login", "access"} ELSE {"access"}
Admitted == IF limits THEN {"id", "route"} ELSE {"route"}

\* Preflight requests and redirects end here.  The others are counted, and their body is
\* received, if there is one of a known type.
Enter(c) ==
  \/ /\ Go(c, "none")
     /\ answered' = answered \cup {c}
     /\ UNCHANGED <<counted, nreq>>
  \/ /\ \E s \in {"body", "form"} \cup Secured : Go(c, s)
     /\ answered' = answered \ {c}
     /\ counted' = counted \cup {c}
     /\ nreq' = nreq + 1

\* The server is too busy, or its queue is full.
Refuse(c) == /\ answered' = answered \cup {c}
             /\ UNCHANGED <<stage, counted, nreq>>

HasRoom == MaxRequestQueue = 0 \/ nreq < MaxRequestQueue

\* A request arrives, on a connection that was kept alive or on a new one.
Arrive(c) ==
  /\ Free /\ stage[c] = "none" /\ arrivals < MaxArrivals
  /\ c \in open \/ server = "up"
  /\ open' = open \cup {c}
  /\ arrivals' = arrivals + 1
  /\ \/ Refuse(c)
     \/ /\ HasRoom /\ ~limits
        /\ Enter(c)
     \/ /\ HasRoom /\ limits
        /\ Go(c, "ip")
        /\ answered' = answered \ {c}
        /\ UNCHANGED <<counted, nreq>>
  /\ UNCHANGED <<limits, process, faults>>

\* The limiter answers: there is an answer of 429, or the request goes on.
Limited(c) ==
  /\ Free
  /\ \/ stage[c] \in {"ip", "login", "id"} /\ Finish(c)
     \/ stage[c] = "ip" /\ Enter(c)
     \/ stage[c] = "login" /\ Go(c, "access") /\ UNCHANGED queue
     \/ stage[c] = "id" /\ Go(c, "route") /\ UNCHANGED queue
  /\ UNCHANGED <<limits, process, open, bounds>>

\* The body has arrived; it is accepted, or it is too large or cannot be parsed.  If the
\* client left while the limiter was asked, only a body that was complete will end.
Received(c) ==
  /\ Free /\ stage[c] \in {"body", "form"}
  /\ \/ Finish(c)
     \/ (\E s \in Secured : Go(c, s)) /\ UNCHANGED queue
     \/ c \notin open /\ Go(c, "lost") /\ UNCHANGED queue
  /\ UNCHANGED <<limits, process, open, bounds>>

\* It is too large before it has ended: the request is answered, and the data goes on.
TooLarge(c) ==
  /\ Free /\ stage[c] \in {"body", "form"}
  /\ Go(c, "rest") /\ Reply(c)
  /\ UNCHANGED <<limits, process, open, bounds>>

\* Then next is called again, behind the last of the middleware: the final handler of
\* express closes the connection.  A form that ends calls nothing.
Rest(c) ==
  /\ Free /\ stage[c] = "rest"
  /\ Go(c, "none")
  /\ open' \in {open, open \ {c}}
  /\ UNCHANGED <<limits, process, queue, bounds>>

\* checkAccess: a status to answer with (or an answer from a hook), access without a
\* signature, or neither.
Access(c) ==
  /\ Free /\ stage[c] = "access"
  /\ \/ Finish(c)
     \/ (\E s \in Admitted \cup {"signature"} : Go(c, s)) /\ UNCHANGED queue
  /\ UNCHANGED <<limits, process, open, bounds>>

\* checkRequestSignature: with the account from the database or an error.
Signature(c) ==
  /\ Free /\ stage[c] = "signature"
  /\ Go(c, "authorization")
  /\ UNCHANGED <<limits, process, open, queue, bounds>>

\* checkAuthorization with its hooks, which have the last word.
Authorization(c) ==
  /\ Free /\ stage[c] = "authorization"
  /\ \/ Finish(c)
     \/ (\E s \in Admitted : Go(c, s)) /\ UNCHANGED queue
  /\ UNCHANGED <<limits, process, open, bounds>>

\* The route answers, leaves the answer to a post-process hook, or subscribes to events.
Route(c) ==
  /\ Free /\ stage[c] = "route"
  /\ \/ Finish(c)
     \/ (\E s \in {"post", "waiting"} : Go(c, s)) /\ UNCHANGED queue
  /\ UNCHANGED <<limits, process, open, bounds>>

PostProcess(c) ==
  /\ Free /\ stage[c] = "post"
  /\ Finish(c)
  /\ UNCHANGED <<limits, process, open, bounds>>

\* sendEvent, after its interval.
Event(c) ==
  /\ Free /\ stage[c] = "waiting"
  /\ Finish(c)
  /\ UNCHANGED <<limits, process, open, bounds>>

\* The client leaves, or the connection times out.  checkQuery listens to data and end
\* only, and api.subscribe just unsubscribes; formidable reports an error; the other
\* stages do not notice.
Disconnect(c) ==
  /\ Free /\ c \in open
  /\ open' = open \ {c}
  /\ \/ stage[c] = "form" /\ Finish(c)
     \/ stage[c] \in {"body", "waiting"} /\ Go(c, "lost") /\ UNCHANGED queue
     \/ stage[c] = "rest" /\ Go(c, "none") /\ UNCHANGED queue
     \/ stage[c] \notin {"form", "body", "waiting", "rest"} /\ UNCHANGED <<stage, queue>>
  /\ UNCHANGED <<limits, process, bounds>>

-----------------------------------------------------------------------------
(* Errors and the shutdown. *)

\* api.shutdown, if it has not begun.
StartShutdown == IF server = "up" THEN server' = "closing" /\ waited' = 0
                                  ELSE UNCHANGED process

Stop == /\ server = "up"
        /\ StartShutdown
        /\ UNCHANGED <<limits, open, stage, queue, bounds>>

\* Mutant: the domain only logs the error.
ThrowSilent(c) ==
  /\ Free /\ stage[c] \in {"access", "authorization", "route", "post"}
  /\ faults < Faults /\ faults' = faults + 1
  /\ Go(c, "none")
  /\ \E exit \in ExitOnError : IF exit THEN StartShutdown ELSE UNCHANGED process
  /\ UNCHANGED <<limits, open, queue, arrivals>>

\* A hook, a route or the check of the signature (api_auth.js:272) throws.  Within the
\* domain of the request, or in a layer of express, there is an answer; the request may
\* have more to do, in another callback, which goes on.  An answer over ipc (of the limiter
\* or of the shared cache) leaves the domain: in its callback the exception is only logged
\* (lib.onDeferCallback), and in a later one it is the end of the process (uncaughtException).
Throw(c) ==
  /\ Free /\ stage[c] \in {"access", "signature", "authorization", "route", "post"}
  /\ faults < Faults /\ faults' = faults + 1
  /\ \/ /\ Reply(c)
        /\ Go(c, "none") \/ UNCHANGED stage
        /\ \E exit \in ExitOnError \cup {FALSE} : IF exit THEN StartShutdown ELSE UNCHANGED process
     \/ /\ Drop(c) \/ UNCHANGED <<stage, queue>>
        /\ StartShutdown \/ UNCHANGED process
  /\ UNCHANGED <<limits, open, arrivals>>

\* The answer throws and sendStatus logs it: always for a status with a type, which it
\* reads from an undeclared variable.
AnswerFails(c) ==
  /\ Free /\ stage[c] \in {"access", "authorization", "route", "post"}
  /\ c \notin answered
  /\ faults < Faults /\ faults' = faults + 1
  /\ Drop(c)
  /\ UNCHANGED <<limits, process, open, arrivals>>

\* Mutant: the servers are not waited for.
CloseAtOnce == /\ server = "closing"
               /\ server' = "pools"
               /\ UNCHANGED <<limits, waited, open, stage, queue, bounds>>

\* All connections are closed, or have been waited for long enough.
Close == /\ server = "closing"
         /\ open = {} \/ waited >= MaxWait
         /\ server' = "pools"
         /\ UNCHANGED <<limits, waited, open, stage, queue, bounds>>

\* The database pools are shut down, or the timeout runs out.
Exit == /\ server = "pools" \/ (server = "closing" /\ waited >= ShutdownTimeout)
        /\ server' = "down"
        /\ UNCHANGED <<limits, waited, open, stage, queue, bounds>>

Tick == /\ server \in {"closing", "pools"} /\ waited < ShutdownTimeout
        /\ waited' = waited + 1
        /\ UNCHANGED <<limits, server, open, stage, queue, bounds>>

-----------------------------------------------------------------------------
\* What the server does by itself with a request.
Work(c) == \/ Limited(c) \/ Received(c) \/ TooLarge(c) \/ Rest(c) \/ Access(c)
           \/ Signature(c) \/ Authorization(c) \/ Route(c) \/ PostProcess(c)

Next == \/ \E c \in Connections : Work(c) \/ Arrive(c) \/ Event(c) \/ Disconnect(c)
                                   \/ Throw(c) \/ AnswerFails(c)
        \/ Stop \/ Close \/ Exit \/ Tick

Spec == Init /\ [][Next]_vars

\* The limiter, the database, hooks and routes answer, and a client sends its body or
\* leaves; timers run out.
FairSpec == /\ Spec
            /\ \A c \in Connections : WF_vars(Work(c) \/ (stage[c] \in {"body", "form"} /\ Disconnect(c)))
            /\ WF_vars(Close) /\ WF_vars(Exit) /\ WF_vars(Tick)

-----------------------------------------------------------------------------
TypeOK ==
  /\ limits \in BOOLEAN
  /\ server \in {"up", "closing", "pools", "down"}
  /\ waited \in 0..ShutdownTimeout
  /\ open \subseteq Connections /\ answered \subseteq Connections /\ counted \subseteq Connections
  /\ stage \in [Connections -> Stages]
  /\ nreq \in Int
  /\ arrivals \in 0..MaxArrivals /\ faults \in 0..Faults

(* api_nreq is exact: it counts the requests behind startMetrics that have not been   *)
(* answered, however they are answered (a route, a hook, the domain, the final        *)
(* handler), whatever runs on afterwards, and those that nobody will answer; and      *)
(* without rate limits, which are asked between the check of the queue and the count, *)
(* the queue never exceeds its limit.                                                 *)
QueueIsExact ==
  /\ nreq = Cardinality(counted)
  /\ \A c \in counted : c \notin answered /\ stage[c] # "none"
  /\ ~limits /\ MaxRequestQueue > 0 => nreq <= MaxRequestQueue

(* Every request is answered, also when its code throws within its domain and during  *)
(* the shutdown, except those that an exception outside of the domain or in           *)
(* sendStatus has dropped, whose client left within a plain body, or that wait for    *)
(* events.                                                                            *)
EveryRequestAnswered ==
  \A c \in Connections :
    (stage[c] \notin {"none", "waiting", "lost", "dropped"})
      ~> (c \in answered \/ stage[c] \in {"waiting", "lost", "dropped"} \/ server = "down")

(* The server exits before the time it gives to open connections only when none is    *)
(* open (api.shutdown: closing).                                                      *)
ExitsGracefully == [][Free /\ server' = "down" => open = {} \/ waited >= MaxWait]_vars

(* The shutdown ends, and ends gracefully (api.shutdown and its two time limits).     *)
GracefulExit == ExitsGracefully /\ ((server # "up") ~> (server = "down"))
=============================================================================
