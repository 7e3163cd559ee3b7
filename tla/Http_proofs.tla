----------------------------- MODULE Http_proofs -----------------------------
(***************************************************************************)
(* Proofs about both ends of HTTP and about the limits between them: the   *)
(* API server, whose count of the requests in process is exact, the rate   *)
(* limiters it asks, which implement token buckets, and the client, which  *)
(* calls back once and leaves no file open, however its attempts fail,     *)
(* move and repeat.  All hold for any set of connections, callers and      *)
(* slots, and for any limits, rates and bounds.                            *)
(***************************************************************************)
EXTENDS ApiServer, RateLimit, HttpClient, FiniteSetTheorems, TLAPS

(***************************************************************************)
(* The API server                                                          *)
(***************************************************************************)

\* What makes the count inductive: a request is counted only behind the first limiter,
\* which is asked only if there are limits, and an upload goes on only after an answer.
QueueInv ==
  /\ nreq = Cardinality(counted)
  /\ \A c \in Connections :
       /\ c \in counted => c \notin answered /\ stage[c] \notin {"none", "ip"}
       /\ stage[c] = "rest" => c \in answered
       /\ stage[c] = "ip" => limits
  /\ ~limits /\ MaxRequestQueue > 0 => nreq <= MaxRequestQueue

Inv == TypeOK /\ QueueInv

LEMMA InvSuffices == Inv => QueueIsExact
BY DEF Inv, TypeOK, QueueInv, QueueIsExact

LEMMA CountFinite ==
  ASSUME TypeOK
  PROVE  IsFiniteSet(counted) /\ Cardinality(counted) \in Nat
BY ConnectionAssumption, FS_Subset, FS_CardinalityType DEF TypeOK

LEMMA InvInit == Init => Inv
<1> SUFFICES ASSUME Init PROVE Inv
  OBVIOUS
<1>1. TypeOK
  <2>1. limits \in BOOLEAN
    BY Zenon DEF Init
  <2>2. /\ server \in {"up", "closing", "pools", "down"}
        /\ waited \in 0..ShutdownTimeout
        /\ open \subseteq Connections /\ answered \subseteq Connections
        /\ counted \subseteq Connections
        /\ stage \in [Connections -> Stages]
        /\ nreq \in Int
        /\ arrivals \in 0..MaxArrivals /\ faults \in 0..Faults
    BY TimeAssumption, BoundAssumption DEF Init, Stages
  <2> QED BY <2>1, <2>2 DEF TypeOK
<1>2. nreq = Cardinality(counted) /\ nreq = 0
  BY FS_EmptySet DEF Init
<1>3. \A c \in Connections : c \notin counted /\ stage[c] = "none"
  BY DEF Init
<1>4. MaxRequestQueue > 0 => nreq <= MaxRequestQueue
  BY <1>2, OptionAssumption
<1>5. QueueInv
  BY <1>2, <1>3, <1>4 DEF QueueInv
<1> QED BY <1>1, <1>5 DEF Inv

-----------------------------------------------------------------------------
(* The three ways in which a step changes the queue. *)

QueueType == /\ answered \subseteq Connections /\ counted \subseteq Connections
             /\ stage \in [Connections -> Stages] /\ nreq \in Int

\* An answer, after which the request is out of the count.
LEMMA ReplyEffect ==
  ASSUME Inv, NEW c \in Connections, Reply(c)
  PROVE  /\ answered' = answered \cup {c}
         /\ counted' = counted \ {c}
         /\ nreq' = Cardinality(counted') /\ nreq' \in Int /\ nreq' <= nreq
<1>1. IsFiniteSet(counted) /\ Cardinality(counted) \in Nat /\ nreq = Cardinality(counted)
  BY CountFinite DEF Inv, QueueInv
<1>2. CASE c \in answered
  <2>1. answered' = answered /\ counted' = counted /\ nreq' = nreq
    BY <1>2 DEF Reply, queue
  <2>2. c \notin counted
    BY <1>2 DEF Inv, QueueInv
  <2> QED BY <1>1, <1>2, <2>1, <2>2
<1>3. CASE c \notin answered
  <2>1. /\ answered' = answered \cup {c} /\ counted' = counted \ {c}
        /\ nreq' = IF c \in counted THEN nreq - 1 ELSE nreq
    BY <1>3 DEF Reply
  <2>2. CASE c \in counted
    <3>1. Cardinality(counted \ {c}) = Cardinality(counted) - 1
      BY <1>1, <2>2, FS_RemoveElement
    <3> QED BY <1>1, <2>1, <2>2, <3>1
  <2>3. CASE c \notin counted
    <3>1. counted \ {c} = counted
      BY <2>3
    <3> QED BY <1>1, <2>1, <2>3, <3>1
  <2> QED BY <2>2, <2>3
<1> QED BY <1>2, <1>3

LEMMA Answers ==
  ASSUME Inv, NEW c \in Connections, Reply(c), limits' = limits,
         \/ \E s \in Stages \ {"ip"} : Go(c, s)
         \/ UNCHANGED stage
  PROVE  QueueType' /\ QueueInv'
<1>1. /\ answered' = answered \cup {c} /\ counted' = counted \ {c}
      /\ nreq' = Cardinality(counted') /\ nreq' \in Int /\ nreq' <= nreq
  BY ReplyEffect
<1>2. stage' \in [Connections -> Stages]
  BY DEF Inv, TypeOK, Go
<1>3. /\ stage'[c] # "ip" \/ stage'[c] = stage[c]
      /\ \A d \in Connections : d # c => stage'[d] = stage[d]
  BY DEF Inv, TypeOK, Go
<1>4. QueueType'
  BY <1>1, <1>2 DEF QueueType, Inv, TypeOK
<1>5. ASSUME NEW d \in Connections
      PROVE  /\ d \in counted' => d \notin answered' /\ stage'[d] \notin {"none", "ip"}
             /\ stage'[d] = "rest" => d \in answered'
             /\ stage'[d] = "ip" => limits'
  BY <1>1, <1>3 DEF Inv, QueueInv
<1>6. ~limits' /\ MaxRequestQueue > 0 => nreq' <= MaxRequestQueue
  BY <1>1, OptionAssumption DEF Inv, QueueInv, TypeOK
<1> QED BY <1>1, <1>4, <1>5, <1>6 DEF QueueInv

\* A request that goes on unanswered, or ends when it is not counted.
LEMMA GoesOn ==
  ASSUME Inv, NEW c \in Connections, NEW s \in Stages \ {"ip", "rest"}, Go(c, s),
         UNCHANGED queue, limits' = limits,
         s = "none" => c \notin counted
  PROVE  QueueType' /\ QueueInv'
<1>1. answered' = answered /\ counted' = counted /\ nreq' = nreq
  BY DEF queue
<1>2. stage' \in [Connections -> Stages]
  BY DEF Inv, TypeOK, Go
<1>3. stage'[c] = s /\ \A d \in Connections : d # c => stage'[d] = stage[d]
  BY DEF Inv, TypeOK, Go
<1>4. QueueType'
  BY <1>1, <1>2 DEF QueueType, Inv, TypeOK
<1>5. ASSUME NEW d \in Connections
      PROVE  /\ d \in counted' => d \notin answered' /\ stage'[d] \notin {"none", "ip"}
             /\ stage'[d] = "rest" => d \in answered'
             /\ stage'[d] = "ip" => limits'
  BY <1>1, <1>3 DEF Inv, QueueInv
<1> QED BY <1>1, <1>4, <1>5 DEF Inv, QueueInv

\* A request that an exception ends.
LEMMA Drops ==
  ASSUME Inv, NEW c \in Connections, Drop(c), limits' = limits
  PROVE  QueueType' /\ QueueInv'
<1>1. CASE c \in answered
  <2>1. Go(c, "none") /\ UNCHANGED queue
    BY <1>1 DEF Drop
  <2>2. c \notin counted
    BY <1>1 DEF Inv, QueueInv
  <2> QED BY <2>1, <2>2, GoesOn DEF Stages
<1>2. CASE c \notin answered
  BY <1>2, GoesOn DEF Drop, Stages
<1> QED BY <1>1, <1>2

\* A request that comes to startMetrics.
LEMMA Enters ==
  ASSUME Inv, NEW c \in Connections, stage[c] \in {"none", "ip"}, Enter(c),
         limits' = limits, limits \/ HasRoom
  PROVE  QueueType' /\ QueueInv'
<1>1. IsFiniteSet(counted) /\ Cardinality(counted) \in Nat /\ nreq = Cardinality(counted)
  BY CountFinite DEF Inv, QueueInv
<1>2. c \notin counted
  BY DEF Inv, QueueInv
<1>3. CASE /\ Go(c, "none")
           /\ answered' = answered \cup {c}
           /\ UNCHANGED <<counted, nreq>>
  <2>1. /\ stage' \in [Connections -> Stages] /\ stage'[c] = "none"
        /\ \A d \in Connections : d # c => stage'[d] = stage[d]
    BY <1>3 DEF Inv, TypeOK, Go, Stages
  <2>2. QueueType'
    BY <1>3, <2>1 DEF QueueType, Inv, TypeOK
  <2>3. ASSUME NEW d \in Connections
        PROVE  /\ d \in counted' => d \notin answered' /\ stage'[d] \notin {"none", "ip"}
               /\ stage'[d] = "rest" => d \in answered'
               /\ stage'[d] = "ip" => limits'
    BY <1>2, <1>3, <2>1 DEF Inv, QueueInv
  <2> QED BY <1>3, <2>2, <2>3 DEF Inv, QueueInv
<1>4. CASE /\ \E s \in {"body", "form"} \cup Secured : Go(c, s)
           /\ answered' = answered \ {c}
           /\ counted' = counted \cup {c}
           /\ nreq' = nreq + 1
  <2>1. PICK s \in {"body", "form", "login", "access"} : Go(c, s)
    BY <1>4 DEF Secured
  <2>2. /\ stage' \in [Connections -> Stages] /\ stage'[c] = s
        /\ \A d \in Connections : d # c => stage'[d] = stage[d]
    BY <2>1 DEF Inv, TypeOK, Go, Stages
  <2>3. nreq' = Cardinality(counted') /\ nreq' \in Int
    BY <1>1, <1>2, <1>4, FS_AddElement
  <2>4. QueueType'
    BY <1>4, <2>2, <2>3 DEF QueueType, Inv, TypeOK
  <2>5. ASSUME NEW d \in Connections
        PROVE  /\ d \in counted' => d \notin answered' /\ stage'[d] \notin {"none", "ip"}
               /\ stage'[d] = "rest" => d \in answered'
               /\ stage'[d] = "ip" => limits'
    BY <1>4, <2>2 DEF Inv, QueueInv
  <2>6. ~limits' /\ MaxRequestQueue > 0 => nreq' <= MaxRequestQueue
    BY <1>1, <1>4, OptionAssumption DEF HasRoom
  <2> QED BY <2>3, <2>4, <2>5, <2>6 DEF QueueInv
<1> QED BY <1>3, <1>4 DEF Enter

-----------------------------------------------------------------------------
LEMMA ArriveStep ==
  ASSUME Inv, NEW c \in Connections, Arrive(c)
  PROVE  QueueType' /\ QueueInv'
<1>1. stage[c] = "none" /\ limits' = limits /\ c \notin counted
  BY DEF Arrive, Inv, QueueInv
<1>2. CASE Refuse(c)
  <2>1. /\ answered' = answered \cup {c}
        /\ stage' = stage /\ counted' = counted /\ nreq' = nreq
    BY <1>2 DEF Refuse
  <2>2. QueueType'
    BY <2>1 DEF QueueType, Inv, TypeOK
  <2> QED BY <1>1, <2>1, <2>2 DEF Inv, QueueInv
<1>3. CASE HasRoom /\ ~limits /\ Enter(c)
  BY <1>1, <1>3, Enters
<1>4. CASE /\ limits /\ Go(c, "ip")
           /\ answered' = answered \ {c}
           /\ UNCHANGED <<counted, nreq>>
  <2>1. /\ stage' \in [Connections -> Stages] /\ stage'[c] = "ip"
        /\ \A d \in Connections : d # c => stage'[d] = stage[d]
    BY <1>4 DEF Inv, TypeOK, Go, Stages
  <2>2. QueueType'
    BY <1>4, <2>1 DEF QueueType, Inv, TypeOK
  <2>3. ASSUME NEW d \in Connections
        PROVE  /\ d \in counted' => d \notin answered' /\ stage'[d] \notin {"none", "ip"}
               /\ stage'[d] = "rest" => d \in answered'
               /\ stage'[d] = "ip" => limits'
    BY <1>1, <1>4, <2>1 DEF Inv, QueueInv
  <2> QED BY <1>1, <1>4, <2>2, <2>3 DEF Inv, QueueInv
<1> QED BY <1>2, <1>3, <1>4 DEF Arrive

LEMMA WorkStep ==
  ASSUME Inv, NEW c \in Connections, Work(c)
  PROVE  QueueType' /\ QueueInv'
<1>1. limits' = limits
  BY DEF Work, Limited, Received, TooLarge, Rest, Access, Signature, Authorization, Route,
         PostProcess
<1>2. CASE Finish(c)
  BY <1>1, <1>2, Answers DEF Finish, Stages
<1>3. CASE TooLarge(c)
  BY <1>1, <1>3, Answers DEF TooLarge, Stages
<1>4. CASE stage[c] = "ip" /\ Enter(c)
  <2>1. limits
    BY <1>4 DEF Inv, QueueInv
  <2> QED BY <1>1, <1>4, <2>1, Enters
<1>5. CASE Rest(c)
  <2>1. c \notin counted
    BY <1>5 DEF Rest, Inv, QueueInv
  <2> QED BY <1>1, <1>5, <2>1, GoesOn DEF Rest, Stages
<1>6. ASSUME NEW s \in Stages \ {"ip", "rest", "none"}, Go(c, s), UNCHANGED queue
      PROVE  QueueType' /\ QueueInv'
  BY <1>1, <1>6, GoesOn
<1>7. CASE Limited(c)
  BY <1>2, <1>4, <1>6, <1>7 DEF Limited, Stages
<1>8. CASE Received(c)
  BY <1>2, <1>6, <1>8 DEF Received, Secured, Stages
<1>9. CASE Access(c)
  BY <1>2, <1>6, <1>9 DEF Access, Admitted, Stages
<1>10. CASE Signature(c)
  BY <1>6, <1>10 DEF Signature, Stages
<1>11. CASE Authorization(c)
  BY <1>2, <1>6, <1>11 DEF Authorization, Admitted, Stages
<1>12. CASE Route(c)
  BY <1>2, <1>6, <1>12 DEF Route, Stages
<1>13. CASE PostProcess(c)
  BY <1>2, <1>13 DEF PostProcess
<1> QED BY <1>3, <1>5, <1>7, <1>8, <1>9, <1>10, <1>11, <1>12, <1>13 DEF Work

LEMMA DisconnectStep ==
  ASSUME Inv, NEW c \in Connections, Disconnect(c)
  PROVE  QueueType' /\ QueueInv'
<1>1. limits' = limits
  BY DEF Disconnect
<1>2. CASE Finish(c)
  BY <1>1, <1>2, Answers DEF Finish, Stages
<1>3. CASE Go(c, "lost") /\ UNCHANGED queue
  BY <1>1, <1>3, GoesOn DEF Stages
<1>4. CASE stage[c] = "rest" /\ Go(c, "none") /\ UNCHANGED queue
  <2>1. c \notin counted
    BY <1>4 DEF Inv, QueueInv
  <2> QED BY <1>1, <1>4, <2>1, GoesOn DEF Stages
<1>5. CASE UNCHANGED <<stage, queue>>
  <2>1. /\ stage' = stage /\ answered' = answered
        /\ counted' = counted /\ nreq' = nreq
    BY <1>5 DEF queue
  <2> QED BY <1>1, <2>1 DEF Inv, TypeOK, QueueInv, QueueType
<1> QED BY <1>2, <1>3, <1>4, <1>5 DEF Disconnect

LEMMA QueueStep == Inv /\ [Next]_vars => QueueType' /\ QueueInv'
<1> SUFFICES ASSUME Inv, [Next]_vars
             PROVE  QueueType' /\ QueueInv'
  OBVIOUS
<1>1. CASE UNCHANGED <<limits, stage, queue>>
  <2>1. /\ limits' = limits /\ stage' = stage /\ answered' = answered
        /\ counted' = counted /\ nreq' = nreq
    BY <1>1 DEF queue
  <2> QED BY <2>1 DEF Inv, TypeOK, QueueInv, QueueType
<1>2. ASSUME NEW c \in Connections, Work(c)
      PROVE  QueueType' /\ QueueInv'
  BY <1>2, WorkStep
<1>3. ASSUME NEW c \in Connections, Arrive(c)
      PROVE  QueueType' /\ QueueInv'
  BY <1>3, ArriveStep
<1>4. ASSUME NEW c \in Connections, Event(c)
      PROVE  QueueType' /\ QueueInv'
  BY <1>4, Answers DEF Event, Finish, Stages
<1>5. ASSUME NEW c \in Connections, Disconnect(c)
      PROVE  QueueType' /\ QueueInv'
  BY <1>5, DisconnectStep
<1>6. ASSUME NEW c \in Connections, Throw(c)
      PROVE  QueueType' /\ QueueInv'
  <2>1. limits' = limits
    BY <1>6 DEF Throw
  <2>2. CASE Reply(c) /\ (Go(c, "none") \/ UNCHANGED stage)
    BY <2>1, <2>2, Answers DEF Stages
  <2>3. CASE Drop(c)
    BY <2>1, <2>3, Drops
  <2>4. CASE UNCHANGED <<stage, queue>>
    BY <1>1, <2>1, <2>4
  <2> QED BY <1>6, <2>2, <2>3, <2>4 DEF Throw
<1>7. CASE UNCHANGED vars
  BY <1>1, <1>7 DEF vars
<1>8. CASE Stop \/ Close \/ Exit \/ Tick
  BY <1>1, <1>8 DEF Stop, Close, Exit, Tick
<1>9. ASSUME NEW c \in Connections, AnswerFails(c)
      PROVE  QueueType' /\ QueueInv'
  BY <1>9, Drops DEF AnswerFails
<1> QED BY <1>2, <1>3, <1>4, <1>5, <1>6, <1>7, <1>8, <1>9 DEF Next

\* The rest of the type invariant.
OtherTypes ==
  /\ limits \in BOOLEAN
  /\ server \in {"up", "closing", "pools", "down"}
  /\ waited \in 0..ShutdownTimeout
  /\ open \subseteq Connections
  /\ arrivals \in 0..MaxArrivals /\ faults \in 0..Faults

LEMMA OtherStep == TypeOK /\ [Next]_vars => OtherTypes'
<1> SUFFICES ASSUME TypeOK, [Next]_vars
             PROVE  OtherTypes'
  OBVIOUS
<1>1. limits' = limits
  BY DEF Next, Work, Limited, Received, TooLarge, Rest, Access, Signature, Authorization, Route,
         PostProcess, Arrive, Event, Disconnect, Throw, AnswerFails, Stop, Close, Exit,
         Tick, vars
<1>2. limits' \in BOOLEAN
  BY <1>1, Zenon DEF TypeOK
<1>3. open' \subseteq Connections
  BY DEF Next, Work, Limited, Received, TooLarge, Rest, Access, Signature, Authorization, Route,
         PostProcess, Arrive, Event, Disconnect, Throw, AnswerFails, Stop, Close, Exit,
         Tick, vars, TypeOK
<1>4. server' \in {"up", "closing", "pools", "down"} /\ waited' \in 0..ShutdownTimeout
  <2>1. CASE UNCHANGED process
    BY <2>1 DEF TypeOK, process
  <2>2. CASE StartShutdown
    BY <2>2, TimeAssumption DEF StartShutdown, TypeOK, process
  <2>3. ASSUME NEW c \in Connections, Work(c) \/ Arrive(c) \/ Event(c) \/ Disconnect(c)
                                      \/ Throw(c) \/ AnswerFails(c)
        PROVE  StartShutdown \/ UNCHANGED process
    BY <2>3 DEF Work, Limited, Received, TooLarge, Rest, Access, Signature, Authorization, Route,
                PostProcess, Arrive, Event, Disconnect, Throw, AnswerFails
  <2>4. CASE Stop \/ Close \/ Exit \/ Tick
    BY <2>1, <2>2, <2>4, TimeAssumption DEF Stop, Close, Exit, Tick, TypeOK
  <2>5. CASE UNCHANGED vars
    BY <2>1, <2>5 DEF vars
  <2> QED BY <2>1, <2>2, <2>3, <2>4, <2>5 DEF Next
<1>5. arrivals' \in 0..MaxArrivals /\ faults' \in 0..Faults
  <2>1. CASE UNCHANGED bounds
    BY <2>1 DEF TypeOK, bounds
  <2>2. ASSUME NEW c \in Connections, Work(c) \/ Event(c) \/ Disconnect(c)
        PROVE  UNCHANGED bounds
    BY <2>2 DEF Work, Limited, Received, TooLarge, Rest, Access, Signature, Authorization, Route,
                PostProcess, Event, Disconnect
  <2>3. ASSUME NEW c \in Connections, Arrive(c)
        PROVE  arrivals' \in 0..MaxArrivals /\ faults' \in 0..Faults
    BY <2>3, BoundAssumption DEF Arrive, TypeOK
  <2>4. ASSUME NEW c \in Connections, Throw(c) \/ AnswerFails(c)
        PROVE  arrivals' \in 0..MaxArrivals /\ faults' \in 0..Faults
    <3>1. faults < Faults /\ faults' = faults + 1 /\ arrivals' = arrivals
      BY <2>4 DEF Throw, AnswerFails
    <3>2. arrivals \in 0..MaxArrivals /\ faults \in 0..Faults
      BY DEF TypeOK
    <3> QED BY <3>1, <3>2, BoundAssumption
  <2>5. CASE Stop \/ Close \/ Exit \/ Tick \/ UNCHANGED vars
    BY <2>1, <2>5 DEF Stop, Close, Exit, Tick, vars
  <2> QED BY <2>1, <2>2, <2>3, <2>4, <2>5 DEF Next
<1> QED BY <1>2, <1>3, <1>4, <1>5 DEF OtherTypes

LEMMA InvStep == Inv /\ [Next]_vars => Inv'
<1> SUFFICES ASSUME Inv, [Next]_vars PROVE Inv'
  OBVIOUS
<1>1. QueueType' /\ QueueInv'
  BY QueueStep
<1>2. OtherTypes'
  BY OtherStep DEF Inv
<1>3. TypeOK'
  BY <1>1, <1>2, Zenon DEF TypeOK, QueueType, OtherTypes
<1> QED BY <1>1, <1>3 DEF Inv

\* The type invariant holds for any number of connections and any bounds.
THEOREM TypeCorrect == Spec => []TypeOK
BY InvInit, InvStep, PTL DEF Spec, Inv

\* The counter of requests in process is exact, whatever throws, leaves or is answered
\* twice, and within its limit when no rate limits are configured.
THEOREM QueueExact == Spec => []QueueIsExact
BY InvInit, InvStep, InvSuffices, PTL DEF Spec

\* Once only the pools are waited for, the connections are closed or their time is over;
\* no connection is opened then.
Closed == server = "pools" => open = {} \/ waited >= MaxWait

LEMMA ClosedStep == TypeOK /\ Closed /\ [Next]_vars => Closed'
<1> SUFFICES ASSUME TypeOK, Closed, [Next]_vars, server' = "pools"
             PROVE  open' = {} \/ waited' >= MaxWait
  BY DEF Closed
<1>1. CASE UNCHANGED vars
  BY <1>1 DEF Closed, vars, process
<1>2. ASSUME NEW c \in Connections, Work(c) \/ Arrive(c) \/ Event(c) \/ Disconnect(c)
                                   \/ Throw(c) \/ AnswerFails(c)
      PROVE  open' = {} \/ waited' >= MaxWait
  <2>1. server = "pools" /\ waited' = waited /\ open' \subseteq open
    BY <1>2 DEF Work, Limited, Received, TooLarge, Rest, Access, Signature, Authorization, Route,
                PostProcess, Arrive, Event, Disconnect, Throw, AnswerFails, StartShutdown, process
  <2> QED BY <2>1 DEF Closed
<1>3. CASE Stop \/ Exit
  BY <1>3 DEF Stop, Exit, StartShutdown, process, Closed
<1>4. CASE Close
  BY <1>4 DEF Close
<1>5. CASE Tick
  BY <1>5, TimeAssumption DEF Tick, Closed, TypeOK
<1> QED BY <1>1, <1>2, <1>3, <1>4, <1>5 DEF Next

\* The server exits before the time it gives to open connections only when none is open.
THEOREM ExitGraceful == Spec => ExitsGracefully
<1> DEFINE Graceful == Free /\ server' = "down" => open = {} \/ waited >= MaxWait
<1>1. Init => Closed
  BY DEF Init, Closed
<1>2. TypeOK /\ Closed /\ [Next]_vars => [Graceful]_vars
  <2> SUFFICES ASSUME TypeOK, Closed, Next, Free, server' = "down"
               PROVE  open = {} \/ waited >= MaxWait
    OBVIOUS
  <2>1. Exit
    BY DEF Next, Work, Limited, Received, TooLarge, Rest, Access, Signature, Authorization, Route,
           PostProcess, Arrive, Event, Disconnect, Throw, AnswerFails, Stop, Close, Exit,
           Tick, StartShutdown, process, Free
  <2> QED BY <2>1, TimeAssumption DEF Exit, Closed, TypeOK
<1>3. Spec => [][Graceful]_vars
  BY <1>1, <1>2, ClosedStep, TypeCorrect, PTL DEF Spec
<1> QED BY <1>3 DEF ExitsGracefully

-----------------------------------------------------------------------------
(***************************************************************************)
(* The rate limiters                                                       *)
(***************************************************************************)

\* TypeOK without the Boolean variables
Numbers == /\ clock \in Nat /\ slow \in Nat /\ time \in Int /\ count \in Nat \cup {None}
           /\ granted \in Nat /\ refused \in Nat /\ disturbances \in Nat
Tables == /\ pc \in [Callers -> {"idle", "sent", "answered", "waiting", "passed", "limited"}]
          /\ wire \subseteq Callers
          /\ stamp \in [Callers -> Int] /\ due \in [Callers -> Nat] /\ delay \in [Callers -> Nat]
Booleans == remote \in BOOLEAN /\ quiet \in [Callers -> BOOLEAN]

Types == Numbers /\ Tables /\ Booleans

-----------------------------------------------------------------------------
(* Arithmetic of the refill *)

LEMMA Refilled ==
  ASSUME NEW a \in Nat, NEW b \in Nat
  PROVE  /\ Rate * a \in Nat /\ Rate * (a + b) = Rate * a + Rate * b
         /\ a <= b => Rate * a <= Rate * b
         /\ a <= Rate * a
<1>1. Rate \in Nat /\ Rate >= 1
  BY RateAssumption
<1>2. Rate * (a + b) = Rate * a + Rate * b
  BY <1>1
<1>3. \A x \in Nat : Rate * x \in Nat /\ x <= Rate * x
  BY <1>1
<1>4. ASSUME a <= b PROVE Rate * a <= Rate * b
  <2>1. b - a \in Nat /\ Rate * (b - a) \in Nat
    BY <1>3, <1>4
  <2>2. Rate * b = Rate * a + Rate * (b - a)
    BY <1>1
  <2>3. Rate * a \in Nat
    BY <1>3
  <2> QED BY <2>1, <2>2, <2>3
<1> QED BY <1>2, <1>3, <1>4

LEMMA Units == Token \in Nat \ {0} /\ Capacity \in Nat /\ Token <= Capacity
<1>1. Max * Interval \in Nat /\ Interval <= Max * Interval
  BY RateAssumption
<1> QED BY <1>1, RateAssumption DEF Token, Capacity

LEMMA ElapsedType == ASSUME time \in Int, NEW now \in Int PROVE Elapsed(now) \in Nat
BY RateAssumption DEF Elapsed

LEMMA ContentType ==
  ASSUME Numbers, NEW now \in Int
  PROVE  Content(now) \in Nat
<1>1. Rate * Elapsed(now) \in Nat
  BY ElapsedType, Refilled DEF Numbers
<1> QED BY <1>1, Units DEF Content, Capped, Numbers

\* What a request that is refused says about the bucket.
LEMMA Refused ==
  ASSUME Numbers, NEW now \in Int, Content(now) < Token
  PROVE  /\ count \in Nat /\ time <= now /\ Elapsed(now) = now - time /\ now - time < Interval
         /\ Content(now) = count + Rate * (now - time)
<1>1. Elapsed(now) \in Nat /\ Rate * Elapsed(now) \in Nat /\ Elapsed(now) <= Rate * Elapsed(now)
  BY ElapsedType, Refilled DEF Numbers
<1>2. count \in Nat /\ Content(now) = count + Rate * Elapsed(now)
  BY <1>1, Units DEF Content, Capped, Numbers
<1>3. Elapsed(now) < Interval
  <2> DEFINE x == Rate * Elapsed(now)
  <2>1. x \in Nat /\ Elapsed(now) <= x /\ count + x < Token
    BY <1>1, <1>2
  <2> HIDE DEF x
  <2> QED BY <1>1, <1>2, <2>1, RateAssumption DEF Token
<1>4. time <= now /\ Elapsed(now) = now - time
  BY <1>3, RateAssumption DEF Elapsed, Numbers
<1> QED BY <1>2, <1>3, <1>4

-----------------------------------------------------------------------------
(* The bucket has a token at time t, unless one is taken before. *)
Enough(t) == /\ count \in Nat /\ time <= t - slow
             /\ count + Rate * (t - slow - time) >= Token

LEMMA EnoughNow ==
  ASSUME Numbers, NEW t \in Nat, Enough(t), NEW now \in Int, t - slow <= now
  PROVE  Content(now) >= Token
<1>1. Elapsed(now) = now - time /\ now - time \in Nat /\ t - slow - time \in Nat
  BY DEF Enough, Elapsed, Numbers
<1>2. Rate * (t - slow - time) <= Rate * (now - time) /\ Rate * (t - slow - time) \in Nat
      /\ Rate * (now - time) \in Nat
  <2> DEFINE a == t - slow - time
             b == now - time
  <2>1. a \in Nat /\ b \in Nat /\ a <= b
    BY <1>1 DEF Numbers
  <2> HIDE DEF a, b
  <2>2. Rate * a <= Rate * b /\ Rate * a \in Nat /\ Rate * b \in Nat
    BY <2>1, Refilled
  <2> QED BY <2>2 DEF a, b
<1>3. count + Rate * Elapsed(now) >= Token
  BY <1>1, <1>2, Units DEF Enough
<1>4. Rate * Elapsed(now) \in Nat
  BY <1>1, <1>2
<1> QED BY <1>3, <1>4, Units, RateAssumption DEF Content, Capped, Enough, Numbers

LEMMA EnoughLater ==
  ASSUME Numbers, NEW t \in Nat, NEW u \in Nat, t <= u, Enough(t)
  PROVE  Enough(u)
<1> DEFINE a == t - slow - time
           b == u - slow - time
<1>1. a \in Nat /\ b \in Nat /\ a <= b
  BY DEF Enough, Numbers
<1>2. Rate * a <= Rate * b /\ Rate * a \in Nat /\ Rate * b \in Nat
  <2> HIDE DEF a, b
  <2> QED BY <1>1, Refilled
<1>3. count + Rate * b >= Token
  BY <1>2, Units DEF Enough
<1> QED BY <1>1, <1>3 DEF Enough, Numbers

\* A request that is refused moves the time of the bucket and leaves what it promises.
LEMMA RefusalKeeps ==
  ASSUME Numbers, NEW t \in Nat, Enough(t), NEW now \in Int, Content(now) < Token,
         count' = Content(now), time' = now, slow' = slow
  PROVE  Enough(t)'
<1>1. now < t - slow
  <2>1. t - slow <= now => Content(now) >= Token
    BY EnoughNow
  <2> QED BY <2>1, ContentType, Units DEF Numbers
<1>2. count \in Nat /\ time <= now /\ Content(now) = count + Rate * (now - time)
  BY Refused
<1> DEFINE a == now - time
           b == t - slow - now
<1>3. a \in Nat /\ b \in Nat /\ a + b = t - slow - time
  BY <1>1, <1>2 DEF Numbers
<1>4. Rate * (a + b) = Rate * a + Rate * b /\ Rate * a \in Nat /\ Rate * b \in Nat
  <2> HIDE DEF a, b
  <2> QED BY <1>3, Refilled
<1>5. count' + Rate * b >= Token
  <2>1. count + Rate * (a + b) >= Token
    BY <1>3 DEF Enough
  <2>2. count' = count + Rate * a
    BY <1>2
  <2> QED BY <1>2, <1>4, <2>1, <2>2, Units
<1>6. count' \in Nat /\ time' <= t - slow'
  BY <1>1, ContentType DEF Numbers
<1> QED BY <1>5, <1>6 DEF Enough, Token

\* The delay in the answer is long enough, when the clock is not behind the request.
LEMMA DelaySuffices ==
  ASSUME Numbers, NEW now \in Int, now <= Now, Content(now) < Token, NEW w \in Nat, w >= Interval - Elapsed(now),
         count' = Content(now), time' = now, slow' = slow, NEW t \in Nat, t = clock + w
  PROVE  Enough(t)'
<1>1. count \in Nat /\ time <= now /\ Elapsed(now) = now - time /\ Content(now) = count + Rate * (now - time)
  BY Refused
<1> DEFINE a == now - time
           b == t - slow - now
<1>2. a \in Nat /\ b \in Nat /\ Interval <= a + b
  BY <1>1, RateAssumption DEF Now, Numbers
<1>3. /\ Rate * (a + b) = Rate * a + Rate * b /\ Rate * a \in Nat /\ Rate * b \in Nat
      /\ a + b <= Rate * (a + b)
  <2> HIDE DEF a, b
  <2>1. a + b \in Nat
    BY <1>2
  <2>2. Rate * (a + b) = Rate * a + Rate * b /\ Rate * a \in Nat /\ Rate * b \in Nat
    BY <1>2, Refilled
  <2>3. a + b <= Rate * (a + b)
    BY <2>1, Refilled
  <2> QED BY <2>2, <2>3
<1>4. Rate * a + Rate * b >= Interval
  BY <1>2, <1>3, RateAssumption
<1>5. count' + Rate * b >= Token
  BY <1>1, <1>3, <1>4, RateAssumption DEF Token
<1>6. count' \in Nat /\ time' <= t - slow'
  BY <1>2, ContentType DEF Numbers
<1> QED BY <1>5, <1>6 DEF Enough, Token

-----------------------------------------------------------------------------
(* Types *)

LEMMA StoredType == ASSUME NEW n \in Nat, NEW ok, NEW x \in Stored(n, ok) PROVE x \in Nat
<1>1. \A d \in Residues : d * Token \in Nat
  BY Units, NumberAssumption
<1>2. x = n \/ x = 0 \/ x \in Misread
  BY DEF Stored
<1> QED BY <1>1, <1>2 DEF Misread

LEMMA WaitType ==
  ASSUME Numbers, NEW now \in Int, Content(now) < Token
  PROVE  Wait(now) \in Nat \ {0} /\ Wait(now) >= Interval - Elapsed(now)
<1>1. Elapsed(now) = now - time /\ now - time \in Nat /\ now - time < Interval
  BY Refused DEF Numbers
<1>2. Wait(now) = Interval \/ Wait(now) = Interval - Elapsed(now)
  BY RateAssumption DEF Wait
<1> QED BY <1>1, <1>2, RateAssumption

\* What a request does to the bucket and to the counts.
LEMMA Consumed ==
  ASSUME Types, NEW c \in Callers, NEW now \in Int, Consume(c, now)
  PROVE  /\ count' \in Nat /\ time' = now /\ delay' \in [Callers -> Nat]
         /\ granted' \in Nat /\ refused' \in Nat /\ disturbances' \in Nat
         /\ Content(now) < Token /\ pc[c] = "sent" => delay'[c] = Wait(now)
         /\ \A d \in Callers : d # c => delay'[d] = delay[d]
<1> DEFINE left == Content(now) - (IF Content(now) >= Token THEN Token ELSE 0)
<1>1. Content(now) \in Nat /\ left \in Nat
  BY ContentType, Units DEF Types
<1>2. count' \in Stored(left, Content(now) >= Token) /\ time' = now
  BY Zenon DEF Consume
<1>3. count' \in Nat
  <2> HIDE DEF left
  <2> QED BY <1>1, <1>2, StoredType
<1>5. delay' = [delay EXCEPT ![c] = IF Content(now) >= Token \/ pc[c] # "sent" THEN 0 ELSE Wait(now)]
  BY DEF Consume
<1>6. ~(Content(now) >= Token) => Wait(now) \in Nat
  BY <1>1, WaitType, Units DEF Types
<1>7. delay' \in [Callers -> Nat] /\ \A d \in Callers : d # c => delay'[d] = delay[d]
  BY <1>5, <1>6 DEF Types, Tables
<1>8. Content(now) < Token /\ pc[c] = "sent" => delay'[c] = Wait(now)
  BY <1>1, <1>5, Units DEF Types, Tables
<1>9. granted' \in Nat /\ refused' \in Nat /\ disturbances' \in Nat
  <2>1. granted' \in {granted, granted + 1} /\ refused' \in {refused, refused + 1}
        /\ disturbances' \in {disturbances, disturbances + 1}
    BY DEF Consume, Types, Numbers
  <2> QED BY <2>1 DEF Types, Numbers
<1> QED BY <1>2, <1>3, <1>7, <1>8, <1>9

\* A caller that stays quiet was refused, or others were, and the count is what is left.
LEMMA QuietConsumed ==
  ASSUME Types, NEW c \in Callers, NEW now \in Int, Consume(c, now),
         NEW d \in Callers, quiet'[d]
  PROVE  Content(now) < Token /\ count' = Content(now) /\ (d # c => quiet[d])
<1> DEFINE ok == Content(now) >= Token
           left == Content(now) - (IF ok THEN Token ELSE 0)
<1>1. ~ok /\ (d # c => quiet[d])
  BY Zenon DEF Consume
<1>2. count' = left
  <2>1. CASE d = c
    BY <2>1, Zenon DEF Consume
  <2>2. CASE d # c
    <3>1. disturbances' = disturbances
      BY <2>2, Zenon DEF Consume
    <3>2. disturbances' = disturbances + (IF count' # left \/ (count # None /\ now < time) THEN 1 ELSE 0)
      BY DEF Consume
    <3> QED BY <3>1, <3>2 DEF Types, Numbers
  <2> QED BY <2>1, <2>2
<1>3. Content(now) \in Nat
  BY ContentType DEF Types
<1> QED BY <1>1, <1>2, <1>3, Units

LEMMA TypesInit == LimitInit => Types
<1> SUFFICES ASSUME LimitInit PROVE Types
  OBVIOUS
<1>1. Numbers
  BY DEF LimitInit, Numbers
<1>2. Tables
  BY DEF LimitInit, Tables
<1>3. Booleans
  <2>1. remote \in BOOLEAN
    BY ModeAssumption, Zenon DEF LimitInit
  <2>2. quiet \in [Callers -> BOOLEAN]
    BY Zenon DEF LimitInit
  <2> QED BY <2>1, <2>2, Zenon DEF Booleans
<1> QED BY <1>1, <1>2, <1>3 DEF Types

LEMMA BooleansStep == Types /\ [LimitNext]_limitVars => Booleans'
<1> SUFFICES ASSUME Types, [LimitNext]_limitVars PROVE Booleans'
  OBVIOUS
<1>1. remote' = remote
  BY Zenon DEF LimitNext, Call, Retry, Send, Decide, Receive, NoAnswer, ScriptFails, Done,
     TimePasses, StepBack, Evict, Disturb, limitVars
<1>2. quiet' \in [Callers -> BOOLEAN]
  <2>1. \A c \in Callers : quiet[c] \in BOOLEAN
    BY Zenon DEF Types, Booleans
  <2>2. ASSUME NEW c \in Callers, Call(c) \/ Retry(c) PROVE quiet' \in [Callers -> BOOLEAN]
    <3>1. quiet' = [quiet EXCEPT ![c] = FALSE]
      BY <2>2, Zenon DEF Call, Retry, Send
    <3> QED BY <3>1, Zenon DEF Types, Booleans
  <2>3. ASSUME NEW c \in Callers, NEW now, Consume(c, now) PROVE quiet' \in [Callers -> BOOLEAN]
    BY <2>3, Zenon DEF Consume
  <2>4. ASSUME NEW c \in Callers, Decide(c) PROVE quiet' \in [Callers -> BOOLEAN]
    BY <2>3, <2>4, Zenon DEF Decide
  <2>5. ASSUME NEW c \in Callers, Receive(c) \/ NoAnswer(c) \/ ScriptFails(c) \/ Done(c)
        PROVE  quiet' = quiet
    BY <2>5, Zenon DEF Receive, NoAnswer, ScriptFails, Done
  <2>6. ASSUME TimePasses \/ Disturb PROVE quiet' \in [Callers -> BOOLEAN]
    BY <2>6, Zenon DEF TimePasses, Disturb
  <2>7. UNCHANGED limitVars => quiet' = quiet
    BY Zenon DEF limitVars
  <2> QED BY <2>2, <2>4, <2>5, <2>6, <2>7, Zenon DEF LimitNext, StepBack, Evict, Types, Booleans
<1> QED BY <1>1, <1>2, Zenon DEF Booleans, Types

LEMMA RequestTime ==
  ASSUME Types, NEW c \in Callers
  PROVE  (IF remote THEN stamp[c] ELSE Now) \in Int
BY DEF Types, Tables, Numbers, Now

LEMMA TypesStep == Types /\ [LimitNext]_limitVars => Numbers' /\ Tables'
<1> SUFFICES ASSUME Types, [LimitNext]_limitVars PROVE Numbers' /\ Tables'
  OBVIOUS
<1> USE DEF Types
<1>1. ASSUME NEW c \in Callers, Call(c) \/ Retry(c) PROVE Numbers' /\ Tables'
  <2>1. Send(c)
    BY <1>1 DEF Call, Retry
  <2>2. UNCHANGED <<clock, slow, count, time, delay, granted, refused, disturbances>>
    BY <2>1 DEF Send, history
  <2>3. stamp' \in [Callers -> Int]
    <3> DEFINE n == IF remote THEN Now ELSE 0
    <3>1. n \in Int /\ stamp' = [stamp EXCEPT ![c] = n]
      BY <2>1 DEF Send, Now, Numbers
    <3> HIDE DEF n
    <3> QED BY <3>1 DEF Tables
  <2>4. due' \in [Callers -> Nat]
    <3> DEFINE n == IF remote THEN 0 ELSE clock + Timeout
    <3>1. n \in Nat /\ due' = [due EXCEPT ![c] = n]
      BY <2>1, ModeAssumption DEF Send, Numbers
    <3> HIDE DEF n
    <3> QED BY <3>1 DEF Tables
  <2>5. wire' = wire \cup {c} /\ pc' = [pc EXCEPT ![c] = "sent"]
    BY <2>1 DEF Send
  <2> QED BY <2>2, <2>3, <2>4, <2>5 DEF Numbers, Tables
<1>2. ASSUME NEW c \in Callers, Decide(c) PROVE Numbers' /\ Tables'
  <2> DEFINE now == IF remote THEN stamp[c] ELSE Now
  <2>1. now \in Int /\ Consume(c, now)
    BY <1>2, RequestTime DEF Decide
  <2> HIDE DEF now
  <2>2. /\ count' \in Nat /\ time' = now /\ delay' \in [Callers -> Nat]
        /\ granted' \in Nat /\ refused' \in Nat /\ disturbances' \in Nat
    BY <2>1, Consumed
  <2>3. /\ wire' = wire \ {c} /\ stamp' = [stamp EXCEPT ![c] = 0] /\ UNCHANGED <<clock, slow, due>>
        /\ pc' = [pc EXCEPT ![c] = IF @ = "sent" THEN "answered" ELSE @]
    BY <1>2 DEF Decide
  <2> QED BY <2>1, <2>2, <2>3 DEF Numbers, Tables
<1>3. ASSUME NEW c \in Callers, Receive(c) PROVE Numbers' /\ Tables'
  <2>1. /\ UNCHANGED <<clock, slow, count, time, wire, stamp, granted, refused, disturbances>>
        /\ delay' = [delay EXCEPT ![c] = 0]
    BY <1>3 DEF Receive, history
  <2>2. \E x \in {"passed", "waiting", "limited"} : pc' = [pc EXCEPT ![c] = x]
    BY <1>3 DEF Receive
  <2>3. \E n \in Nat : due' = [due EXCEPT ![c] = n]
    <3> DEFINE n == IF c \in Patient /\ delay[c] # 0 THEN clock + delay[c] ELSE 0
    <3>1. n \in Nat
      BY DEF Numbers, Tables
    <3>2. due' = [due EXCEPT ![c] = n]
      BY <1>3 DEF Receive
    <3> QED BY <3>1, <3>2
  <2> QED BY <2>1, <2>2, <2>3 DEF Numbers, Tables
<1>4. ASSUME NEW c \in Callers, NoAnswer(c) \/ ScriptFails(c) \/ Done(c) PROVE Numbers' /\ Tables'
  <2>1. UNCHANGED <<clock, slow, count, time, stamp, granted, refused>>
    BY <1>4 DEF NoAnswer, ScriptFails, Done, history
  <2>2. disturbances' \in {disturbances, disturbances + 1} /\ wire' \in {wire, wire \ {c}}
    BY <1>4 DEF NoAnswer, ScriptFails, Done, history, Numbers
  <2>3. \E x \in {"passed", "idle"} : pc' = [pc EXCEPT ![c] = x]
    BY <1>4 DEF NoAnswer, ScriptFails, Done
  <2>4. due' \in {due, [due EXCEPT ![c] = 0]} /\ delay' \in {delay, [delay EXCEPT ![c] = 0]}
    BY <1>4 DEF NoAnswer, ScriptFails, Done
  <2> QED BY <2>1, <2>2, <2>3, <2>4 DEF Numbers, Tables
<1>5. ASSUME TimePasses \/ StepBack \/ Evict \/ UNCHANGED limitVars PROVE Numbers' /\ Tables'
  <2>1. UNCHANGED <<caller, granted, refused>>
    BY <1>5 DEF TimePasses, StepBack, Evict, Disturb, limitVars, history
  <2>2. disturbances' \in {disturbances, disturbances + 1}
    BY <1>5 DEF TimePasses, StepBack, Evict, Disturb, limitVars, history, Numbers
  <2>3. clock' \in {clock, clock + 1} /\ slow' \in {slow, slow + 1}
        /\ count' \in {count, None} /\ time' \in {time, 0}
    BY <1>5 DEF TimePasses, StepBack, Evict, Disturb, limitVars, history
  <2> QED BY <2>1, <2>2, <2>3 DEF Numbers, Tables, caller
<1> QED BY <1>1, <1>2, <1>3, <1>4, <1>5 DEF LimitNext

-----------------------------------------------------------------------------
(* The inductive invariant: what a caller was promised holds as long as nobody takes a token *)
(* and no fault comes.  After a step of the clock the time of the bucket may be ahead; then  *)
(* the clock cannot go on without a disturbance, so the caller's time does not come.         *)

Behind == count # None /\ Now < time

Promised(c, t) == \/ pc[c] = "answered" /\ delay[c] # 0 /\ t = clock + delay[c]
                  \/ pc[c] = "waiting" /\ t = due[c]

Kept == \A c \in Callers : \A t \in Nat :
          quiet[c] /\ Promised(c, t) => Enough(t) \/ (Behind /\ clock < t)

AnsweredOnce == \A c \in wire : pc[c] \notin {"answered", "waiting"}

LEMMA KeptStays ==
  ASSUME Kept, UNCHANGED <<clock, slow, count, time>>,
         \A c \in Callers : \A t \in Nat : quiet'[c] /\ Promised(c, t)' => quiet[c] /\ Promised(c, t)
  PROVE  Kept'
<1> SUFFICES ASSUME NEW c \in Callers, NEW t \in Nat, quiet'[c], Promised(c, t)'
             PROVE  Enough(t)' \/ (Behind' /\ clock' < t)
  BY Zenon DEF Kept
<1>1. Enough(t) \/ (Behind /\ clock < t)
  BY Zenon DEF Kept
<1>2. Enough(t)' = Enough(t) /\ Behind' = Behind
  BY DEF Enough, Behind, Now
<1> QED BY <1>1, <1>2

LEMMA AnsweredOnceStep == Types /\ AnsweredOnce /\ [LimitNext]_limitVars => AnsweredOnce'
<1> SUFFICES ASSUME Types, AnsweredOnce, [LimitNext]_limitVars PROVE AnsweredOnce'
  OBVIOUS
<1>1. ASSUME NEW c \in Callers, Call(c) \/ Retry(c) \/ Decide(c) \/ Receive(c) \/ NoAnswer(c)
                                 \/ ScriptFails(c) \/ Done(c)
      PROVE  AnsweredOnce'
  <2>1. wire' \subseteq wire \cup {c} /\ \A d \in Callers : d # c => pc'[d] = pc[d]
    BY <1>1 DEF Call, Retry, Send, Decide, Receive, NoAnswer, ScriptFails, Done, Types, Tables
  <2>2. c \in wire' => pc'[c] \notin {"answered", "waiting"}
    BY <1>1 DEF Call, Retry, Send, Decide, Receive, NoAnswer, ScriptFails, Done, Types, Tables, AnsweredOnce
  <2> QED BY <2>1, <2>2 DEF AnsweredOnce, Types, Tables
<1>2. ASSUME TimePasses \/ StepBack \/ Evict \/ UNCHANGED limitVars PROVE AnsweredOnce'
  <2>1. wire' = wire /\ pc' = pc
    BY <1>2 DEF TimePasses, StepBack, Evict, Disturb, limitVars, caller
  <2> QED BY <2>1 DEF AnsweredOnce
<1> QED BY <1>1, <1>2 DEF LimitNext

LEMMA DecideKeeps ==
  ASSUME Types, Kept, AnsweredOnce, NEW c \in Callers, Decide(c)
  PROVE  Kept'
<1> DEFINE now == IF remote THEN stamp[c] ELSE Now
<1>1. now \in Int /\ Consume(c, now)
  BY RequestTime DEF Decide
<1> HIDE DEF now
<1>2. /\ c \in wire /\ pc[c] \notin {"answered", "waiting"} /\ UNCHANGED <<clock, slow, due>>
      /\ pc' = [pc EXCEPT ![c] = IF @ = "sent" THEN "answered" ELSE @]
  BY DEF Decide, AnsweredOnce
<1> SUFFICES ASSUME NEW d \in Callers, NEW t \in Nat, quiet'[d], Promised(d, t)'
             PROVE  Enough(t)' \/ (Behind' /\ clock' < t)
  BY Zenon DEF Kept
<1>4. Content(now) < Token /\ count' = Content(now) /\ (d # c => quiet[d])
  BY <1>1, QuietConsumed
<1>5. /\ count' = Content(now) /\ time' = now /\ count' \in Nat /\ count' # None
      /\ pc[c] = "sent" => delay'[c] = Wait(now)
      /\ \A e \in Callers : e # c => delay'[e] = delay[e]
  BY <1>1, <1>4, Consumed, ModeAssumption
<1>6. CASE d # c
  <2>1. quiet[d] /\ Promised(d, t)
    <3>1. quiet[d]
      BY <1>4, <1>6, Zenon
    <3>2. Promised(d, t)
      BY <1>2, <1>5, <1>6 DEF Promised, Types, Tables
    <3> QED BY <3>1, <3>2
  <2>2. Enough(t) \/ (Behind /\ clock < t)
    BY <2>1, Zenon DEF Kept
  <2>3. CASE Enough(t)
    BY <1>1, <1>2, <1>4, <1>5, <2>3, RefusalKeeps DEF Types
  <2>4. CASE Behind /\ clock < t
    <3>1. time <= now
      BY <1>1, <1>4, Refused DEF Types
    <3> QED BY <1>1, <1>2, <1>5, <2>4, <3>1 DEF Behind, Now, Types, Numbers
  <2> QED BY <2>2, <2>3, <2>4
<1>7. CASE d = c
  <2>1. pc[c] = "sent" /\ t = clock + Wait(now)
    BY <1>2, <1>5, <1>7 DEF Promised, Types, Tables
  <2>2. Wait(now) \in Nat \ {0} /\ Wait(now) >= Interval - Elapsed(now)
    BY <1>1, <1>4, WaitType DEF Types
  <2>3. CASE now <= Now
    <3>1. Enough(t)'
      BY <1>1, <1>2, <1>4, <1>5, <2>1, <2>2, <2>3, DelaySuffices DEF Types
    <3> QED BY <3>1
  <2>4. CASE ~(now <= Now)
    BY <1>1, <1>2, <1>5, <2>1, <2>2, <2>4 DEF Behind, Now, Types, Numbers
  <2> QED BY <2>3, <2>4
<1> QED BY <1>6, <1>7

LEMMA TickKeeps ==
  ASSUME Types, Kept, TimePasses
  PROVE  Kept'
<1>1. clock' = clock + 1 /\ UNCHANGED <<slow, count, time, caller>>
  BY DEF TimePasses
<1>2. \A c \in Callers : quiet'[c] => quiet[c] /\ disturbances' = disturbances
  BY Zenon DEF TimePasses
<1>3. disturbances' = disturbances => ~Behind
  BY DEF TimePasses, Behind, Types, Numbers
<1> SUFFICES ASSUME NEW c \in Callers, NEW t \in Nat, quiet'[c], Promised(c, t)'
             PROVE  Enough(t)'
  BY Zenon DEF Kept
<1>4. quiet[c] /\ ~Behind
  BY <1>2, <1>3, Zenon
<1>5. PICK u \in Nat : u <= t /\ Promised(c, u)
  <2>1. CASE pc[c] = "waiting"
    BY <1>1, <2>1 DEF Promised, caller
  <2>2. CASE pc[c] # "waiting"
    <3>1. pc[c] = "answered" /\ delay[c] # 0 /\ t = clock + 1 + delay[c]
      BY <1>1, <2>2 DEF Promised, caller
    <3>2. clock + delay[c] \in Nat /\ clock + delay[c] <= t
      BY <3>1 DEF Types, Numbers, Tables
    <3> QED BY <3>1, <3>2 DEF Promised
  <2> QED BY <2>1, <2>2
<1>6. Enough(u)
  BY <1>4, <1>5, Zenon DEF Kept
<1>7. Enough(t)
  BY <1>5, <1>6, EnoughLater DEF Types
<1> QED BY <1>1, <1>7 DEF Enough

LEMMA KeptStep == Types /\ Kept /\ AnsweredOnce /\ [LimitNext]_limitVars => Kept'
<1> SUFFICES ASSUME Types, Kept, AnsweredOnce, [LimitNext]_limitVars PROVE Kept'
  OBVIOUS
<1>1. ASSUME NEW c \in Callers, Call(c) \/ Retry(c) PROVE Kept'
  <2>1. /\ UNCHANGED <<clock, slow, count, time, delay>> /\ pc' = [pc EXCEPT ![c] = "sent"]
        /\ \A d \in Callers : d # c => due'[d] = due[d]
    BY <1>1 DEF Call, Retry, Send, Types, Tables
  <2>2. \A d \in Callers : quiet'[d] => quiet[d]
    BY <1>1, Zenon DEF Call, Retry, Send, Types, Booleans
  <2>3. \A d \in Callers : \A t \in Nat : Promised(d, t)' => Promised(d, t)
    BY <2>1 DEF Promised, Types, Tables
  <2> QED BY <2>1, <2>2, <2>3, KeptStays
<1>2. ASSUME NEW c \in Callers, Receive(c) PROVE Kept'
  <2>1. /\ UNCHANGED <<clock, slow, count, time>> /\ pc[c] = "answered"
        /\ \A d \in Callers : d # c => pc'[d] = pc[d] /\ due'[d] = due[d] /\ delay'[d] = delay[d]
    BY <1>2 DEF Receive, Types, Tables
  <2>2. delay'[c] = 0 /\ pc'[c] = "waiting" => delay[c] # 0 /\ due'[c] = clock + delay[c]
    BY <1>2 DEF Receive, Types, Tables
  <2>3. delay'[c] = 0
    BY <1>2 DEF Receive, Types, Tables
  <2>4. \A d \in Callers : \A t \in Nat : Promised(d, t)' => Promised(d, t)
    BY <2>1, <2>2, <2>3 DEF Promised
  <2>5. \A d \in Callers : quiet'[d] => quiet[d]
    BY <1>2, Zenon DEF Receive
  <2> QED BY <2>1, <2>4, <2>5, KeptStays
<1>3. ASSUME NEW c \in Callers, NoAnswer(c) \/ ScriptFails(c) \/ Done(c) PROVE Kept'
  <2>1. /\ UNCHANGED <<clock, slow, count, time>> /\ pc'[c] \notin {"answered", "waiting"}
        /\ \A d \in Callers : d # c => pc'[d] = pc[d] /\ due'[d] = due[d] /\ delay'[d] = delay[d]
    BY <1>3 DEF NoAnswer, ScriptFails, Done, Types, Tables
  <2>2. \A d \in Callers : \A t \in Nat : Promised(d, t)' => Promised(d, t)
    BY <2>1 DEF Promised
  <2>3. \A d \in Callers : quiet'[d] => quiet[d]
    BY <1>3, Zenon DEF NoAnswer, ScriptFails, Done
  <2> QED BY <2>1, <2>2, <2>3, KeptStays
<1>4. ASSUME StepBack \/ Evict PROVE Kept'
  <2>1. \A c \in Callers : ~quiet'[c]
    BY <1>4, Zenon DEF StepBack, Evict, Disturb
  <2> QED BY <2>1, Zenon DEF Kept
<1>5. ASSUME UNCHANGED limitVars PROVE Kept'
  <2>1. UNCHANGED <<clock, slow, count, time, pc, due, delay>>
    BY <1>5 DEF limitVars, caller
  <2>2. \A d \in Callers : quiet'[d] => quiet[d]
    BY <1>5, Zenon DEF limitVars
  <2>3. \A d \in Callers : \A t \in Nat : Promised(d, t)' => Promised(d, t)
    BY <2>1 DEF Promised
  <2> QED BY <2>1, <2>2, <2>3, KeptStays
<1> QED BY <1>1, <1>2, <1>3, <1>4, <1>5, DecideKeeps, TickKeeps DEF LimitNext

LimitInv == Types /\ AnsweredOnce /\ Kept

LEMMA LimitInvInit == LimitInit => LimitInv
<1> SUFFICES ASSUME LimitInit PROVE LimitInv
  OBVIOUS
<1>1. AnsweredOnce
  BY DEF LimitInit, AnsweredOnce
<1>2. \A c \in Callers : ~quiet[c]
  BY Zenon DEF LimitInit
<1>3. Kept
  BY <1>2, Zenon DEF Kept
<1> QED BY <1>1, <1>3, TypesInit DEF LimitInv

LEMMA LimitInvStep == LimitInv /\ [LimitNext]_limitVars => LimitInv'
BY TypesStep, BooleansStep, AnsweredOnceStep, KeptStep DEF LimitInv, Types

LEMMA Always == LimitSpec => []LimitInv
BY LimitInvInit, LimitInvStep, PTL DEF LimitSpec

(* Every state of the limiters is of its types: contents, times and delays are never negative *)
(* (TokenBucket.consume and delay, the script of ipc_redisq.js).                              *)
THEOREM LimitTypeCorrect == LimitSpec => []LimitTypeOK
<1>1. ASSUME LimitInv PROVE LimitTypeOK
  <2>1. Numbers /\ Tables
    BY <1>1 DEF LimitInv, Types
  <2>2. remote \in BOOLEAN /\ quiet \in [Callers -> BOOLEAN]
    BY <1>1, Zenon DEF LimitInv, Types, Booleans
  <2> QED BY <2>1, <2>2 DEF LimitTypeOK, Numbers, Tables
<1> QED BY <1>1, Always, PTL

(* A caller of checkLimiter that waited for the delay it was told finds a token, if nobody    *)
(* took one and no fault came in between: for every rate, maximum and interval.               *)
THEOREM RetryFindsToken == LimitSpec => []RetrySucceeds
<1>1. ASSUME LimitInv PROVE RetrySucceeds
  <2> SUFFICES ASSUME NEW c \in Callers, pc[c] = "waiting", quiet[c], clock >= due[c]
               PROVE  Content(Now) >= Token
    BY Zenon DEF RetrySucceeds
  <2>1. due[c] \in Nat /\ clock \in Nat /\ slow \in Nat
    BY <1>1 DEF LimitInv, Types, Numbers, Tables
  <2>2. Promised(c, due[c])
    BY DEF Promised
  <2>3. Enough(due[c]) \/ (Behind /\ clock < due[c])
    BY <1>1, <2>1, <2>2, Zenon DEF LimitInv, Kept
  <2>4. Enough(due[c])
    BY <2>1, <2>3
  <2> QED BY <1>1, <2>1, <2>4, EnoughNow DEF LimitInv, Types, Now
<1> QED BY <1>1, Always, PTL

-----------------------------------------------------------------------------
(* The master's buckets are token buckets. *)

\* The content of a bucket that was asked just now is its count.
LEMMA FreshNext ==
  ASSUME NEW n \in Nat, n # None, count' = n, NEW m \in Int, time' = m, clock' - slow' = m
  PROVE  Content(Now)' = n
<1>1. Elapsed(Now)' = 0
  BY DEF Elapsed, Now
<1>2. Rate * Elapsed(Now)' = 0
  BY <1>1, RateAssumption
<1> QED BY <1>2, Units DEF Content, Capped

LEMMA SameContent ==
  ASSUME UNCHANGED <<clock, slow, count, time>> PROVE Content(Now)' = Content(Now)
BY DEF Content, Elapsed, Now

LEMMA TickDrips ==
  ASSUME Types, ~remote, TimePasses
  PROVE  [Bucket!Next]_(Bucket!bucketVars)
<1>1. ~remote' /\ remote' = remote
  BY Zenon DEF TimePasses
<1>2. clock' = clock + 1 /\ UNCHANGED <<slow, count, time, granted, refused>>
  BY DEF TimePasses, caller
<1>3. Now \in Int /\ Now' = Now + 1 /\ Content(Now) \in Nat /\ disturbances \in Nat
  BY <1>2, ContentType DEF Now, Types, Numbers
<1>4. Content(Now)' \in Nat
  <2>1. Numbers'
    BY TypesStep DEF LimitNext
  <2>2. Now' \in Int
    BY <1>3
  <2>3. \A n \in Int : Content(n) \in Nat
    BY ContentType DEF Types
  <2>4. Content(Now)' = Content(Now + 1)
    BY <1>2, <1>3 DEF Content, Elapsed
  <2> QED BY <1>3, <2>3, <2>4
<1>5. CASE count # None /\ Now < time
  <2>1. disturbances' = disturbances + 1
    BY <1>5 DEF TimePasses
  <2>2. Bucket!Disturb
    BY <1>1, <1>2, <1>4, <2>1 DEF Bucket!Disturb
  <2> QED BY <2>2 DEF Bucket!Next
<1>6. CASE ~(count # None /\ Now < time)
  <2>1. disturbances' = disturbances
    BY <1>3, <1>6 DEF TimePasses
  <2>2. CASE count = None \/ ~(count < Capacity)
    <3>1. Content(Now)' = Content(Now)
      BY <1>2, <2>2 DEF Content
    <3> QED BY <1>1, <1>2, <2>1, <3>1 DEF Bucket!bucketVars
  <2>3. CASE count # None /\ count < Capacity
    <3>1. count \in Nat /\ Elapsed(Now) = Now - time /\ Elapsed(Now) \in Nat /\ Elapsed(Now)' = Elapsed(Now) + 1
      BY <1>2, <1>3, <1>6, <2>3 DEF Elapsed, Types, Numbers
    <3> DEFINE x == Rate * Elapsed(Now)
    <3>2. x \in Nat /\ Rate * Elapsed(Now)' = x + Rate
      <4>1. Rate * (Elapsed(Now) + 1) = Rate * Elapsed(Now) + Rate * 1 /\ Rate * 1 = Rate
        BY <3>1, Refilled, RateAssumption
      <4> QED BY <3>1, <4>1, Refilled
    <3>3. Content(Now) = Capped(count + x) /\ Content(Now)' = Capped(count + x + Rate)
      BY <1>2, <2>3, <3>1, <3>2, RateAssumption DEF Content, Capped
    <3> HIDE DEF x
    <3>4. CASE Content(Now) < Capacity
      <4>1. Content(Now)' = IF Content(Now) + Rate <= Capacity THEN Content(Now) + Rate ELSE Capacity
        BY <3>1, <3>2, <3>3, <3>4, Units, RateAssumption DEF Capped
      <4>2. Bucket!Drip
        BY <1>1, <1>2, <2>1, <3>4, <4>1 DEF Bucket!Drip
      <4> QED BY <4>2 DEF Bucket!Next
    <3>5. CASE ~(Content(Now) < Capacity)
      <4>1. Content(Now)' = Content(Now)
        BY <3>1, <3>2, <3>3, <3>5, Units, RateAssumption DEF Capped
      <4> QED BY <1>1, <1>2, <2>1, <4>1 DEF Bucket!bucketVars
    <3> QED BY <3>4, <3>5
  <2> QED BY <2>2, <2>3
<1> QED BY <1>5, <1>6

LEMMA DecideConsumes ==
  ASSUME Types, ~remote, NEW c \in Callers, Decide(c)
  PROVE  [Bucket!Next]_(Bucket!bucketVars)
<1> DEFINE ok == Content(Now) >= Token
           left == Content(Now) - (IF ok THEN Token ELSE 0)
<1>1. ~remote' /\ Consume(c, Now) /\ UNCHANGED <<clock, slow>>
  BY DEF Decide
<1>2. Now \in Int /\ Now' = Now /\ Content(Now) \in Nat
  BY <1>1, ContentType DEF Now, Types, Numbers
<1>3. count' \in Nat /\ time' = Now /\ count' # None
  BY <1>1, <1>2, Consumed, ModeAssumption
<1>4. Content(Now)' = count'
  BY <1>1, <1>2, <1>3, FreshNext DEF Now
<1>5. /\ granted' = granted + (IF ok THEN 1 ELSE 0) /\ refused' = refused + (IF ok THEN 0 ELSE 1)
      /\ disturbances' = disturbances + (IF count' # left \/ (count # None /\ Now < time) THEN 1 ELSE 0)
  BY <1>1 DEF Consume
<1>6. granted \in Nat /\ refused \in Nat /\ disturbances \in Nat
  BY DEF Types, Numbers
<1>7. CASE count' # left \/ (count # None /\ Now < time)
  <2>1. disturbances' = disturbances + 1
    BY <1>5, <1>7
  <2>2. \/ granted' = granted + 1 /\ refused' = refused
        \/ refused' = refused + 1 /\ granted' = granted
    BY <1>5, <1>6
  <2>3. Bucket!Disturb
    BY <1>1, <1>3, <1>4, <2>1, <2>2 DEF Bucket!Disturb
  <2> QED BY <2>3 DEF Bucket!Next
<1>8. CASE ~(count' # left \/ (count # None /\ Now < time))
  <2>1. disturbances' = disturbances /\ count' = left
    BY <1>5, <1>6, <1>8
  <2>2. CASE ok
    <3>1. granted' = granted + 1 /\ refused' = refused /\ count' = Content(Now) - Token
      BY <1>5, <1>6, <2>1, <2>2
    <3>2. Bucket!Grant
      BY <1>1, <1>4, <2>1, <2>2, <3>1 DEF Bucket!Grant
    <3> QED BY <3>2 DEF Bucket!Next
  <2>3. CASE ~ok
    <3>1. refused' = refused + 1 /\ granted' = granted /\ count' = Content(Now) /\ Content(Now) < Token
      BY <1>2, <1>5, <1>6, <2>1, <2>3, Units
    <3>2. Bucket!Refuse
      BY <1>1, <1>4, <2>1, <3>1 DEF Bucket!Refuse
    <3> QED BY <3>2 DEF Bucket!Next
  <2> QED BY <2>2, <2>3
<1> QED BY <1>7, <1>8

LEMMA BucketStep == Types /\ [LimitNext]_limitVars => [Bucket!Next]_(Bucket!bucketVars)
<1> SUFFICES ASSUME Types, [LimitNext]_limitVars PROVE [Bucket!Next]_(Bucket!bucketVars)
  OBVIOUS
<1>1. remote' = remote
  BY Zenon DEF LimitNext, Call, Retry, Send, Decide, Receive, NoAnswer, ScriptFails, Done,
     TimePasses, StepBack, Evict, Disturb, limitVars
<1>2. CASE remote
  BY <1>1, <1>2 DEF Bucket!bucketVars
<1>3. CASE ~remote
  <2>1. ASSUME NEW c \in Callers, Call(c) \/ Retry(c) \/ Receive(c) \/ NoAnswer(c) \/ Done(c)
        PROVE  UNCHANGED Bucket!bucketVars
    <3>1. UNCHANGED <<clock, slow, count, time, granted, refused, disturbances>>
      BY <2>1 DEF Call, Retry, Send, Receive, NoAnswer, Done, history
    <3> QED BY <1>1, <3>1, SameContent DEF Bucket!bucketVars
  <2>2. \A c \in Callers : ~ScriptFails(c)
    BY <1>3, Zenon DEF ScriptFails
  <2>3. ASSUME StepBack \/ Evict PROVE Bucket!Disturb
    <3>1. /\ UNCHANGED <<granted, refused>> /\ disturbances' = disturbances + 1 /\ clock' = clock
          /\ slow' \in {slow, slow + 1} /\ count' \in {count, None} /\ time' \in {time, 0}
      BY <2>3 DEF StepBack, Evict, Disturb
    <3>2. CASE count' = None
      <4>1. Content(Now)' = Capacity
        BY <3>2 DEF Content
      <4> QED BY <1>1, <1>3, <3>1, <4>1, Units DEF Bucket!Disturb
    <3>3. CASE count' # None
      <4>1. StepBack /\ count' = count /\ time' = time
        BY <2>3, <3>3 DEF StepBack, Evict
      <4>2. Now' \in Int
        BY <3>1 DEF Now, Types, Numbers
      <4>3. Content(Now)' \in Nat
        <5>1. \A n \in Int : Content(n) \in Nat
          BY ContentType DEF Types
        <5>2. \A n \in Int : n = Now' => Content(Now)' = Content(n)
          BY <4>1 DEF Content, Elapsed
        <5> QED BY <4>2, <5>1, <5>2
      <4> QED BY <1>1, <1>3, <3>1, <4>3 DEF Bucket!Disturb
    <3> QED BY <3>2, <3>3
  <2>4. ASSUME UNCHANGED limitVars PROVE UNCHANGED Bucket!bucketVars
    <3>1. UNCHANGED <<clock, slow, count, time, granted, refused, disturbances>>
      BY <2>4 DEF limitVars, history
    <3> QED BY <1>1, <3>1, SameContent DEF Bucket!bucketVars
  <2> QED BY <1>3, <2>1, <2>2, <2>3, <2>4, DecideConsumes, TickDrips DEF LimitNext, Bucket!Next
<1> QED BY <1>2, <1>3

(* For every rate, maximum and interval the master's buckets, which compute on demand from    *)
(* the time of the last request, answer as a bucket that fills all the time (consume).        *)
THEOREM BucketImplemented == LimitSpec => ImplementsBucket
<1>1. LimitInit => Bucket!Init
  <2> SUFFICES ASSUME LimitInit PROVE Bucket!Init
    OBVIOUS
  <2>1. count = None /\ granted = 0 /\ refused = 0 /\ disturbances = 0
    BY DEF LimitInit
  <2> QED BY <2>1 DEF Bucket!Init, Content
<1>2. LimitInv /\ [LimitNext]_limitVars => [Bucket!Next]_(Bucket!bucketVars)
  BY BucketStep DEF LimitInv
<1> QED BY <1>1, <1>2, Always, PTL DEF LimitSpec, ImplementsBucket, Bucket!Spec

-----------------------------------------------------------------------------
(***************************************************************************)
(* The HTTP client                                                         *)
(***************************************************************************)

Steps == {"none", "start", "retry", "cookies", "poststat", "filestat", "connecting", "body", "aborted"}

LEMMA MissingType ==
  ASSUME NEW jar, NEW post, NEW cond
  PROVE  Missing(jar, post, cond) \in {"cookies", "poststat", "filestat", "connecting"}
BY DEF Missing

\* The parameters of a request that starts over.
LEMMA HttpGetType ==
  ASSUME ClientTypeOK, NEW s \in Slots, NEW jar \in {"none", "load", "list"},
         NEW post \in {"none", "unknown", "empty", "known"}, NEW cond \in BOOLEAN,
         HttpGet(s, jar, post, cond), redirects' \in Nat, openFiles' \in Nat, answers' \in Nat
  PROVE  ClientTypeOK'
<1>1. Missing(jar, post, cond) \in Steps
  BY MissingType DEF Steps
<1>2. /\ cookies' \in {"none", "load", "list"}
      /\ postfile' \in {"none", "unknown", "empty", "known"}
      /\ file' \in BOOLEAN /\ conditional' \in BOOLEAN
  BY DEF HttpGet, ClientTypeOK
<1>3. step' \in [Slots -> Steps] /\ status' \in [Slots -> Statuses \cup {"none"}]
  BY <1>1 DEF HttpGet, ClientTypeOK, Steps
<1>4. retries' \in Int /\ size' \in Nat /\ breaks' \in Nat
  BY SMT DEF HttpGet, ClientTypeOK
<1>5. err' \in BOOLEAN /\ fd' \in BOOLEAN
  BY Zenon DEF HttpGet
<1> QED BY <1>2, <1>3, <1>4, <1>5 DEF ClientTypeOK, Steps

\* A file is open when fd is set.
FdIsOpen == fd => openFiles > 0

LEMMA TypeInit == ClientInit => ClientTypeOK /\ FdIsOpen
<1> SUFFICES ASSUME ClientInit PROVE ClientTypeOK /\ FdIsOpen
  OBVIOUS
<1>1. err = FALSE /\ fd = FALSE
  BY Zenon DEF ClientInit
<1>2. step \in [Slots -> Steps] /\ status \in [Slots -> Statuses \cup {"none"}]
  BY DEF ClientInit, Steps
<1>3. /\ file \in BOOLEAN /\ conditional \in BOOLEAN
      /\ cookies \in {"none", "load", "list"}
      /\ postfile \in {"none", "unknown", "empty", "known"}
  BY DEF ClientInit
<1>4. retries \in Int /\ redirects \in Nat /\ size \in Nat /\ openFiles \in Nat /\ breaks \in Nat /\ answers \in Nat
  BY SMT, ClientOptionAssumption DEF ClientInit
<1>5. ClientTypeOK
  BY <1>1, <1>2, <1>3, <1>4, Zenon DEF ClientTypeOK, Steps
<1> QED BY <1>1, <1>5 DEF FdIsOpen

LEMMA TypeStep == ClientTypeOK /\ FdIsOpen /\ [ClientNext]_clientVars => ClientTypeOK' /\ FdIsOpen'
<1> SUFFICES ASSUME ClientTypeOK, FdIsOpen, [ClientNext]_clientVars
             PROVE  ClientTypeOK' /\ FdIsOpen'
  OBVIOUS
<1>1. CASE UNCHANGED clientVars
  BY <1>1 DEF clientVars, options, params, ClientTypeOK, FdIsOpen
<1>2. ASSUME NEW s \in Slots, Start(s)
      PROVE  ClientTypeOK' /\ FdIsOpen'
  <2>1. HttpGet(s, cookies, postfile, conditional)
    BY <1>2 DEF Start
  <2>2. redirects' \in Nat /\ openFiles' \in Nat /\ answers' \in Nat
    BY <1>2 DEF Start, ClientTypeOK
  <2>3. ClientTypeOK'
    BY <2>1, <2>2, HttpGetType DEF ClientTypeOK
  <2> QED BY <2>1, <2>3 DEF HttpGet, FdIsOpen
<1>3. ASSUME NEW s \in Slots, CookiesLoaded(s)
      PROVE  ClientTypeOK' /\ FdIsOpen'
  <2>1. HttpGet(s, "list", postfile, conditional)
    BY <1>3 DEF CookiesLoaded
  <2>2. redirects' \in Nat /\ openFiles' \in Nat /\ answers' \in Nat
    BY <1>3 DEF CookiesLoaded, ClientTypeOK
  <2>3. ClientTypeOK'
    BY <2>1, <2>2, HttpGetType DEF ClientTypeOK
  <2> QED BY <2>1, <2>3 DEF HttpGet, FdIsOpen
<1>4. ASSUME NEW s \in Slots, PostFileFound(s)
      PROVE  ClientTypeOK' /\ FdIsOpen'
  <2>1. HttpGet(s, cookies, IF postfile = "empty" THEN "empty" ELSE "known", conditional)
    BY <1>4 DEF PostFileFound
  <2>2. redirects' \in Nat /\ openFiles' \in Nat /\ answers' \in Nat
    BY <1>4 DEF PostFileFound, ClientTypeOK
  <2>3. ClientTypeOK'
    BY <2>1, <2>2, HttpGetType DEF ClientTypeOK
  <2> QED BY <2>1, <2>3 DEF HttpGet, FdIsOpen
<1>5. ASSUME NEW s \in Slots, FileChecked(s)
      PROVE  ClientTypeOK' /\ FdIsOpen'
  <2>1. HttpGet(s, cookies, postfile, FALSE)
    BY <1>5 DEF FileChecked
  <2>2. redirects' \in Nat /\ openFiles' \in Nat /\ answers' \in Nat
    BY <1>5 DEF FileChecked, ClientTypeOK
  <2>3. ClientTypeOK'
    BY <2>1, <2>2, HttpGetType DEF ClientTypeOK
  <2> QED BY <2>1, <2>3 DEF HttpGet, FdIsOpen
<1>6. ASSUME NEW s \in Slots, PostFileMissing(s)
      PROVE  ClientTypeOK' /\ FdIsOpen'
  BY <1>6 DEF PostFileMissing, Answer, ClientTypeOK, FdIsOpen, options, params
<1>7. ASSUME NEW s \in Slots, Respond(s)
      PROVE  ClientTypeOK' /\ FdIsOpen'
  BY <1>7 DEF Respond, ClientTypeOK, FdIsOpen, options, params, Statuses
<1>8. ASSUME NEW s \in Slots, Fail(s)
      PROVE  ClientTypeOK' /\ FdIsOpen'
  BY <1>8 DEF Fail, Answer, ClientTypeOK, FdIsOpen, options, params
<1>9. ASSUME NEW s \in Slots, EndRetry(s)
      PROVE  ClientTypeOK' /\ FdIsOpen'
  <2>1. fd' = FALSE /\ FdIsOpen'
    BY <1>9, Zenon DEF EndRetry, FdIsOpen
  <2>2. openFiles' \in Nat /\ retries' \in Int
    BY <1>9 DEF EndRetry, CloseFile, ClientTypeOK, FdIsOpen
  <2>3. step' \in [Slots -> Steps]
    BY <1>9 DEF EndRetry, ClientTypeOK, Steps
  <2>4. UNCHANGED <<options, status, redirects, size, err, breaks, answers>>
    BY <1>9 DEF EndRetry
  <2> QED BY <2>1, <2>2, <2>3, <2>4, Zenon DEF ClientTypeOK, Steps, options
<1>10. ASSUME NEW s \in Slots, EndRedirect(s)
       PROVE  ClientTypeOK' /\ FdIsOpen'
  <2>1. HttpGet(s, IF cookies = "none" THEN "none" ELSE "load", "none", conditional)
    BY <1>10 DEF EndRedirect
  <2>2. redirects' \in Nat /\ openFiles' \in Nat /\ answers' \in Nat
    BY <1>10 DEF EndRedirect, CloseFile, ClientTypeOK, FdIsOpen
  <2>3. ClientTypeOK'
    BY <2>1, <2>2, HttpGetType DEF ClientTypeOK
  <2> QED BY <2>1, <2>3 DEF HttpGet, FdIsOpen
<1>11. ASSUME NEW s \in Slots, End(s)
       PROVE  ClientTypeOK' /\ FdIsOpen'
  <2>1. fd' = FALSE /\ FdIsOpen'
    BY <1>11, Zenon DEF End, FdIsOpen
  <2>2. openFiles' \in Nat /\ retries' \in Int /\ redirects' \in Nat /\ answers' \in Nat
    BY <1>11 DEF End, Answer, CloseFile, ClientTypeOK, FdIsOpen
  <2>3. step' \in [Slots -> Steps]
    BY <1>11 DEF End, Answer, ClientTypeOK, Steps
  <2>4. UNCHANGED <<options, status, size, err, breaks>>
    BY <1>11 DEF End
  <2> QED BY <2>1, <2>2, <2>3, <2>4, Zenon DEF ClientTypeOK, Steps, options
<1>12. ASSUME NEW s \in Slots, Data(s)
       PROVE  ClientTypeOK' /\ FdIsOpen'
  BY <1>12 DEF Data, ClientTypeOK, FdIsOpen, options
<1>13. ASSUME NEW s \in Slots, TimeOut(s)
       PROVE  ClientTypeOK' /\ FdIsOpen'
  BY <1>13 DEF TimeOut, ClientTypeOK, FdIsOpen, options, params
<1>14. ASSUME NEW s \in Slots, Break(s)
       PROVE  ClientTypeOK' /\ FdIsOpen'
  BY <1>14 DEF Break, ClientTypeOK, FdIsOpen, options, params
<1> QED BY <1>1, <1>2, <1>3, <1>4, <1>5, <1>6, <1>7, <1>8, <1>9, <1>10, <1>11, <1>12, <1>13, <1>14
        DEF ClientNext, Continue

\* The type invariant holds, with a file open whenever fd says so.
THEOREM ClientTypeCorrect == ClientSpec => [](ClientTypeOK /\ FdIsOpen)
BY TypeInit, TypeStep, PTL DEF ClientSpec
-----------------------------------------------------------------------------
(* One answer each.  The continuations that are under way and the answers  *)
(* that were given are as many as the connections that failed within a     *)
(* body, and one.  So there is one continuation at most as long as none    *)
(* failed, and an open file is in its hands.                               *)

Counted == answers + Cardinality(Busy) = 1 + breaks

FileInHand == breaks = 0 => /\ openFiles = IF fd THEN 1 ELSE 0
                            /\ fd => \E s \in Slots : Ended(s)

OneInv == ClientTypeOK /\ Counted /\ FileInHand

LEMMA BusyFinite ==
  ASSUME ClientTypeOK
  PROVE  IsFiniteSet(Busy) /\ Cardinality(Busy) \in Nat
BY SlotAssumption, FS_Subset, FS_CardinalityType DEF Busy

LEMMA OneInvSuffices == OneInv => OneAnswerEach
<1> SUFFICES ASSUME OneInv PROVE OneAnswerEach
  OBVIOUS
<1>1. ASSUME Busy = {}, breaks = 0 PROVE openFiles = 0
  <2>1. \A s \in Slots : ~Ended(s)
    BY <1>1 DEF Busy, Ended
  <2> QED BY <1>1, <2>1 DEF OneInv, FileInHand
<1> QED BY <1>1 DEF OneInv, Counted, OneAnswerEach

\* A continuation that goes on, one that ends, and one that begins.
LEMMA KeepsBusy ==
  ASSUME ClientTypeOK, NEW s \in Slots, step[s] # "none", NEW next, next # "none",
         step' = [step EXCEPT ![s] = next]
  PROVE  Busy' = Busy
BY DEF ClientTypeOK, Busy

LEMMA Ends ==
  ASSUME ClientTypeOK, NEW s \in Slots, step[s] # "none", step' = [step EXCEPT ![s] = "none"]
  PROVE  Cardinality(Busy') = Cardinality(Busy) - 1
<1>1. Busy' = Busy \ {s} /\ s \in Busy
  BY DEF ClientTypeOK, Busy
<1> QED BY <1>1, BusyFinite, FS_RemoveElement

LEMMA Begins ==
  ASSUME ClientTypeOK, NEW s \in Slots, step[s] # "none", NEW t \in Slots, step[t] = "none",
         step' = [step EXCEPT ![s] = "aborted", ![t] = "retry"]
  PROVE  Cardinality(Busy') = Cardinality(Busy) + 1
<1>1. Busy' = Busy \cup {t} /\ t \notin Busy
  BY DEF ClientTypeOK, Busy
<1> QED BY <1>1, BusyFinite, FS_AddElement

\* As long as no connection failed within a body there is one continuation at
\* most, and no file is open in any other hands than those of a response.
LEMMA Alone ==
  ASSUME OneInv, breaks = 0, NEW s \in Slots, step[s] # "none", NEW t \in Slots, step[t] # "none"
  PROVE  s = t
<1>1. s \in Busy /\ t \in Busy
  BY DEF Busy
<1>2. IsFiniteSet(Busy) /\ Cardinality(Busy) \in Nat /\ Cardinality(Busy) <= 1
  BY BusyFinite DEF OneInv, Counted, ClientTypeOK
<1> SUFFICES ASSUME s # t PROVE FALSE
  OBVIOUS
<1>3. IsFiniteSet(Busy \ {s}) /\ Cardinality(Busy \ {s}) = Cardinality(Busy) - 1
  BY <1>1, <1>2, FS_RemoveElement
<1>4. t \in Busy \ {s}
  BY <1>1
<1>5. IsFiniteSet((Busy \ {s}) \ {t}) /\ Cardinality((Busy \ {s}) \ {t}) = Cardinality(Busy \ {s}) - 1
  BY <1>3, <1>4, FS_RemoveElement
<1>6. Cardinality((Busy \ {s}) \ {t}) \in Nat
  BY <1>5, FS_CardinalityType
<1> QED BY <1>2, <1>3, <1>5, <1>6

LEMMA NoFileElsewhere ==
  ASSUME OneInv, breaks = 0, NEW s \in Slots, step[s] # "none", ~Ended(s)
  PROVE  fd = FALSE /\ openFiles = 0
<1>1. \A t \in Slots : ~Ended(t)
  BY Alone DEF Ended
<1>2. ~fd
  BY <1>1 DEF OneInv, FileInHand
<1>3. fd = FALSE
  BY <1>2, Zenon DEF OneInv, ClientTypeOK
<1> QED BY <1>2, <1>3 DEF OneInv, FileInHand

\* The call httpGet makes to itself: it goes on, and has no file open.
LEMMA GetsAgain ==
  ASSUME OneInv, NEW s \in Slots, step[s] # "none", NEW jar, NEW post, NEW cond,
         HttpGet(s, jar, post, cond), answers' = answers,
         breaks = 0 => openFiles' = 0
  PROVE  Counted' /\ FileInHand'
<1>1. Missing(jar, post, cond) # "none"
  BY MissingType
<1>2. step' = [step EXCEPT ![s] = Missing(jar, post, cond)] /\ breaks' = breaks
  BY DEF HttpGet
<1>3. Busy' = Busy
  BY <1>1, <1>2, KeepsBusy DEF OneInv
<1>4. Counted'
  BY <1>2, <1>3 DEF OneInv, Counted
<1>5. ~fd'
  BY DEF HttpGet
<1> QED BY <1>2, <1>4, <1>5 DEF FileInHand

LEMMA OneInit == ClientInit => OneInv
<1> SUFFICES ASSUME ClientInit PROVE OneInv
  OBVIOUS
<1>1. ClientTypeOK
  BY TypeInit
<1>2. PICK s \in Slots : step = [t \in Slots |-> IF t = s THEN "start" ELSE "none"]
  BY DEF ClientInit
<1>3. Busy = {s}
  BY <1>2 DEF Busy
<1>4. Cardinality(Busy) = 1
  BY <1>3, FS_Singleton
<1>5. answers = 0 /\ breaks = 0 /\ openFiles = 0
  BY DEF ClientInit
<1>6. ~fd
  BY Zenon DEF ClientInit
<1> QED BY <1>1, <1>4, <1>5, <1>6 DEF OneInv, Counted, FileInHand

\* The steps in which httpGet starts over with no response at hand.
LEMMA StartsOver ==
  ASSUME OneInv, NEW s \in Slots,
         Start(s) \/ CookiesLoaded(s) \/ PostFileFound(s) \/ FileChecked(s)
  PROVE  Counted' /\ FileInHand'
<1>1. step[s] # "none" /\ ~Ended(s)
  BY DEF Start, CookiesLoaded, PostFileFound, FileChecked, Ended
<1>2. breaks = 0 => openFiles = 0
  BY <1>1, NoFileElsewhere
<1>3. answers' = answers /\ openFiles' = openFiles
  BY DEF Start, CookiesLoaded, PostFileFound, FileChecked
<1>4. PICK jar, post, cond : HttpGet(s, jar, post, cond)
  BY DEF Start, CookiesLoaded, PostFileFound, FileChecked
<1> QED BY <1>1, <1>2, <1>3, <1>4, GetsAgain

\* What onEnd closes is the file in the hands of the response.
LEMMA Closes ==
  ASSUME OneInv, breaks = 0, CloseFile
  PROVE  openFiles' = 0
BY DEF OneInv, FileInHand, CloseFile

LEMMA OneStep == OneInv /\ FdIsOpen /\ [ClientNext]_clientVars => OneInv'
<1> SUFFICES ASSUME OneInv, FdIsOpen, [ClientNext]_clientVars
             PROVE  Counted' /\ FileInHand'
  BY TypeStep DEF OneInv
<1>a. ClientTypeOK /\ Counted /\ FileInHand
  BY DEF OneInv
<1>b. answers \in Nat /\ breaks \in Nat /\ openFiles \in Nat /\ Cardinality(Busy) \in Nat
  BY <1>a, BusyFinite DEF ClientTypeOK
<1>1. CASE UNCHANGED clientVars
  BY <1>1, <1>a DEF clientVars, options, params, Counted, FileInHand, Busy, Ended
<1>2. ASSUME NEW s \in Slots, Start(s) \/ CookiesLoaded(s) \/ PostFileFound(s) \/ FileChecked(s)
      PROVE  Counted' /\ FileInHand'
  BY <1>2, StartsOver
<1>3. ASSUME NEW s \in Slots, PostFileMissing(s)
      PROVE  Counted' /\ FileInHand'
  <2>1. step[s] # "none" /\ ~Ended(s)
    BY <1>3 DEF PostFileMissing, Ended
  <2>2. /\ step' = [step EXCEPT ![s] = "none"] /\ answers' = answers + 1
        /\ breaks' = breaks /\ openFiles' = openFiles /\ fd' = fd
    BY <1>3 DEF PostFileMissing, Answer, params
  <2>3. Counted'
    <3>1. Cardinality(Busy') = Cardinality(Busy) - 1
      BY <1>a, <2>1, <2>2, Ends
    <3> QED BY <1>a, <1>b, <2>2, <3>1 DEF Counted
  <2>4. FileInHand'
    BY <2>1, <2>2, NoFileElsewhere DEF FileInHand
  <2> QED BY <2>3, <2>4
<1>4. ASSUME NEW s \in Slots, Respond(s)
      PROVE  Counted' /\ FileInHand'
  <2>1. /\ step[s] # "none" /\ step' = [step EXCEPT ![s] = "body"]
        /\ answers' = answers /\ breaks' = breaks /\ openFiles' = openFiles /\ fd' = fd
    BY <1>4 DEF Respond, params
  <2>2. Counted'
    BY <1>a, <2>1, KeepsBusy DEF Counted
  <2>3. step'[s] = "body"
    BY <1>a, <2>1 DEF ClientTypeOK
  <2>4. FileInHand'
    BY <1>a, <2>1, <2>3 DEF FileInHand, Ended
  <2> QED BY <2>2, <2>4
<1>5. ASSUME NEW s \in Slots, Fail(s)
      PROVE  Counted' /\ FileInHand'
  <2>1. /\ step[s] # "none" /\ ~Ended(s)
        /\ breaks' = breaks /\ openFiles' = openFiles /\ fd' = fd
    BY <1>5 DEF Fail, Ended
  <2>2. FileInHand'
    BY <2>1, NoFileElsewhere DEF FileInHand
  <2>3. CASE step' = [step EXCEPT ![s] = "retry"] /\ answers' = answers
    BY <1>a, <2>1, <2>2, <2>3, KeepsBusy DEF Counted
  <2>4. CASE step' = [step EXCEPT ![s] = "none"] /\ answers' = answers + 1
    <3>1. Cardinality(Busy') = Cardinality(Busy) - 1
      BY <1>a, <2>1, <2>4, Ends
    <3> QED BY <1>a, <1>b, <2>1, <2>2, <2>4, <3>1 DEF Counted
  <2> QED BY <1>5, <2>3, <2>4 DEF Fail, Answer
<1>6. ASSUME NEW s \in Slots, EndRetry(s)
      PROVE  Counted' /\ FileInHand'
  <2>1. /\ step[s] # "none" /\ step' = [step EXCEPT ![s] = "retry"]
        /\ answers' = answers /\ breaks' = breaks /\ CloseFile
    BY <1>6 DEF EndRetry, Ended
  <2>2. ~fd'
    BY <1>6 DEF EndRetry
  <2>3. Counted'
    BY <1>a, <2>1, KeepsBusy DEF Counted
  <2> QED BY <2>1, <2>2, <2>3, Closes DEF FileInHand
<1>7. ASSUME NEW s \in Slots, EndRedirect(s)
      PROVE  Counted' /\ FileInHand'
  <2>1. step[s] # "none" /\ answers' = answers /\ CloseFile
    BY <1>7 DEF EndRedirect, Ended
  <2>2. PICK jar, post, cond : HttpGet(s, jar, post, cond)
    BY <1>7 DEF EndRedirect
  <2> QED BY <2>1, <2>2, Closes, GetsAgain
<1>8. ASSUME NEW s \in Slots, End(s)
      PROVE  Counted' /\ FileInHand'
  <2>1. /\ step[s] # "none" /\ step' = [step EXCEPT ![s] = "none"]
        /\ answers' = answers + 1 /\ breaks' = breaks /\ CloseFile
    BY <1>8 DEF End, Ended, Answer
  <2>2. ~fd'
    BY <1>8 DEF End
  <2>3. Counted'
    <3>1. Cardinality(Busy') = Cardinality(Busy) - 1
      BY <1>a, <2>1, Ends
    <3> QED BY <1>a, <1>b, <2>1, <3>1 DEF Counted
  <2> QED BY <2>1, <2>2, <2>3, Closes DEF FileInHand
<1>9. ASSUME NEW s \in Slots, Data(s)
      PROVE  Counted' /\ FileInHand'
  <2>1. PICK next \in {"aborted", "body"} : step' = [step EXCEPT ![s] = next]
    BY <1>9 DEF Data
  <2>2. /\ step[s] # "none" /\ answers' = answers /\ breaks' = breaks
        /\ openFiles' = IF fd' /\ ~fd THEN openFiles + 1 ELSE openFiles
    BY <1>9, Zenon DEF Data
  <2>3. fd => fd'
    <3>1. CASE Opens(s)
      BY <3>1, Zenon DEF Opens
    <3>2. CASE ~Opens(s)
      <4>1. PICK opened \in {fd} : fd' = opened
        BY <1>9, <3>2, Zenon DEF Data
      <4>2. fd' = fd
        BY <4>1
      <4> QED BY <4>2
    <3> QED BY <3>1, <3>2
  <2>4. step'[s] \in {"aborted", "body"}
    BY <1>a, <2>1 DEF ClientTypeOK
  <2>5. Counted'
    BY <1>a, <2>1, <2>2, KeepsBusy DEF Counted
  <2>6. FileInHand'
    BY <1>a, <1>b, <2>2, <2>3, <2>4 DEF FileInHand, Ended
  <2> QED BY <2>5, <2>6
<1>10. ASSUME NEW s \in Slots, TimeOut(s)
       PROVE  Counted' /\ FileInHand'
  <2>1. /\ step[s] # "none" /\ step' = [step EXCEPT ![s] = "aborted"]
        /\ answers' = answers /\ breaks' = breaks /\ openFiles' = openFiles /\ fd' = fd
    BY <1>10 DEF TimeOut, params
  <2>2. Counted'
    BY <1>a, <2>1, KeepsBusy DEF Counted
  <2>3. step'[s] = "aborted"
    BY <1>a, <2>1 DEF ClientTypeOK
  <2>4. FileInHand'
    BY <1>a, <2>1, <2>3 DEF FileInHand, Ended
  <2> QED BY <2>2, <2>4
<1>11. ASSUME NEW s \in Slots, Break(s)
       PROVE  Counted' /\ FileInHand'
  <2>1. step[s] # "none" /\ breaks' = breaks + 1
    BY <1>11 DEF Break
  <2>2. FileInHand'
    BY <1>b, <2>1 DEF FileInHand
  <2>3. ASSUME NEW t \in Slots, step[t] = "none", answers' = answers,
               step' = [step EXCEPT ![s] = "aborted", ![t] = "retry"]
        PROVE  Counted'
    <3>1. Cardinality(Busy') = Cardinality(Busy) + 1
      BY <1>a, <2>1, <2>3, Begins
    <3> QED BY <1>a, <1>b, <2>1, <2>3, <3>1 DEF Counted
  <2>4. ASSUME step' = [step EXCEPT ![s] = "aborted"], answers' = answers + 1
        PROVE  Counted'
    <3>1. Busy' = Busy
      BY <1>a, <2>1, <2>4, KeepsBusy
    <3> QED BY <1>a, <1>b, <2>1, <2>4, <3>1 DEF Counted
  <2> QED BY <1>11, <2>2, <2>3, <2>4 DEF Break
<1> QED BY <1>1, <1>2, <1>3, <1>4, <1>5, <1>6, <1>7, <1>8, <1>9, <1>10, <1>11 DEF ClientNext, Continue

\* A request calls back once, and leaves no file open, however its attempts
\* fail, move and are repeated, for any options and any number of slots.
THEOREM OneAnswer == ClientSpec => []OneAnswerEach
<1>1. ClientInit => OneInv /\ FdIsOpen
  BY OneInit, TypeInit
<1>2. OneInv /\ FdIsOpen /\ [ClientNext]_clientVars => (OneInv /\ FdIsOpen)'
  BY OneStep, TypeStep DEF OneInv
<1>3. OneInv => OneAnswerEach
  BY OneInvSuffices
<1> QED BY <1>1, <1>2, <1>3, PTL DEF ClientSpec
=============================================================================
