------------------------------ MODULE JobQueue ------------------------------
(***************************************************************************)
(* What the queues of backendjs promise to the code that publishes jobs:   *)
(* at-least-once delivery.  A message that was published stays pending     *)
(* until a consumer that was given it is through with it.  A consumer may  *)
(* lose its message (crash, lost reply, put back), and then the message is *)
(* still pending.  The queue drivers are shown to implement this module.   *)
(***************************************************************************)
CONSTANTS Consumers,   \* worker processes that subscribe to the queue
          Msgs,        \* messages, identified by their serialized body
          NoMsg        \* what a consumer without a message holds

VARIABLES pending,     \* messages the queue still owes to somebody
          holder       \* the message each consumer has been given

vars == <<pending, holder>>

Init == /\ pending = {}
        /\ holder = [c \in Consumers |-> NoMsg]

\* ipc.publish: the message is owed from now on.
Publish(m) == /\ pending' = pending \cup {m}
              /\ UNCHANGED holder

\* An idle consumer is given a message that is owed.
Take(c, m) == /\ holder[c] = NoMsg
              /\ m \in pending
              /\ holder' = [holder EXCEPT ![c] = m]
              /\ UNCHANGED pending

\* The consumer is through with its message, which is no longer owed.
Retire(c) == /\ holder[c] # NoMsg
             /\ pending' = pending \ {holder[c]}
             /\ holder' = [holder EXCEPT ![c] = NoMsg]

\* The consumer gives up its message, or dies with it: it is owed as before.
Release(c) == /\ holder[c] # NoMsg
              /\ holder' = [holder EXCEPT ![c] = NoMsg]
              /\ UNCHANGED pending

\* The consumer hands its message back, also when it was no longer owed.
Return(c) == /\ holder[c] # NoMsg
             /\ pending' = pending \cup {holder[c]}
             /\ holder' = [holder EXCEPT ![c] = NoMsg]

\* A consumer renews its claim; the message is owed while it is worked on.
Renew(c) == /\ holder[c] # NoMsg
            /\ pending' = pending \cup {holder[c]}
            /\ UNCHANGED holder

Next == \/ \E m \in Msgs : Publish(m)
        \/ \E c \in Consumers, m \in Msgs : Take(c, m)
        \/ \E c \in Consumers : Retire(c) \/ Release(c) \/ Return(c) \/ Renew(c)

Spec == Init /\ [][Next]_vars

-----------------------------------------------------------------------------
\* The only way out of the queue is through a consumer that held the message
\* and is done with it: nothing else ever removes a message.
NoLoss == [][\A m \in pending \ pending' :
               \E c \in Consumers : holder[c] = m /\ holder'[c] = NoMsg]_vars
=============================================================================
