---------------------------- MODULE TokenBucket ----------------------------
(***************************************************************************)
(* What a rate limiter promises, in exact arithmetic and true time: a      *)
(* bucket of Capacity that gains Refill in every unit of time, from which  *)
(* a request takes Token, or is refused when there is less than that.      *)
(* Only a disturbance, of which every one is counted, may change the       *)
(* contents in another way.                                                *)
(***************************************************************************)
EXTENDS Integers

CONSTANTS Capacity, Refill, Token

VARIABLES
  level,         \* what is in the bucket
  granted,       \* requests that took a token
  refused,       \* requests that found too little
  disturbances   \* faults of the store and of the clock

bucketVars == <<level, granted, refused, disturbances>>

Init == level = Capacity /\ granted = 0 /\ refused = 0 /\ disturbances = 0

\* A bucket that holds more than its capacity (after a disturbance) is not cut.
Drip == /\ level < Capacity
        /\ level' = IF level + Refill <= Capacity THEN level + Refill ELSE Capacity
        /\ UNCHANGED <<granted, refused, disturbances>>

Grant == /\ level >= Token
         /\ level' = level - Token
         /\ granted' = granted + 1
         /\ UNCHANGED <<refused, disturbances>>

Refuse == /\ level < Token
          /\ refused' = refused + 1
          /\ UNCHANGED <<level, granted, disturbances>>

Disturb == /\ disturbances' = disturbances + 1
           /\ level' \in Nat
           /\ \/ UNCHANGED <<granted, refused>>
              \/ granted' = granted + 1 /\ UNCHANGED refused
              \/ refused' = refused + 1 /\ UNCHANGED granted

Next == Drip \/ Grant \/ Refuse \/ Disturb

Spec == Init /\ [][Next]_bucketVars
=============================================================================
