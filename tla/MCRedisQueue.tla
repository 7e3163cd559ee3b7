---------------------------- MODULE MCRedisQueue ----------------------------
(* Two workers and two messages: w1 listens to both, w2 only to m1; m1 has an
   etime, m2 an stime that makes it wait. *)
EXTENDS RedisQueue, TLC

CONSTANTS w1, w2, m1, m2

MCHandles == (w1 :> {m1, m2}) @@ (w2 :> {m1})
MCStime == (m1 :> 0) @@ (m2 :> 2)
=============================================================================
