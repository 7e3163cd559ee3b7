---------------------------- MODULE MCIpcCalls ----------------------------
(* Two workers and the master on one counter. *)
EXTENDS IpcCalls

CONSTANTS w1, w2, a1, a2, b1, b2, s1

MCCalls == {a1, a2, b1, b2, s1}
MCOp == [c \in MCCalls |-> CASE c \in {a1, b1, s1} -> "incr"
                             [] c = a2 -> "getset"
                             [] c = b2 -> "put"]
MCCaller == [c \in MCCalls |-> CASE c \in {a1, a2} -> w1
                                 [] c \in {b1, b2} -> w2
                                 [] c = s1 -> Server]
=============================================================================
