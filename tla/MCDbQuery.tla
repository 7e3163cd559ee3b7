----------------------------- MODULE MCDbQuery -----------------------------
(* Two queries at a time over pools of at most one connection (or two, when both
   are opened at once); one pool replaces the other. *)
EXTENDS DbQuery

MCPools == 1..LastPool
=============================================================================
