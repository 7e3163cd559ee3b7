--------------------------- MODULE MCServerCluster ---------------------------
(* An instance of ServerCluster for TLC. *)
EXTENDS ServerCluster
=============================================================================
