---------------------------- MODULE MCApiServer ----------------------------
(* Two connections, of which one fills the queue. *)
EXTENDS ApiServer
=============================================================================
