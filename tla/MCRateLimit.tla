---------------------------- MODULE MCRateLimit ----------------------------
(* Rate limiting with a worker that waits and one that does not. *)
EXTENDS RateLimit
=============================================================================
