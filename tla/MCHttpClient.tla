---------------------------- MODULE MCHttpClient ----------------------------
(* One request, with every option of the model. *)
EXTENDS HttpClient

=============================================================================
