----------------------------- MODULE MCService -----------------------------
(* Two processes of the service: a stop, an end or a failure, and a start. *)
EXTENDS Service
=============================================================================
