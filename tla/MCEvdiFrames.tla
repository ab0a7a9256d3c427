---------------------------- MODULE MCEvdiFrames ----------------------------
(* Model checking of EvdiFrames: two modes, three events waiting at most,   *)
(* and two failed mappings instead of ten.                                  *)
EXTENDS EvdiFrames
=============================================================================
