------------------------------ MODULE MCDriver ------------------------------
(* Model checking of Driver: three sessions of two servers, and two slots.  *)
EXTENDS Driver, TLC

Symmetry == Permutations(Sessions) \cup Permutations(Handles)
=============================================================================
