--------------------------- MODULE MCEvdiDevices ---------------------------
(* Three sessions of which the kernel serves two, and one foreign card. *)
EXTENDS EvdiDevices, TLC

Symmetry == Permutations(Sessions)
=============================================================================
