------------------------------ MODULE MCHello ------------------------------
(* Model checking of Hello: a negative length, an empty name, a one byte    *)
(* name, the longest name that cannot stall the hello, and one that can.    *)
EXTENDS Hello

MCNameLens == {-1, 0, 1, 12, 14}
=============================================================================
