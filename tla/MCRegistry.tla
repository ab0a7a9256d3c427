----------------------------- MODULE MCRegistry -----------------------------
(* Model checking of Registry: two connections; RegistryProofs covers the   *)
(* safety properties for any number.                                        *)
EXTENDS Registry
=============================================================================
