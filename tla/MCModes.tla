------------------------------ MODULE MCModes ------------------------------
(* Settings of phones, tablets and large screens: odd sizes, upright ones,   *)
(* rates that divide the clock and rates that do not, and modes that do not  *)
(* fit into the EDID.                                                        *)
EXTENDS Modes
=============================================================================
