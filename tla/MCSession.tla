----------------------------- MODULE MCSession -----------------------------
(* Model checking of Session: one device, with limits of two failed frame   *)
(* requests and two failed map calls instead of 15 and 10.                  *)
EXTENDS Session
=============================================================================
