----------------------------- MODULE ClientLife -----------------------------
(***************************************************************************)
(* What the server promises about one device, seen from outside: from the  *)
(* control panel, which hears of the device in events, and from the        *)
(* desktop, where the device appears as a display.                         *)
(*                                                                         *)
(* The panel hears of a device before its display appears, and hears that  *)
(* the device has gone only when the display is away again.  A display is  *)
(* connected at most once and is not connected again once it is away.      *)
(***************************************************************************)

VARIABLES
    seen,      \* what the panel knows: "unseen", "connected", "gone"
    display    \* "none", "attached", "released", or "abandoned": attached,
               \* with nobody left who would release it

Init ==
    /\ seen = "unseen"
    /\ display = "none"

\* clients/new
Announce ==
    /\ seen = "unseen"
    /\ seen' = "connected"
    /\ UNCHANGED display

Attach ==
    /\ seen = "connected"
    /\ display = "none"
    /\ display' = "attached"
    /\ UNCHANGED seen

Release ==
    /\ display = "attached"
    /\ display' = "released"
    /\ UNCHANGED seen

\* The thread that should release the display has failed.
Abandon ==
    /\ display = "attached"
    /\ display' = "abandoned"
    /\ UNCHANGED seen

\* clients/disconnected
Depart ==
    /\ seen = "connected"
    /\ display # "attached"
    /\ seen' = "gone"
    /\ UNCHANGED display

Next == Announce \/ Attach \/ Release \/ Abandon \/ Depart

Spec == Init /\ [][Next]_<<seen, display>>
=============================================================================
