---------------------------- MODULE MCLifecycle ----------------------------
(* Model checking of Lifecycle: two servers of each kind, and two of the     *)
(* events (a restart, a call of shutdown).                                   *)
EXTENDS Lifecycle

\* A process with a fault takes no further step, and ShutdownEnds asks nothing of it:
\* TLC checks the invariants in its state, and does not keep the state.
NotLost == fault = "none"
=============================================================================
