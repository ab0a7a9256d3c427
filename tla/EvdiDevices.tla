----------------------------- MODULE EvdiDevices -----------------------------
(***************************************************************************)
(* How the sessions of a Linux server get and give back their EVDI         *)
(* devices (adapterConnectMonitor, monitorDisconnect).                     *)
(*                                                                         *)
(* Every session has the kernel add a device, and then searches for one    *)
(* from lastNumber on: it does not learn which one is its own.  lastNumber *)
(* belongs to the adapter all sessions share, and has no lock.  A session  *)
(* that ends closes its device and removes the node in /dev/dri; the       *)
(* device itself stays with the kernel.                                    *)
(*                                                                         *)
(* The kernel numbers cards consecutively: Foreign cards of other drivers  *)
(* come first, then the devices added for the sessions.                    *)
(***************************************************************************)
EXTENDS Integers, FiniteSets

CONSTANTS
    Sessions,   \* connections that get as far as a display
    Foreign,    \* number of cards of other drivers
    Limit,      \* number of devices the kernel is ready to add
    Threshold   \* DEV_NO_THRESHOLD

ASSUME ConstantsAssumption ==
    /\ IsFiniteSet(Sessions)
    /\ Foreign \in Nat
    /\ Limit \in Nat
    /\ Threshold \in Nat
    /\ Foreign + Limit < Threshold

VARIABLES
    lastNumber,  \* of the AdapterContext
    added,       \* number of devices the kernel has added
    nodes,       \* devices that have a node in /dev/dri
    shows,       \* shows[d]: sessions whose display device d shows
    st,          \* st[s]: next step of session s
    dev,         \* dev[s]: devNumber, later devIndex, of session s
    opened,      \* devices that were opened by some session
    refused,     \* the kernel has refused to add a device
    overlapped   \* two sessions were in adapterConnectMonitor at the same time

vars == <<lastNumber, added, nodes, shows, st, dev, opened, refused, overlapped>>

Devices == Foreign .. Foreign + added - 1

\* s has read lastNumber and has not yet written it.
Connecting(s) == st[s] \in {"search", "open", "record"}

Init ==
    /\ lastNumber = -1
    /\ added = 0
    /\ nodes = {}
    /\ shows = [d \in 0 .. Threshold |-> {}]
    /\ st = [s \in Sessions |-> "add"]
    /\ dev = [s \in Sessions |-> 0]
    /\ opened = {}
    /\ refused = FALSE
    /\ overlapped = FALSE

-----------------------------------------------------------------------------

Goto(s, from, to) ==
    /\ st[s] = from
    /\ st' = [st EXCEPT ![s] = to]

\* evdi_add_device(), whose result is ignored.
Add(s) ==
    /\ Goto(s, "add", "read")
    /\ IF added < Limit
         THEN /\ added' = added + 1
              /\ nodes' = nodes \cup {Foreign + added}
              /\ UNCHANGED refused
         ELSE /\ refused' = TRUE
              /\ UNCHANGED <<added, nodes>>
    /\ UNCHANGED <<lastNumber, shows, dev, opened, overlapped>>

\* Wrong: the search begins with the device that was given out last.
ReadLastAgain(s) ==
    /\ Goto(s, "read", "search")
    /\ dev' = [dev EXCEPT ![s] = IF lastNumber < 0 THEN 0 ELSE lastNumber]
    /\ overlapped' = (overlapped \/ \E t \in Sessions : Connecting(t))
    /\ UNCHANGED <<lastNumber, added, nodes, shows, opened, refused>>

\* Wrong: a number is left out.
ReadLastSkipping(s) ==
    /\ Goto(s, "read", "search")
    /\ dev' = [dev EXCEPT ![s] = lastNumber + 2]
    /\ overlapped' = (overlapped \/ \E t \in Sessions : Connecting(t))
    /\ UNCHANGED <<lastNumber, added, nodes, shows, opened, refused>>

\* devNumber = lastNumber + 1
ReadLast(s) ==
    /\ Goto(s, "read", "search")
    /\ dev' = [dev EXCEPT ![s] = lastNumber + 1]
    /\ overlapped' = (overlapped \/ \E t \in Sessions : Connecting(t))
    /\ UNCHANGED <<lastNumber, added, nodes, shows, opened, refused>>

\* evdi_check_device() says that there is no such EVDI device ...
Skip(s) ==
    /\ dev[s] < Threshold
    /\ dev[s] \notin nodes
    /\ Goto(s, "search", "search")
    /\ dev' = [dev EXCEPT ![s] = @ + 1]
    /\ UNCHANGED <<lastNumber, added, nodes, shows, opened, refused, overlapped>>

\* ... or AVAILABLE, whoever may have it open.
Found(s) ==
    /\ dev[s] < Threshold
    /\ dev[s] \in nodes
    /\ Goto(s, "search", "open")
    /\ UNCHANGED <<lastNumber, added, nodes, shows, dev, opened, refused,
                   overlapped>>

\* "[BUG] Device numbers issued inconsistently"
SearchFails(s) ==
    /\ dev[s] = Threshold
    /\ Goto(s, "search", "thrown")
    /\ UNCHANGED <<lastNumber, added, nodes, shows, dev, opened, refused,
                   overlapped>>

\* evdi_open, evdi_connect2: the kernel lets a second one replace the first.
Open(s) ==
    /\ dev[s] \in nodes
    /\ Goto(s, "open", "record")
    /\ shows' = [shows EXCEPT ![dev[s]] = {s}]
    /\ opened' = opened \cup {dev[s]}
    /\ UNCHANGED <<lastNumber, added, nodes, dev, refused, overlapped>>

\* evdi_open fails, and evdi_connect2 gets a null handle.
OpenFails(s) ==
    /\ dev[s] \notin nodes
    /\ Goto(s, "open", "fault")
    /\ UNCHANGED <<lastNumber, added, nodes, shows, dev, opened, refused,
                   overlapped>>

\* lastNumber = devNumber
Record(s) ==
    /\ Goto(s, "record", "serving")
    /\ lastNumber' = dev[s]
    /\ UNCHANGED <<added, nodes, shows, dev, opened, refused, overlapped>>

\* monitorDisconnect: evdi_close ...
Close(s) ==
    /\ Goto(s, "serving", "remove")
    /\ shows' = [shows EXCEPT ![dev[s]] = @ \ {s}]
    /\ UNCHANGED <<lastNumber, added, nodes, dev, opened, refused, overlapped>>

\* ... and the removal of the node, which may fail.
Remove(s) ==
    /\ Goto(s, "remove", "done")
    /\ nodes' \in {nodes, nodes \ {dev[s]}}
    /\ UNCHANGED <<lastNumber, added, shows, dev, opened, refused, overlapped>>

\* The server is switched off and on; its sessions have been joined.
Restart ==
    /\ \A s \in Sessions : st[s] \in {"add", "done", "thrown"}
    /\ lastNumber' = -1
    /\ UNCHANGED <<added, nodes, shows, st, dev, opened, refused, overlapped>>

Next ==
    \/ \E s \in Sessions :
         \/ Add(s) \/ ReadLast(s) \/ Skip(s) \/ Found(s) \/ SearchFails(s)
         \/ Open(s) \/ OpenFails(s) \/ Record(s) \/ Close(s) \/ Remove(s)
    \/ Restart

Spec == Init /\ [][Next]_vars

-----------------------------------------------------------------------------
(* Properties *)

\* Every variable keeps its type.
TypeOK ==
    /\ lastNumber \in -1 .. Threshold - 1
    /\ added \in 0 .. Limit
    /\ nodes \subseteq Devices
    /\ shows \in [0 .. Threshold -> SUBSET Sessions]
    /\ st \in [Sessions -> {"add", "read", "search", "open", "record",
                            "serving", "remove", "done", "thrown", "fault"}]
    /\ dev \in [Sessions -> 0 .. Threshold]
    /\ opened \subseteq Devices
    /\ refused \in BOOLEAN
    /\ overlapped \in BOOLEAN

\* A session has its device for itself: nobody takes the display of a session
\* away, unless two sessions were connecting at the same time, then or ever
\* before (a lastNumber that was set back gives a device out twice later).
DisplayIsOwn ==
    \A s \in Sessions :
        st[s] = "serving" /\ ~overlapped => shows[dev[s]] = {s}

\* Without such an overlap, no session opens a device whose node has gone.
OpenedIsThere ==
    \A s \in Sessions : st[s] = "fault" => overlapped

\* However the sessions interleave, a search comes to the end of the numbers
\* only after the kernel has refused to add a device.
ExceptionNeedsRefusal ==
    \A s \in Sessions : st[s] = "thrown" => refused
=============================================================================
