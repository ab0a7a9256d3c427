------------------------------- MODULE Driver -------------------------------
(***************************************************************************)
(* The monitors of the Windows driver: the slots of its adapter, the       *)
(* sessions that connect and disconnect monitors by I/O requests, and the  *)
(* system that commits modes to the monitors it knows.                     *)
(*                                                                         *)
(* A server opens the driver once; the handle is synchronous, so the       *)
(* requests made through one handle run one after the other.  There may be *)
(* several handles: a server that is started before the last one is gone,  *)
(* or after it has crashed, opens its own, and nothing in the driver       *)
(* serialises requests of different handles.                               *)
(*                                                                         *)
(* A session connects at most one monitor, so monitors are named after     *)
(* their sessions.                                                         *)
(***************************************************************************)
EXTENDS Integers

CONSTANTS
    Sessions,     \* sessions that get as far as a display
    Handles,      \* handles to the driver
    MaxMonitors,  \* MAX_MONITOR_COUNT
    None          \* an empty slot

ASSUME ConstantsAssumption ==
    /\ MaxMonitors \in Nat \ {0}
    /\ None \notin Sessions

VARIABLES
    slots,      \* connectedMonitors of the adapter
    st,         \* st[s]: next step, or the end, of session s
    via,        \* via[s]: the handle of the server s belongs to
    idx,        \* idx[s]: the slot found, later connectorIndex
    leaves,     \* leaves[s]: the monitor that a disconnect of s departs
    open,       \* handles whose server is there
    present,    \* monitors the system knows
    active,     \* monitors the desktop uses
    due,        \* the system has modes to commit
    paths,      \* paths of a commit that are not yet handled
    enabled,    \* m_enabled of the monitors
    overlapped  \* two requests have looked for a slot at the same time

server == <<st, via, idx, leaves, open>>
system == <<present, active, due, paths>>
vars == <<slots, server, system, enabled, overlapped>>

Slot == 0 .. MaxMonitors - 1

\* s is inside a DeviceIoControl.
InRequest(s) == st[s] \in {"search", "store", "arrive", "depart"}

\* s runs in its server.
InServer(s) == st[s] \in {"returned", "serving"}

Init ==
    /\ slots = [i \in Slot |-> None]
    /\ st = [s \in Sessions |-> "new"]
    /\ via \in [Sessions -> Handles]
    /\ idx = [s \in Sessions |-> 0]
    /\ leaves = [s \in Sessions |-> None]
    /\ open = Handles
    /\ present = {}
    /\ active = {}
    /\ due = FALSE
    /\ paths = {}
    /\ enabled = {}
    /\ overlapped = FALSE

-----------------------------------------------------------------------------
(* adapterConnectMonitor and ConnectMonitor *)

Goto(s, from, to) ==
    /\ st[s] = from
    /\ st' = [st EXCEPT ![s] = to]

\* The same for the last step of s, which leaves no slot number.
Ends(s, from, to) ==
    /\ Goto(s, from, to)
    /\ idx' = [idx EXCEPT ![s] = 0]

\* Wrong: an overlapped handle, through which requests run side by side.
BeginsAtOnce(s, from, to) ==
    /\ via[s] \in open
    /\ Goto(s, from, to)

\* DeviceIoControl: the request gets its turn.
Begins(s, from, to) ==
    /\ via[s] \in open
    /\ \A t \in Sessions : via[t] = via[s] => ~InRequest(t)
    /\ Goto(s, from, to)

ConnectCall(s) ==
    /\ Begins(s, "new", "search")
    /\ UNCHANGED <<slots, via, idx, leaves, open, system, enabled, overlapped>>

Free(i) == slots[i] = None

\* Another server's request has found a slot and not yet taken it.
SearchesOverlap(s) ==
    \E t \in Sessions : via[t] # via[s] /\ st[t] = "store"

Search(s) ==
    /\ \E i \in Slot :
         /\ Free(i)
         /\ \A j \in Slot : Free(j) => i <= j
         /\ idx' = [idx EXCEPT ![s] = i]
    /\ Goto(s, "search", "store")
    /\ overlapped' = (overlapped \/ SearchesOverlap(s))
    /\ UNCHANGED <<slots, via, leaves, open, system, enabled>>

\* STATUS_INSUFFICIENT_RESOURCES.  The search, like that of CommitMode, has read one
\* entry past the slots by then; what it finds there does not matter.
SearchFails(s) ==
    /\ \A i \in Slot : ~Free(i)
    /\ Ends(s, "search", "refused")
    /\ UNCHANGED <<slots, via, leaves, open, system, enabled, overlapped>>

\* IddCxMonitorCreate fails.
CreateFails(s) ==
    /\ Ends(s, "store", "refused")
    /\ UNCHANGED <<slots, via, leaves, open, system, enabled, overlapped>>

Store(s) ==
    /\ Goto(s, "store", "arrive")
    /\ slots' = [slots EXCEPT ![idx[s]] = s]
    /\ UNCHANGED <<via, idx, leaves, open, system, enabled, overlapped>>

\* IddCxMonitorArrival: the system learns of the monitor.
Arrive(s) ==
    /\ Goto(s, "arrive", "returned")
    /\ present' = present \cup {s}
    /\ due' = TRUE
    /\ UNCHANGED <<slots, via, idx, leaves, open, active, paths, enabled,
                   overlapped>>

\* It fails: the slot is left as it is.
ArriveFails(s) ==
    /\ Ends(s, "arrive", "lost")
    /\ UNCHANGED <<slots, via, leaves, open, system, enabled, overlapped>>

\* OpenProcess succeeds, the Monitor is made ...
Opens(s) ==
    /\ Goto(s, "returned", "serving")
    /\ UNCHANGED <<slots, via, idx, leaves, open, system, enabled, overlapped>>

\* ... or fails: nobody disconnects the monitor.
OpenFails(s) ==
    /\ Ends(s, "returned", "lost")
    /\ UNCHANGED <<slots, via, leaves, open, system, enabled, overlapped>>

\* sendFrames cannot start its input thread: the exception takes the session past
\* disconnectMonitor, while the server goes on.
ThreadFails(s) ==
    /\ Ends(s, "serving", "lost")
    /\ UNCHANGED <<slots, via, leaves, open, system, enabled, overlapped>>

-----------------------------------------------------------------------------
(* monitorRequestFrame and FrameRequest *)

\* The request leaves everything here alone (see module Processor), unless it
\* looks into an empty slot for the context of its monitor.
FrameRequest(s) ==
    /\ Begins(s, "serving", IF Free(idx[s]) THEN "fault" ELSE "serving")
    /\ UNCHANGED <<slots, via, idx, leaves, open, system, enabled, overlapped>>

-----------------------------------------------------------------------------
(* monitorDisconnect and DisconnectMonitor *)

\* Wrong: the slot is not emptied.
DisconnectUncleared(s) ==
    /\ ~Free(idx[s])
    /\ Begins(s, "serving", "depart")
    /\ leaves' = [leaves EXCEPT ![s] = slots[idx[s]]]
    /\ UNCHANGED <<slots, via, idx, open, system, enabled, overlapped>>

Disconnect(s) ==
    /\ ~Free(idx[s])
    /\ Begins(s, "serving", "depart")
    /\ slots' = [slots EXCEPT ![idx[s]] = None]
    /\ leaves' = [leaves EXCEPT ![s] = slots[idx[s]]]
    /\ UNCHANGED <<via, idx, open, system, enabled, overlapped>>

\* STATUS_NOT_FOUND
DisconnectNotFound(s) ==
    /\ Free(idx[s])
    /\ Begins(s, "serving", "over")
    /\ UNCHANGED <<slots, via, idx, leaves, open, system, enabled, overlapped>>

\* IddCxMonitorDeparture: the system forgets the monitor.
Depart(s) ==
    /\ Ends(s, "depart", "over")
    /\ present' = present \ {leaves[s]}
    /\ active' = active \ {leaves[s]}
    /\ enabled' = enabled \ {leaves[s]}
    /\ leaves' = [leaves EXCEPT ![s] = None]
    /\ due' = TRUE
    /\ UNCHANGED <<slots, via, open, paths, overlapped>>

DepartFails(s) ==
    /\ Ends(s, "depart", "over")
    /\ leaves' = [leaves EXCEPT ![s] = None]
    /\ UNCHANGED <<slots, via, open, system, enabled, overlapped>>

-----------------------------------------------------------------------------
(* Servers that end *)

\* The process of the server ends (MdEvtFileClose is empty: requests that are
\* under way come to their end in the driver), or the Server is destroyed, and
\* with it the AdapterContext.
Close(h) ==
    /\ h \in open
    /\ open' = open \ {h}
    /\ UNCHANGED <<slots, st, via, idx, leaves, system, enabled, overlapped>>

\* The session has gone with its process, or its monitorDisconnect finds no
\* adapter ("ignoring disconnect request...").
Abandon(s) ==
    /\ via[s] \notin open
    /\ InServer(s)
    /\ Ends(s, st[s], "lost")
    /\ UNCHANGED <<slots, via, leaves, open, system, enabled, overlapped>>

-----------------------------------------------------------------------------
(* The system *)

\* The desktop begins or ceases to use a monitor; the system does not do this
\* while it commits.
Activate ==
    /\ paths = {}
    /\ \E m \in present :
         active' = IF m \in active THEN active \ {m} ELSE active \cup {m}
    /\ due' = TRUE
    /\ UNCHANGED <<slots, server, present, paths, enabled, overlapped>>

CommitBegins ==
    /\ due
    /\ paths = {}
    /\ due' = FALSE
    /\ paths' = present
    /\ UNCHANGED <<slots, server, present, active, enabled, overlapped>>

HasSlot(m) == \E i \in Slot : slots[i] = m

\* Wrong: the loop returns with the status of its first turn.
CommitFirst ==
    /\ \E m \in paths :
         /\ HasSlot(m)
         /\ enabled' = IF m \in active THEN enabled \cup {m} ELSE enabled \ {m}
    /\ paths' = {}
    /\ UNCHANGED <<slots, server, present, active, due, overlapped>>

\* One turn of the loop of MdEvtAdapterCommitModes.
Commit ==
    /\ \E m \in paths :
         /\ HasSlot(m)
         /\ paths' = paths \ {m}
         /\ enabled' = IF m \in active THEN enabled \cup {m} ELSE enabled \ {m}
    /\ UNCHANGED <<slots, server, present, active, due, overlapped>>

\* STATUS_NOT_FOUND: the rest of the paths is not handled.
CommitNotFound ==
    /\ \E m \in paths : ~HasSlot(m)
    /\ paths' = {}
    /\ UNCHANGED <<slots, server, present, active, due, enabled, overlapped>>

-----------------------------------------------------------------------------

Connecting(s) ==
    \/ ConnectCall(s) \/ Search(s) \/ SearchFails(s) \/ CreateFails(s)
    \/ Store(s) \/ Arrive(s) \/ ArriveFails(s) \/ Opens(s) \/ OpenFails(s)

Disconnecting(s) ==
    \/ Disconnect(s) \/ DisconnectNotFound(s) \/ Depart(s) \/ DepartFails(s)

Next ==
    \/ \E s \in Sessions :
         \/ Connecting(s) \/ FrameRequest(s)
         \/ Disconnecting(s) \/ ThreadFails(s) \/ Abandon(s)
    \/ \E h \in Handles : Close(h)
    \/ Activate \/ CommitBegins \/ Commit \/ CommitNotFound

Spec == Init /\ [][Next]_vars

-----------------------------------------------------------------------------
(* Properties *)

\* Every variable keeps its type.
TypeOK ==
    /\ slots \in [Slot -> Sessions \cup {None}]
    /\ st \in [Sessions -> {"new", "search", "store", "arrive", "returned",
                            "serving", "depart", "refused",
                            "lost",
                            "over", "fault"}]
    /\ via \in [Sessions -> Handles]
    /\ idx \in [Sessions -> Slot]
    /\ leaves \in [Sessions -> Sessions \cup {None}]
    /\ open \subseteq Handles
    /\ present \subseteq Sessions
    /\ active \subseteq present
    /\ due \in BOOLEAN
    /\ paths \subseteq Sessions
    /\ enabled \subseteq Sessions
    /\ overlapped \in BOOLEAN

\* The requests of a session reach its own monitor, and no request finds its
\* slot empty, unless two searches for a slot have overlapped: the handle of a
\* server keeps its own sessions apart, but not those of two servers.
SlotIsOwn ==
    ~overlapped =>
        \A s \in Sessions :
            /\ st[s] \in {"arrive", "returned", "serving"} =>
                 slots[idx[s]] = s
            /\ st[s] # "fault"

\* A slot is lost only where nobody is left who knows it: its arrival, the
\* OpenProcess after it or the thread of its session has failed, or its server was
\* gone before it.  A session
\* that was refused, or has disconnected, holds none.
SlotsAreGivenBack ==
    ~overlapped =>
        \A i \in Slot :
            ~Free(i) => st[slots[i]] \notin {"new", "search", "store", "refused",
                                             "depart", "over"}

\* "Monitor must be enabled after commit modes callback": when the system has
\* nothing left to commit, the monitors are enabled as the desktop uses them,
\* although a monitor on its way out makes a commit skip the others.  The
\* exception is a monitor the system knows and the adapter does not (its
\* departure has failed, or its slot was taken by an overlapping search).
CommitReachesAll ==
    ~due /\ paths = {} /\ (\A m \in present : HasSlot(m)) =>
        enabled = active
=============================================================================
