----------------------------- MODULE Lifecycle -----------------------------
(***************************************************************************)
(* The life of the server process: the servers it starts and stops, the    *)
(* thread that runs their handlers, and the ways it comes to its end.      *)
(*                                                                         *)
(* Three threads may stop the servers.  "main" runs the web socket loop    *)
(* and in it the requests of the panel; "asio" runs the handlers of the    *)
(* io_context, and shuts the process down when one of them throws;         *)
(* "signal" is the handler of SIGINT, which interrupts the main thread     *)
(* (Linux) or runs on a thread of its own (Windows).                       *)
(*                                                                         *)
(* The TCP server and the echo server are alike: a socket on the port of   *)
(* the protocol, one asynchronous operation on it, and a flag (m_running,  *)
(* m_started) that its handler resets when it does not start the next one. *)
(* A handler keeps the address of its server, not the server.              *)
(*                                                                         *)
(* The USB server has a thread of its own, which waits for devices and has *)
(* adb forward the port of the protocol on each.                           *)
(***************************************************************************)
EXTENDS Integers, FiniteSets

CONSTANTS
    MaxObjects,  \* bound: servers of each kind that are ever constructed
    MaxEvents    \* bound: restarts and calls of shutdown(), together

ASSUME BoundsAssumption == MaxObjects \in Nat \ {0} /\ MaxEvents \in Nat

VARIABLES
    ptr,      \* g_server, g_echoServer, g_usbServer: the number of an object, or 0
    life,     \* life[k][n]: the n-th object of kind k
    started,  \* started[k][n]: its m_running or m_started
    op,       \* op[k][n]: its operation, pending or with a handler to be run;
              \* of a USB server, what its thread does
    handler,  \* the handler the asio thread runs
    pc,       \* pc[t]: next step of thread t
    at,       \* at[t]: the kind of server t works at
    held,     \* held[t]: the object t works at
    then,     \* what main does when it has stopped the servers
    shutters, \* threads that have called shutdown()
    sigOn,    \* where the handler of SIGINT runs
    stopped,  \* the io_context is stopped
    closeDue, \* App::close is deferred to the web socket loop
    app,      \* g_app is there
    asioEx,   \* the exception the asio thread leaves
    checked,  \* what main made of asioEx
    why,      \* the exception that left the web socket loop
    hit,      \* a freed server has written the flag of another one
    fault     \* undefined behaviour: the process is lost

objects == <<ptr, life, started, op>>
threads == <<pc, at, held, then>>
ending == <<shutters, sigOn, stopped, closeDue, app, asioEx, checked, why>>
harm == <<hit, fault>>
vars == <<objects, handler, threads, ending, harm>>

Kinds == {"server", "echo", "usb"}
AsioKinds == Kinds \ {"usb"}
Objects == 1 .. MaxObjects
Threads == {"main", "asio", "signal"}
NoHandler == [kind |-> "server", object |-> 0, ok |-> TRUE]

\* What a server does first.
FirstOp(k) == IF k = "usb" THEN "polls" ELSE "waits"

\* main as it enters the web socket loop; there may be no USB server, and
\* g_usbAvaliable tells.
Init ==
    /\ \E there \in {AsioKinds, Kinds} :
         /\ ptr = [k \in Kinds |-> IF k \in there THEN 1 ELSE 0]
         /\ life = [k \in Kinds |-> [n \in Objects |->
                       IF n = 1 /\ k \in there THEN "alive" ELSE "unborn"]]
         /\ started = [k \in Kinds |-> [n \in Objects |-> n = 1 /\ k \in there]]
         /\ op = [k \in Kinds |-> [n \in Objects |->
                     IF n = 1 /\ k \in there THEN FirstOp(k) ELSE "none"]]
    /\ handler = NoHandler
    /\ pc = [main |-> "loop", asio |-> "run", signal |-> "none"]
    /\ at = [t \in Threads |-> "server"]
    /\ held = [t \in Threads |-> 0]
    /\ then = "loop"
    /\ shutters = {}
    /\ sigOn = "none"
    /\ stopped = FALSE
    /\ closeDue = FALSE
    /\ app = TRUE
    /\ asioEx = FALSE
    /\ checked = "no"
    /\ why = "nothing"
    /\ hit = FALSE
    /\ fault = "none"

-----------------------------------------------------------------------------
(* Threads *)

Running == fault = "none" /\ pc["main"] # "over"

\* A signal handler that interrupts main keeps it from going on.
Interrupted(t) == t = "main" /\ sigOn = "main" /\ pc["signal"] # "over"

At(t, step) == Running /\ ~Interrupted(t) /\ pc[t] = step

Goto(t, step) == pc' = [pc EXCEPT ![t] = step]

\* t goes from one step to another, and touches none of the servers.
Moves(t, from, to) ==
    /\ At(t, from)
    /\ Goto(t, to)
    /\ UNCHANGED <<objects, handler, at, held, then, harm>>

Faults(what) ==
    /\ fault' = what
    /\ UNCHANGED <<objects, handler, threads, ending, hit>>

-----------------------------------------------------------------------------
(* stopServers and shutdown, on any thread *)

Restarts == {n \in Objects \ {1} : \E k \in Kinds : life[k][n] # "unborn"}
Events == Cardinality(shutters) + Cardinality(Restarts)

MayShut(t) == t \notin shutters /\ Events < MaxEvents

\* Wrong: the io_context goes on.
BeginsRunning(t) ==
    /\ Goto(t, "take")
    /\ shutters' = shutters \cup {t}
    /\ UNCHANGED <<objects, at, held, stopped, closeDue, app, checked, why, harm>>

\* shutdown: the io_context is stopped (and the handlers that wait are not run any
\* more), then the servers.
Begins(t) ==
    /\ Goto(t, "take")
    /\ shutters' = shutters \cup {t}
    /\ stopped' = TRUE
    /\ op' = [k \in Kinds |-> IF k = "usb" THEN op[k] ELSE [n \in Objects |-> "none"]]
    /\ UNCHANGED <<ptr, life, started, at, held, closeDue, app, checked, why, harm>>

\* An operation that is started on the io_context, or its outcome.
Pending(o) == IF stopped THEN "none" ELSE o

\* From the server to the echo server to the USB server, ...
Following(k) == CASE k = "server" -> "echo" [] k = "echo" -> "usb" [] OTHER -> "server"

\* ... and then shutdown closes the loop.
NextKind(t) ==
    /\ at' = [at EXCEPT ![t] = Following(@)]
    /\ Goto(t, IF at[t] # "usb" THEN "take"
               ELSE IF t = "main" THEN then ELSE "appclose")

\* unique_ptr::reset reads the pointer, ...
Take(t) ==
    /\ At(t, "take")
    /\ held' = [held EXCEPT ![t] = ptr[at[t]]]
    /\ Goto(t, "reset")
    /\ UNCHANGED <<objects, handler, at, then, ending, harm>>

\* ... overwrites it, ...
ResetNull(t) ==
    /\ At(t, "reset")
    /\ held[t] = 0
    /\ ptr' = [ptr EXCEPT ![at[t]] = 0]
    /\ NextKind(t)
    /\ UNCHANGED <<life, started, op, handler, held, then, ending, harm>>

\* Wrong: the socket is not closed.
AbortsForgotten(k, n) == UNCHANGED op

\* An operation that waits is aborted, unless it has just completed.
Aborts(k, n) ==
    \E result \in {"ok", "failed"} :
        op' = [op EXCEPT ![k][n] = CASE @ = "waits" -> result
                                     [] @ = "unsent" -> "none"
                                     [] OTHER -> @]

\* Wrong: release() instead of reset(), the object and its socket stay.
ResetReleases(t) ==
    /\ At(t, "reset")
    /\ held[t] # 0 /\ life[at[t]][held[t]] = "alive"
    /\ ptr' = [ptr EXCEPT ![at[t]] = 0]
    /\ NextKind(t)
    /\ UNCHANGED <<life, started, op, handler, held, then, ending, harm>>

\* Wrong: the pointer keeps the address of the object.
ResetStale(t) ==
    LET k == at[t]  n == held[t] IN
    /\ At(t, "reset")
    /\ n # 0 /\ life[k][n] = "alive"
    /\ life' = [life EXCEPT ![k][n] = "closing"]
    /\ Aborts(k, n)
    /\ Goto(t, "free")
    /\ UNCHANGED <<ptr, started, handler, at, held, then, ending, harm>>

\* ... and destroys the object: first the socket is closed, and its operation
\* aborted, or the thread of the USB server told to end.
Reset(t) ==
    LET k == at[t]  n == held[t] IN
    /\ At(t, "reset")
    /\ n # 0 /\ life[k][n] = "alive"
    /\ ptr' = [ptr EXCEPT ![k] = 0]
    /\ life' = [life EXCEPT ![k][n] = "closing"]
    /\ started' = [started EXCEPT ![k][n] = @ /\ k # "usb"]
    /\ Aborts(k, n)
    /\ Goto(t, "free")
    /\ UNCHANGED <<handler, at, held, then, ending, harm>>

\* Another thread has read the same pointer.
ResetTwice(t) ==
    /\ At(t, "reset")
    /\ held[t] # 0 /\ life[at[t]][held[t]] # "alive"
    /\ Faults("double free")

\* ~Server takes the lock, which a request of the panel may hold, and joins its
\* clients, which may take for ever (see module Registry); ~UsbServer joins its
\* thread.
Free(t) ==
    LET k == at[t]  n == held[t] IN
    /\ At(t, "free")
    /\ k = "server" => ~(pc["main"] = "use" /\ held["main"] = n)
    /\ k = "usb" => op[k][n] = "none"
    /\ life' = [life EXCEPT ![k][n] = "freed"]
    /\ started' = [started EXCEPT ![k][n] = FALSE]
    /\ held' = [held EXCEPT ![t] = 0]
    /\ NextKind(t)
    /\ UNCHANGED <<ptr, op, handler, then, ending, harm>>

\* g_app->close(): App::close is deferred to the loop.
AppClose(t) ==
    /\ app
    /\ Moves(t, "appclose", IF t = "main" THEN "loop" ELSE "over")
    /\ closeDue' = TRUE
    /\ UNCHANGED <<shutters, sigOn, stopped, app, asioEx, checked, why>>

AppCloseGone(t) == ~app /\ At(t, "appclose") /\ Faults("no app")

Stops(t) ==
    \/ Take(t) \/ ResetNull(t) \/ Reset(t) \/ ResetTwice(t)
    \/ Free(t) \/ AppClose(t) \/ AppCloseGone(t)

-----------------------------------------------------------------------------
(* Requests of the panel, in the web socket loop *)

Disable ==
    /\ At("main", "loop")
    /\ Goto("main", "take")
    /\ then' = "loop"
    /\ UNCHANGED <<objects, handler, at, held, ending, harm>>

Shutdown ==
    /\ At("main", "loop")
    /\ MayShut("main")
    /\ Begins("main")
    /\ then' = "appclose"
    /\ UNCHANGED <<handler, sigOn, asioEx>>

Enable ==
    /\ \A k \in Kinds : life[k][MaxObjects] = "unborn"
    /\ Events < MaxEvents
    /\ Moves("main", "loop", "start")
    /\ UNCHANGED ending

\* startServers looks at a server ...
Starts(k) == At("main", "start") /\ at["main"] = k

NotRunning(k) == ptr[k] # 0 => ~started[k][ptr[k]]

Bound(k) == k \in AsioKinds /\ \E n \in Objects : life[k][n] = "alive"

UsbAvailable == life["usb"][1] # "unborn"

AfterStart ==
    /\ at' = [at EXCEPT !["main"] = Following(@)]
    /\ Goto("main", IF at["main"] = "usb" THEN "loop" ELSE "start")

\* ... and keeps one that runs, or does without a USB server, ...
Keep ==
    /\ \E k \in Kinds :
         Starts(k) /\ (NotRunning(k) => k = "usb" /\ ~UsbAvailable)
    /\ AfterStart
    /\ UNCHANGED <<objects, handler, held, then, ending, harm>>

\* ... or constructs one, which binds the port and starts its operation, or starts
\* its thread, ...
Start ==
    /\ \E k \in Kinds, n \in Objects :
         /\ Starts(k) /\ NotRunning(k) /\ ~Bound(k)
         /\ k = "usb" => UsbAvailable
         /\ life[k][n] = "unborn" /\ (n = 1 \/ life[k][n - 1] # "unborn")
         /\ ptr' = [ptr EXCEPT ![k] = n]
         /\ life' = [life EXCEPT ![k][n] = "alive"]
         /\ started' = [started EXCEPT ![k][n] = TRUE]
         /\ op' = [op EXCEPT ![k][n] =
                        IF k = "usb" THEN FirstOp(k) ELSE Pending(FirstOp(k))]
    /\ AfterStart
    /\ UNCHANGED <<handler, held, then, ending, harm>>

\* An exception leaves the loop, and main on its way waits for the asio thread
\* (the destructor of asioLoop).
Throws(reason, from) ==
    /\ Moves("main", from, "join")
    /\ why' = reason
    /\ UNCHANGED <<shutters, sigOn, stopped, closeDue, app, asioEx, checked>>

\* ... unless the port is taken, perhaps by the server that is to be replaced, ...
StartClashes ==
    /\ \E k \in Kinds : Starts(k) /\ NotRunning(k) /\ Bound(k)
    /\ Throws("bind", "start")

\* ... or the graphics adapter cannot be opened, or adb is gone.
StartFails ==
    /\ \E k \in {"server", "usb"} : Starts(k) /\ NotRunning(k)
    /\ at["main"] = "usb" => UsbAvailable
    /\ Throws("failure", "start")

\* GET_CONFIG: the name of the host cannot be resolved.
ConfigFails == Throws("failure", "loop")

\* GET_CONFIG, GET_CLIENTS and DISCONNECT_CLIENT: if (g_server) ...
Check ==
    /\ ptr["server"] # 0
    /\ Moves("main", "loop", "check")
    /\ UNCHANGED ending

Gone == ptr["server"] # 0 => life["server"][ptr["server"]] = "freed"

\* ... g_server->clients(): into the server, and its lock, ...
Use ==
    /\ At("main", "check")
    /\ ~Gone
    /\ held' = [held EXCEPT !["main"] = ptr["server"]]
    /\ Goto("main", "use")
    /\ UNCHANGED <<objects, handler, at, then, ending, harm>>

UseGone == At("main", "check") /\ Gone /\ Faults("no server")

\* ... and out of it.  A disconnect has the lock until the device takes the message
\* (see module Session), and may never come out.
Leave ==
    /\ At("main", "use")
    /\ held' = [held EXCEPT !["main"] = 0]
    /\ Goto("main", "loop")
    /\ UNCHANGED <<objects, handler, at, then, ending, harm>>

Requests == Disable \/ Shutdown \/ Enable \/ ConfigFails \/ Check
Answers == Keep \/ Start \/ StartClashes \/ StartFails \/ Use \/ UseGone \/ Leave

-----------------------------------------------------------------------------
(* The end of main *)

\* The deferred call runs, run() returns, and g_app is reset.
LoopEnds ==
    /\ closeDue
    /\ Moves("main", "loop", "asioEx")
    /\ app' = FALSE
    /\ UNCHANGED <<shutters, sigOn, stopped, closeDue, asioEx, checked, why>>

CheckEx ==
    /\ Moves("main", "asioEx", "join")
    /\ checked' = IF asioEx THEN "rethrown" ELSE "none"
    /\ UNCHANGED <<shutters, sigOn, stopped, closeDue, app, asioEx, why>>

Join == pc["asio"] = "over" /\ Moves("main", "join", "over") /\ UNCHANGED ending

-----------------------------------------------------------------------------
(* The asio thread *)

\* context.run() calls a handler.
Calls(k, n, ok) ==
    /\ At("asio", "run")
    /\ ~stopped
    /\ handler' = [kind |-> k, object |-> n, ok |-> ok]
    /\ op' = [op EXCEPT ![k][n] = "none"]
    /\ Goto("asio", "handle")
    /\ UNCHANGED <<ptr, life, started, at, held, then, ending, harm>>

\* A client connects or a probe arrives; or the operation fails (too many open
\* files, a port that is not reachable).
Completes(ok) ==
    \E k \in AsioKinds, n \in Objects : op[k][n] = "waits" /\ Calls(k, n, ok)

\* The handler of an operation on a socket that was closed is called ...
Dispatch ==
    \E k \in AsioKinds, n \in Objects :
        op[k][n] \in {"ok", "failed"} /\ Calls(k, n, op[k][n] = "ok")

\* ... or run() returns.
RunReturns == stopped /\ Moves("asio", "run", "over") /\ UNCHANGED ending

Exists == life[handler.kind][handler.object] # "freed"

Handles(ok) == At("asio", "handle") /\ handler.ok = ok

Handled(to) ==
    /\ Goto("asio", to)
    /\ handler' = NoHandler
    /\ UNCHANGED <<ptr, life, at, held, then, ending, fault>>

\* serverMainAsync and echoMainAsync: the next operation; on a closed socket it
\* fails at once.
Rearm ==
    LET k == handler.kind  n == handler.object IN
    /\ Handles(TRUE)
    /\ Exists
    /\ op' = [op EXCEPT ![k][n] =
                 Pending(IF life[k][n] = "alive" THEN "waits" ELSE "failed")]
    /\ Handled("run")
    /\ UNCHANGED <<started, hit>>

\* remote_endpoint() throws for a client that is gone again, std::thread when no
\* thread can be had.
AcceptThrows ==
    /\ Handles(TRUE)
    /\ handler.kind = "server"
    /\ MayShut("asio")
    /\ Handled("caught")
    /\ UNCHANGED <<op, started, hit>>

\* The answer cannot be sent: the handler returns without the next operation.
EchoFails ==
    /\ Handles(TRUE)
    /\ Exists
    /\ handler.kind = "echo"
    /\ op' = [op EXCEPT !["echo"][handler.object] = Pending("unsent")]
    /\ Handled("run")
    /\ UNCHANGED <<started, hit>>

\* Wrong: the flag stays set.
FailsQuietly ==
    /\ Handles(FALSE)
    /\ Exists
    /\ Handled("run")
    /\ UNCHANGED <<started, op, hit>>

\* The error path of both handlers.
Fails ==
    /\ Handles(FALSE)
    /\ Exists
    /\ started' = [started EXCEPT ![handler.kind][handler.object] = FALSE]
    /\ Handled("run")
    /\ UNCHANGED <<op, hit>>

\* The same when the server is freed: the flag is written where the server was,
\* which may be where its successor is now.
FailsFreed ==
    LET k == handler.kind IN
    /\ Handles(FALSE)
    /\ ~Exists
    /\ \/ UNCHANGED <<started, hit>>
       \/ \E n \in Objects :
            /\ life[k][n] \in {"alive", "closing"}
            /\ started' = [started EXCEPT ![k][n] = FALSE]
            /\ hit' = TRUE
    /\ Handled("run")
    /\ UNCHANGED <<op>>

\* A client or a probe that is handled for a freed server.
SucceedsFreed == Handles(TRUE) /\ ~Exists /\ Faults("freed loop")

\* catch (...): the exception is kept, and the process shut down.
Caught ==
    /\ At("asio", "caught")
    /\ Begins("asio")
    /\ asioEx' = TRUE
    /\ UNCHANGED <<handler, then, sigOn>>

Asio ==
    \/ Dispatch \/ RunReturns \/ Rearm \/ AcceptThrows \/ EchoFails
    \/ Fails \/ FailsFreed \/ SucceedsFreed \/ Caught

-----------------------------------------------------------------------------
(* The thread of a USB server *)

\* What it does while the server is in use concerns nobody else.  Once m_running is
\* reset, it makes its last turn: ...
Usb(n, from, to) ==
    /\ Running
    /\ ~started["usb"][n]
    /\ op["usb"][n] = from
    /\ op' = [op EXCEPT !["usb"][n] = to]
    /\ UNCHANGED <<ptr, life, started, handler, threads, ending, harm>>

\* ... if a device is there, or comes, adb is started for it and waited for; ...
Plugged(n) == Usb(n, "polls", "adb")

\* ... and when adb is through with all of them, ...
AdbReturns(n) == Usb(n, "adb", "none")

\* ... or no device has come, it ends.
PollEnds(n) == Usb(n, "polls", "none")

\* For any device, also while the server is in use: adb cannot be started, and
\* process::popen throws out of the thread, which is std::terminate.
AdbThrows ==
    /\ Running
    /\ \E n \in Objects : op["usb"][n] \in {"polls", "adb"}
    /\ Faults("no adb")

UsbMain ==
    \/ \E n \in Objects : Plugged(n) \/ AdbReturns(n) \/ PollEnds(n)
    \/ AdbThrows

-----------------------------------------------------------------------------
(* SIGINT *)

Signal ==
    /\ At("signal", "none")
    /\ MayShut("signal")
    /\ Begins("signal")
    /\ sigOn' \in {"main", "own"}
    /\ UNCHANGED <<handler, then, asioEx>>

Next ==
    \/ \E t \in Threads : Stops(t)
    \/ Requests \/ Answers
    \/ LoopEnds \/ CheckEx \/ Join
    \/ Completes(TRUE) \/ Completes(FALSE)
    \/ Asio \/ UsbMain \/ Signal

Spec == Init /\ [][Next]_vars

\* What t does when it stops the servers, but for what it waits for in their
\* destructors.
StopsAtOnce(t) ==
    \/ Take(t) \/ ResetNull(t) \/ Reset(t) \/ ResetTwice(t)
    \/ AppClose(t) \/ AppCloseGone(t)
    \/ at[t] # "server" /\ Free(t)

AnswersAtOnce == Keep \/ Start \/ StartClashes \/ StartFails \/ Use \/ UseGone

\* Threads go on.  The loop runs deferred calls in each of its turns, whatever the
\* panel asks for.  That ~Server and a request inside the server come to an end is
\* not assumed: both wait for devices.
Fairness ==
    /\ WF_vars(StopsAtOnce("main") \/ AnswersAtOnce \/ CheckEx \/ Join)
    /\ SF_vars(LoopEnds)
    /\ WF_vars(StopsAtOnce("asio") \/ Asio)
    /\ WF_vars(StopsAtOnce("signal"))
    /\ \A n \in Objects : WF_vars(PollEnds(n))

FairSpec == Spec /\ Fairness

-----------------------------------------------------------------------------
(* Properties *)

\* Every variable keeps its type, and a pointer names a server that is there.
TypeOK ==
    /\ ptr \in [Kinds -> 0 .. MaxObjects]
    /\ life \in [Kinds -> [Objects -> {"unborn", "alive", "closing", "freed"}]]
    /\ started \in [Kinds -> [Objects -> BOOLEAN]]
    /\ op \in [Kinds -> [Objects -> {"none", "waits", "ok", "failed", "unsent",
                                   "polls", "adb"}]]
    /\ handler \in [kind : AsioKinds, object : 0 .. MaxObjects, ok : BOOLEAN]
    /\ pc \in [Threads -> {"none", "loop", "run", "take", "reset", "free",
                           "appclose", "start", "check", "use", "asioEx",
                           "join", "handle", "caught", "over"}]
    /\ at \in [Threads -> Kinds]
    /\ held \in [Threads -> 0 .. MaxObjects]
    /\ then \in {"loop", "appclose"}
    /\ shutters \subseteq Threads
    /\ sigOn \in {"none", "main", "own"}
    /\ {stopped, closeDue, app, asioEx, hit} \subseteq BOOLEAN
    /\ checked \in {"no", "none", "rethrown"}
    /\ why \in {"nothing", "bind", "failure"}
    /\ fault \in {"none", "double free", "no app", "no server", "freed loop",
                 "no adb"}
    /\ \A k \in Kinds : ptr[k] # 0 => life[k][ptr[k]] = "alive"

Busy(k, n) == pc["asio"] = "handle" /\ handler.kind = k /\ handler.object = n

Threw == pc["asio"] = "caught" \/ asioEx

\* What GET_CONFIG and startServers are told by running() is true: a server that
\* says it runs has an operation or a handler under way, and one that has does
\* not deny it.  The exceptions are an answer that could not be sent, a handler
\* that threw, and a write of a freed predecessor.
RunningListens ==
    \A k \in Kinds, n \in Objects :
        life[k][n] = "alive" /\ (k \in AsioKinds => ~stopped) =>
            /\ started[k][n] => \/ op[k][n] # "none"
                                \/ Busy(k, n)
                                \/ k = "server" /\ Threw
            /\ op[k][n] \in {"waits", "polls"} => started[k][n] \/ hit

\* "Set server state": the panel fails to switch the servers on, for want of the
\* port, only when the program's own server has it and denies that it runs: its
\* loop had ended by itself (startServers means to replace it, but constructs the
\* new server before it destroys the old one), or its flag was overwritten.
\* Otherwise another thread was shutting down.
ClashNeedsDeadLoop ==
    why = "bind" =>
        \/ Threw
        \/ "signal" \in shutters
        \/ \E k \in Kinds :
             /\ ptr[k] # 0
             /\ ~started[k][ptr[k]]
             /\ op[k][ptr[k]] = "waits" => hit

\* Switching the servers on and off and shutting down from the panel destroys no
\* server twice, sends no request to a server that is gone and close() to no loop
\* that is gone, unless a second thread shuts down.  (The handler of a freed server
\* needs no second thread: FreedIsHandledOnce.)
PointerFaultNeedsRace ==
    fault \in {"double free", "no server", "no app"} =>
        Threw \/ "signal" \in shutters

\* A plain switch off can have the handler of a server run when the server is freed,
\* and write its flag or start its next operation there.  It happens once: when the
\* server is freed nothing of it waits any more, for a client or a probe that could
\* come later, and of its one aborted operation the handler is yet to run or runs.
FreedIsHandledOnce ==
    \A k \in AsioKinds, n \in Objects :
        life[k][n] = "freed" =>
            op[k][n] # "waits" /\ ~(Busy(k, n) /\ op[k][n] # "none")

\* t is shutting down, and close() is still to come.
ShuttingDown(t) ==
    /\ t \in shutters
    /\ pc[t] \in {"take", "reset", "free", "appclose"}
    /\ t = "main" => then = "appclose"

\* No shutdown is forgotten: who has begun it stops the io_context and goes on to
\* close the loop; and main leaves the loop, and waits for the asio thread, only
\* then, or with an exception.
ShutdownGoesOn ==
    /\ stopped <=> shutters # {}
    /\ stopped => closeDue \/ \E t \in Threads : ShuttingDown(t)
    /\ pc["main"] \in {"asioEx", "join", "over"} /\ why = "nothing" => closeDue /\ stopped

\* The signal handler waits for a lock that the thread it interrupts holds.
LockedOut ==
    /\ sigOn = "main"
    /\ pc["signal"] = "free" /\ at["signal"] = "server"
    /\ pc["main"] = "use" /\ held["main"] = held["signal"]

\* No device keeps the thread of a USB server for ever.
AdbEnds == \A n \in Objects : []<>(op["usb"][n] # "adb")

\* ~Server comes to an end when it gets its lock (module Registry: unless a client
\* began to stream after it was told to end).
ClientsEnd == \A t \in Threads : WF_vars(Free(t))

\* So does a request in the server (module Session: unless its device is stalled).
RequestsEnd == WF_vars(Leave)

\* A shutdown, asked for by the panel, by SIGINT or by an exception, ends the
\* process, if what it waits for ends: adb, the clients that ~Server joins, the
\* panel's request that has Server::lock.  It does not when SIGINT comes while that
\* request is interrupted with the lock.  (shutters never gets smaller, so this is
\* shutters # {} ~> ..., in a form that TLC checks without a tableau.)
ShutdownEnds ==
    AdbEnds /\ ClientsEnd /\ RequestsEnd =>
        []<>(shutters # {} =>
                pc["main"] = "over" \/ fault # "none" \/ LockedOut)

\* "exception_ptr check will always follow assignment" (main.cpp:233).
CheckFollowsAssignment == asioEx => checked # "none"
=============================================================================
