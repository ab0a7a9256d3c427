-------------------------- MODULE LifecycleProofs --------------------------
(***************************************************************************)
(* The safety properties of the server process (Lifecycle), for any number *)
(* of restarts and of calls of shutdown(), and of the Windows service that *)
(* runs it (Service), for any number of its processes.                     *)
(*                                                                         *)
(* Of the process: Holds says that what a thread destroys is not alive any *)
(* more, and that a handler is run for a server there has been.  Operations*)
(* is about one operation at a time: a server whose handler runs has none  *)
(* pending, and none has when the io_context is stopped.  Listens is what  *)
(* RunningListens says and one thing more, that a handler called without   *)
(* an error belongs to a server that says it runs.  Alone holds as long as *)
(* no second thread stops servers: main then holds what the pointer names, *)
(* and a server whose pointer was overwritten is not alive.  The exception *)
(* of a port that is taken keeps main away from the servers, and so the    *)
(* server that had stopped to listen stays as it is.                       *)
(*                                                                         *)
(* Of the service: SaysStopped and SaysRunning follow a state from the     *)
(* report that names it through g_svcStatus to the service manager, and    *)
(* tie it to the step SvcMain is at; LastReport says how much of the last  *)
(* report is already in g_svcStatus, unless the handler has raced it.      *)
(***************************************************************************)
EXTENDS Lifecycle, Service, TLAPS

-----------------------------------------------------------------------------
(* The process: types, part by part *)

Steps == {"none", "loop", "run", "take", "reset", "free", "appclose", "start", "check",
          "use", "asioEx", "join", "handle", "caught", "over"}
Ops == {"none", "waits", "ok", "failed", "unsent", "polls", "adb"}

ObjectsOK ==
    /\ ptr \in [Kinds -> 0 .. MaxObjects]
    /\ life \in [Kinds -> [Objects -> {"unborn", "alive", "closing", "freed"}]]
    /\ started \in [Kinds -> [Objects -> BOOLEAN]]
    /\ op \in [Kinds -> [Objects -> Ops]]
    /\ \A k \in Kinds : ptr[k] # 0 => life[k][ptr[k]] = "alive"

ThreadsOK ==
    /\ handler \in [kind : AsioKinds, object : 0 .. MaxObjects, ok : BOOLEAN]
    /\ pc \in [Threads -> Steps]
    /\ at \in [Threads -> Kinds]
    /\ held \in [Threads -> 0 .. MaxObjects]
    /\ then \in {"loop", "appclose"}

EndingOK ==
    /\ shutters \subseteq Threads
    /\ sigOn \in {"none", "main", "own"}
    /\ stopped \in BOOLEAN /\ closeDue \in BOOLEAN /\ app \in BOOLEAN /\ asioEx \in BOOLEAN
    /\ checked \in {"no", "none", "rethrown"}
    /\ why \in {"nothing", "bind", "failure"}

HarmOK ==
    /\ hit \in BOOLEAN
    /\ fault \in {"none", "double free", "no app", "no server", "freed loop", "no adb"}

-----------------------------------------------------------------------------
(* The process: its invariant *)

Stopping == {"take", "reset", "free", "appclose"}

\* No second thread has begun to shut down.
Quiet == ~Threw /\ "signal" \notin shutters

\* Where the threads can be, and what is true there.
Places ==
    /\ pc["main"] \in Stopping \cup {"loop", "start", "check", "use", "asioEx", "join",
                                     "over"}
    /\ pc["asio"] \in Stopping \cup {"run", "handle", "caught", "over"}
    /\ pc["signal"] \in Stopping \cup {"none", "over"}
    /\ pc["main"] \notin {"asioEx", "join", "over"} => app
    /\ pc["asio"] \in Stopping => asioEx
    /\ pc["signal"] # "none" => "signal" \in shutters

\* What a thread destroys, and what a handler is run for.
Holds ==
    /\ \A t \in Threads :
         pc[t] = "free" => held[t] # 0 /\ life[at[t]][held[t]] \in {"closing", "freed"}
    /\ pc["asio"] = "handle" =>
         /\ handler.object # 0
         /\ life[handler.kind][handler.object] # "unborn"

OpIsSane(k, n) ==
    /\ op[k][n] \in IF k = "usb" THEN {"none", "polls", "adb"}
                    ELSE {"none", "waits", "ok", "failed", "unsent"}
    /\ life[k][n] = "unborn" => op[k][n] = "none"
    /\ life[k][n] = "alive" => op[k][n] \notin {"ok", "failed"}
    /\ life[k][n] \in {"closing", "freed"} => op[k][n] # "waits"
    /\ life[k][n] = "alive" /\ k = "usb" => started[k][n] /\ op[k][n] = "polls"
    /\ k # "usb" /\ (stopped \/ Busy(k, n)) => op[k][n] = "none"

Operations == \A k \in Kinds, n \in Objects : OpIsSane(k, n)

\* What a server says of itself.
Tells(k, n) ==
    life[k][n] = "alive" =>
        /\ started[k][n] /\ (k # "usb" => ~stopped) =>
              \/ op[k][n] # "none"
              \/ Busy(k, n)
              \/ k = "server" /\ Threw
        /\ (op[k][n] = "waits" \/ (Busy(k, n) /\ handler.ok)) => started[k][n] \/ hit

Listens == \A k \in Kinds, n \in Objects : Tells(k, n)

\* As long as main is the only thread that stops servers, every server that is there
\* is the one of its pointer.
Alone ==
    Quiet =>
        /\ pc["main"] = "reset" => held["main"] = ptr[at["main"]]
        /\ pc["main"] = "check" => ptr["server"] # 0
        /\ \A k \in Kinds, n \in Objects : life[k][n] = "alive" => ptr[k] = n

Clashed ==
    /\ why = "bind" => pc["main"] \in {"join", "over"}
    /\ ClashNeedsDeadLoop

IInv ==
    /\ ObjectsOK /\ ThreadsOK /\ EndingOK /\ HarmOK
    /\ Places /\ Holds /\ Operations /\ Listens /\ Alone /\ Clashed
    /\ PointerFaultNeedsRace

LEMMA Types == IInv => TypeOK
  BY DEF IInv, TypeOK, ObjectsOK, ThreadsOK, EndingOK, HarmOK, Steps, Ops

-----------------------------------------------------------------------------
(* The operators *)

LEMMA FollowingKind == ASSUME NEW k \in Kinds PROVE Following(k) \in Kinds
<1>1. CASE k = "server"
  BY <1>1 DEF Following, Kinds
<1>2. CASE k = "echo"
  BY <1>2 DEF Following, Kinds
<1>3. CASE k = "usb"
  BY <1>3 DEF Following, Kinds
<1> QED
  BY <1>1, <1>2, <1>3 DEF Kinds

\* The way on from one kind of server to the next.
LEMMA NextKindGoes ==
    ASSUME ThreadsOK, NEW t \in Threads, NextKind(t)
    PROVE  /\ at' \in [Threads -> Kinds]
           /\ pc' \in [Threads -> Steps]
           /\ \A u \in Threads : u # t => pc'[u] = pc[u] /\ at'[u] = at[u]
           /\ pc'[t] \in {"take", "appclose", "loop"}
           /\ t # "main" => pc'[t] # "loop"
<1>1. at' = [at EXCEPT ![t] = Following(at[t])]
  BY DEF NextKind
<1>2. Following(at[t]) \in Kinds
  BY FollowingKind DEF ThreadsOK
<1>3. PICK s \in {"take", "appclose", "loop"} :
        pc' = [pc EXCEPT ![t] = s] /\ (t # "main" => s # "loop")
  BY DEF NextKind, Goto, ThreadsOK
<1> QED
  BY <1>1, <1>2, <1>3 DEF ThreadsOK, Steps

\* What becomes of an operation whose socket is closed.
Aborted(o, result) ==
    CASE o = "waits" -> result [] o = "unsent" -> "none" [] OTHER -> o

LEMMA AbortedIs ==
    ASSUME NEW o \in Ops, NEW r \in {"ok", "failed"}
    PROVE  /\ o = "waits" => Aborted(o, r) = r
           /\ o = "unsent" => Aborted(o, r) = "none"
           /\ o \notin {"waits", "unsent"} => Aborted(o, r) = o
           /\ Aborted(o, r) \in Ops
<1>1. CASE o = "waits"
  BY <1>1 DEF Aborted, Ops
<1>2. CASE o = "unsent"
  BY <1>2 DEF Aborted, Ops
<1>3. CASE o \notin {"waits", "unsent"}
  BY <1>3 DEF Aborted, Ops
<1> QED
  BY <1>1, <1>2, <1>3

-----------------------------------------------------------------------------
(* Steps that leave the servers alone *)

LEMMA WalkKeeps ==
    ASSUME IInv, NEW t \in Threads,
           UNCHANGED <<life, started, op, handler, stopped, shutters, asioEx, hit, fault>>,
           ptr' = ptr \/ ptr' = [ptr EXCEPT ![at[t]] = 0],
           \A u \in Threads :
             u # t => pc'[u] = pc[u] /\ at'[u] = at[u] /\ held'[u] = held[u],
           pc[t] \notin {"handle", "caught"}, pc'[t] \notin {"handle", "caught", "free"}
    PROVE  /\ ObjectsOK' /\ HarmOK' /\ Holds' /\ Operations' /\ Listens'
           /\ PointerFaultNeedsRace' /\ (Quiet' <=> Quiet)
<1> USE DEF IInv
<1>1. /\ pc'["asio"] = "handle" <=> pc["asio"] = "handle"
      /\ pc'["asio"] = "caught" <=> pc["asio"] = "caught"
  BY DEF Threads
<1>2. Holds'
  BY <1>1 DEF Holds, Threads
<1>3. ASSUME NEW k, NEW n PROVE Busy(k, n)' <=> Busy(k, n)
  BY <1>1 DEF Busy
<1>4. (Threw' <=> Threw) /\ (Quiet' <=> Quiet)
  BY <1>1 DEF Threw, Quiet
<1>5. Operations'
  BY <1>3 DEF Operations, OpIsSane, Kinds, Objects
<1>6. Listens'
  BY <1>3, <1>4 DEF Listens, Tells
<1>7. ObjectsOK'
  <2>1. at[t] \in Kinds /\ 0 \in 0 .. MaxObjects
    BY BoundsAssumption DEF ThreadsOK
  <2>2. ptr' \in [Kinds -> 0 .. MaxObjects]
        /\ \A k \in Kinds : ptr'[k] # 0 => ptr'[k] = ptr[k]
    BY <2>1 DEF ObjectsOK
  <2> QED
    BY <2>2 DEF ObjectsOK
<1>9. HarmOK'
  BY DEF HarmOK
<1>8. PointerFaultNeedsRace'
  BY <1>4 DEF PointerFaultNeedsRace
<1> QED
  BY <1>2, <1>4, <1>5, <1>6, <1>7, <1>8, <1>9

\* Only the program counter of a thread changes.
LEMMA MoveKeeps ==
    ASSUME IInv, NEW t \in Threads, NEW from, NEW to \in Steps, Moves(t, from, to),
           UNCHANGED <<shutters, stopped, asioEx>>,
           from \notin {"handle", "caught"},
           to \notin {"handle", "caught", "free", "reset"},
           t = "main" /\ to = "check" => ptr["server"] # 0
    PROVE  /\ ObjectsOK' /\ ThreadsOK' /\ HarmOK' /\ Holds' /\ Operations' /\ Listens'
           /\ Alone' /\ PointerFaultNeedsRace' /\ (Quiet' <=> Quiet)
           /\ pc[t] = from /\ pc' = [pc EXCEPT ![t] = to]
           /\ UNCHANGED <<objects, hit>>
<1> USE DEF IInv
<1>1. /\ pc[t] = from /\ pc' = [pc EXCEPT ![t] = to]
      /\ UNCHANGED <<objects, handler, at, held, then, harm>>
  BY DEF Moves, At, Goto
<1>2. pc'[t] = to /\ \A u \in Threads : u # t => pc'[u] = pc[u]
  BY <1>1 DEF ThreadsOK
<1>3. /\ ObjectsOK' /\ HarmOK' /\ Holds' /\ Operations' /\ Listens'
      /\ PointerFaultNeedsRace' /\ (Quiet' <=> Quiet)
  BY <1>1, <1>2, WalkKeeps DEF objects, harm
<1>4. ThreadsOK'
  BY <1>1 DEF ThreadsOK
<1>5. Alone'
  BY <1>1, <1>2, <1>3 DEF Alone, objects, Threads
<1> QED
  BY <1>1, <1>3, <1>4, <1>5 DEF harm

LEMMA TakeKeeps == ASSUME IInv, NEW t \in Threads, Take(t) PROVE IInv'
<1> USE DEF IInv
<1>1. /\ pc[t] = "take" /\ pc' = [pc EXCEPT ![t] = "reset"]
      /\ held' = [held EXCEPT ![t] = ptr[at[t]]]
      /\ UNCHANGED <<objects, handler, at, then, ending, harm>>
  BY DEF Take, At, Goto
<1>2. /\ pc'[t] = "reset"
      /\ \A u \in Threads :
           u # t => pc'[u] = pc[u] /\ at'[u] = at[u] /\ held'[u] = held[u]
  BY <1>1 DEF ThreadsOK
<1>3. /\ ObjectsOK' /\ HarmOK' /\ Holds' /\ Operations' /\ Listens'
      /\ PointerFaultNeedsRace' /\ (Quiet' <=> Quiet)
  BY <1>1, <1>2, WalkKeeps DEF objects, harm, ending
<1>4. ThreadsOK' /\ EndingOK'
  BY <1>1 DEF ThreadsOK, EndingOK, ObjectsOK, Steps, ending
<1>5. Places'
  BY <1>1 DEF Places, Stopping, ending, ThreadsOK, Threads
<1>6. Alone'
  BY <1>1, <1>3 DEF Alone, objects, ThreadsOK, Threads
<1>7. Clashed'
  BY <1>1, <1>3 DEF Clashed, ClashNeedsDeadLoop, Quiet, objects, ending, harm, ThreadsOK,
                    Threads
<1> QED
  BY <1>3, <1>4, <1>5, <1>6, <1>7

LEMMA ResetNullKeeps == ASSUME IInv, NEW t \in Threads, ResetNull(t) PROVE IInv'
<1> USE DEF IInv
<1>1. /\ pc[t] = "reset" /\ held[t] = 0
      /\ ptr' = [ptr EXCEPT ![at[t]] = 0]
      /\ NextKind(t)
      /\ UNCHANGED <<life, started, op, handler, held, then, ending, harm>>
  BY DEF ResetNull, At
<1>2. /\ at' \in [Threads -> Kinds]
      /\ pc' \in [Threads -> Steps]
      /\ \A u \in Threads : u # t => pc'[u] = pc[u] /\ at'[u] = at[u]
      /\ pc'[t] \in {"take", "appclose", "loop"}
      /\ t # "main" => pc'[t] # "loop"
  BY <1>1, NextKindGoes
<1>3. /\ ObjectsOK' /\ HarmOK' /\ Holds' /\ Operations' /\ Listens'
      /\ PointerFaultNeedsRace' /\ (Quiet' <=> Quiet)
  BY <1>1, <1>2, WalkKeeps DEF harm, ending
<1>4. ThreadsOK' /\ EndingOK'
  BY <1>1, <1>2 DEF ThreadsOK, EndingOK, ending
<1>5. Places'
  BY <1>1, <1>2 DEF Places, Stopping, ending, Threads
<1>6. t # "main" => ~Quiet
  BY <1>1 DEF Places, Quiet, Threw, Stopping, Threads
<1>7. Alone'
  BY <1>1, <1>2, <1>3, <1>6 DEF Alone, ThreadsOK, ObjectsOK, Threads, Objects
<1>8. Clashed'
  <2>1. why = "bind" => ~Quiet /\ pc'["main"] = pc["main"]
    BY <1>1, <1>2, <1>6 DEF Clashed, Threads
  <2> QED
    BY <1>1, <1>3, <2>1 DEF Clashed, ClashNeedsDeadLoop, Quiet, ending
<1> QED
  BY <1>3, <1>4, <1>5, <1>7, <1>8

LEMMA AppCloseKeeps == ASSUME IInv, NEW t \in Threads, AppClose(t) PROVE IInv'
<1> USE DEF IInv
<1>1. PICK to \in {"loop", "over"} :
        Moves(t, "appclose", to) /\ (to = "loop" <=> t = "main")
  BY DEF AppClose
<1>2. UNCHANGED <<shutters, sigOn, stopped, app, asioEx, checked, why>> /\ closeDue' = TRUE
  BY DEF AppClose
<1>3. /\ ObjectsOK' /\ ThreadsOK' /\ HarmOK' /\ Holds' /\ Operations' /\ Listens'
      /\ Alone' /\ PointerFaultNeedsRace' /\ (Quiet' <=> Quiet)
      /\ pc[t] = "appclose" /\ pc' = [pc EXCEPT ![t] = to]
      /\ UNCHANGED <<objects, hit>>
  BY <1>1, <1>2, MoveKeeps DEF Steps
<1>4. EndingOK'
  BY <1>2 DEF EndingOK
<1>5. Places'
  BY <1>1, <1>2, <1>3 DEF Places, Stopping, ThreadsOK, Threads
<1>6. Clashed'
  BY <1>2, <1>3 DEF Clashed, ClashNeedsDeadLoop, Quiet, objects, ThreadsOK, Threads
<1> QED
  BY <1>3, <1>4, <1>5, <1>6

\* A step into undefined behaviour.
LEMMA FaultsKeeps ==
    ASSUME IInv,
           NEW what \in {"double free", "no app", "no server", "freed loop", "no adb"},
           Faults(what), what \in {"freed loop", "no adb"} \/ ~Quiet
    PROVE  IInv'
<1> USE DEF IInv
<1>1. fault' = what /\ UNCHANGED <<objects, handler, threads, ending, hit>>
  BY DEF Faults
<1> USE DEF objects, threads, ending
<1>2. Quiet' <=> Quiet
  BY <1>1 DEF Quiet, Threw
<1>3. ObjectsOK' /\ ThreadsOK' /\ EndingOK'
  BY <1>1 DEF ObjectsOK, ThreadsOK, EndingOK
<1>4. HarmOK' /\ PointerFaultNeedsRace'
  BY <1>1, <1>2 DEF HarmOK, PointerFaultNeedsRace, Quiet
<1>5. Places' /\ Holds' /\ Alone'
  BY <1>1, <1>2 DEF Places, Holds, Alone
<1>6. Operations'
  BY <1>1 DEF Operations, OpIsSane, Busy
<1>8. Listens'
  BY <1>1 DEF Listens, Tells, Busy, Threw
<1>7. Clashed'
  BY <1>1, <1>2 DEF Clashed, ClashNeedsDeadLoop, Quiet
<1> QED
  BY <1>3, <1>4, <1>5, <1>6, <1>7, <1>8

\* A second thread has destroyed the server, or the panel is closed.
LEMMA ResetTwiceKeeps == ASSUME IInv, NEW t \in Threads, ResetTwice(t) PROVE IInv'
<1> USE DEF IInv
<1>1. /\ pc[t] = "reset" /\ held[t] # 0 /\ life[at[t]][held[t]] # "alive"
      /\ Faults("double free")
  BY DEF ResetTwice, At
<1>2. t # "main" => ~Quiet
  BY <1>1 DEF Places, Quiet, Threw, Stopping, Threads
<1>3. t = "main" => ~Quiet
  <2>1. at["main"] \in Kinds
    BY DEF ThreadsOK, Threads
  <2> QED
    BY <1>1, <2>1 DEF Alone, ObjectsOK
<1> QED
  BY <1>1, <1>2, <1>3, FaultsKeeps

LEMMA AppCloseGoneKeeps == ASSUME IInv, NEW t \in Threads, AppCloseGone(t) PROVE IInv'
<1>1. ~app /\ pc[t] = "appclose" /\ Faults("no app")
  BY DEF AppCloseGone, At
<1>2. ~Quiet
  BY <1>1 DEF IInv, Places, Quiet, Threw, Stopping, Threads
<1> QED
  BY <1>1, <1>2, FaultsKeeps

-----------------------------------------------------------------------------
(* Steps of main that only take it further *)

LEMMA EnableKeeps == ASSUME IInv, Enable PROVE IInv'
<1> USE DEF IInv
<1>1. Moves("main", "loop", "start") /\ UNCHANGED ending
  BY DEF Enable
<1>2. /\ ObjectsOK' /\ ThreadsOK' /\ HarmOK' /\ Holds' /\ Operations' /\ Listens'
      /\ Alone' /\ PointerFaultNeedsRace' /\ (Quiet' <=> Quiet)
      /\ pc["main"] = "loop" /\ pc' = [pc EXCEPT !["main"] = "start"]
      /\ UNCHANGED <<objects, hit>>
  BY <1>1, MoveKeeps DEF Steps, Threads, ending
<1>3. EndingOK' /\ Places'
  BY <1>1, <1>2 DEF EndingOK, Places, ThreadsOK, Threads, ending
<1>4. Clashed'
  BY <1>1, <1>2 DEF Clashed, ClashNeedsDeadLoop, ending, objects
<1> QED
  BY <1>2, <1>3, <1>4

LEMMA CheckKeeps == ASSUME IInv, Check PROVE IInv'
<1> USE DEF IInv
<1>1. Moves("main", "loop", "check") /\ ptr["server"] # 0 /\ UNCHANGED ending
  BY DEF Check
<1>2. /\ ObjectsOK' /\ ThreadsOK' /\ HarmOK' /\ Holds' /\ Operations' /\ Listens'
      /\ Alone' /\ PointerFaultNeedsRace' /\ (Quiet' <=> Quiet)
      /\ pc["main"] = "loop" /\ pc' = [pc EXCEPT !["main"] = "check"]
      /\ UNCHANGED <<objects, hit>>
  BY <1>1, MoveKeeps DEF Steps, Threads, ending
<1>3. EndingOK' /\ Places'
  BY <1>1, <1>2 DEF EndingOK, Places, ThreadsOK, Threads, ending
<1>4. Clashed'
  BY <1>1, <1>2 DEF Clashed, ClashNeedsDeadLoop, ending, objects
<1> QED
  BY <1>2, <1>3, <1>4

LEMMA LoopEndsKeeps == ASSUME IInv, LoopEnds PROVE IInv'
<1> USE DEF IInv
<1>1. Moves("main", "loop", "asioEx") /\ app' = FALSE
      /\ UNCHANGED <<shutters, sigOn, stopped, closeDue, asioEx, checked, why>>
  BY DEF LoopEnds
<1>2. /\ ObjectsOK' /\ ThreadsOK' /\ HarmOK' /\ Holds' /\ Operations' /\ Listens'
      /\ Alone' /\ PointerFaultNeedsRace' /\ (Quiet' <=> Quiet)
      /\ pc["main"] = "loop" /\ pc' = [pc EXCEPT !["main"] = "asioEx"]
      /\ UNCHANGED <<objects, hit>>
  BY <1>1, MoveKeeps DEF Steps, Threads
<1>3. EndingOK' /\ Places'
  BY <1>1, <1>2 DEF EndingOK, Places, ThreadsOK, Threads
<1>4. Clashed'
  BY <1>1, <1>2 DEF Clashed, ClashNeedsDeadLoop, objects
<1> QED
  BY <1>2, <1>3, <1>4

LEMMA CheckExKeeps == ASSUME IInv, CheckEx PROVE IInv'
<1> USE DEF IInv
<1>1. Moves("main", "asioEx", "join") /\ checked' \in {"no", "none", "rethrown"}
      /\ UNCHANGED <<shutters, sigOn, stopped, closeDue, app, asioEx, why>>
  BY DEF CheckEx
<1>2. /\ ObjectsOK' /\ ThreadsOK' /\ HarmOK' /\ Holds' /\ Operations' /\ Listens'
      /\ Alone' /\ PointerFaultNeedsRace' /\ (Quiet' <=> Quiet)
      /\ pc["main"] = "asioEx" /\ pc' = [pc EXCEPT !["main"] = "join"]
      /\ UNCHANGED <<objects, hit>>
  BY <1>1, MoveKeeps DEF Steps, Threads
<1>3. EndingOK' /\ Places'
  BY <1>1, <1>2 DEF EndingOK, Places, ThreadsOK, Threads
<1>4. Clashed'
  BY <1>1, <1>2 DEF Clashed, ClashNeedsDeadLoop, objects
<1> QED
  BY <1>2, <1>3, <1>4

LEMMA JoinKeeps == ASSUME IInv, Join PROVE IInv'
<1> USE DEF IInv
<1>1. Moves("main", "join", "over") /\ UNCHANGED ending
  BY DEF Join
<1>2. /\ ObjectsOK' /\ ThreadsOK' /\ HarmOK' /\ Holds' /\ Operations' /\ Listens'
      /\ Alone' /\ PointerFaultNeedsRace' /\ (Quiet' <=> Quiet)
      /\ pc["main"] = "join" /\ pc' = [pc EXCEPT !["main"] = "over"]
      /\ UNCHANGED <<objects, hit>>
  BY <1>1, MoveKeeps DEF Steps, Threads, ending
<1>3. EndingOK' /\ Places'
  BY <1>1, <1>2 DEF EndingOK, Places, ThreadsOK, Threads, ending
<1>4. Clashed'
  BY <1>1, <1>2 DEF Clashed, ClashNeedsDeadLoop, Quiet, ThreadsOK, Threads, ending, objects
<1> QED
  BY <1>2, <1>3, <1>4

\* An exception leaves the loop; when the port was taken, by a server that had
\* stopped to listen.
LEMMA ThrowsKeeps ==
    ASSUME IInv, NEW reason \in {"bind", "failure"}, NEW from \in {"loop", "start"},
           Throws(reason, from),
           reason = "bind" /\ Quiet =>
             \E k \in Kinds : ptr[k] # 0 /\ ~started[k][ptr[k]]
                              /\ (op[k][ptr[k]] = "waits" => hit)
    PROVE  IInv'
<1> USE DEF IInv
<1>1. Moves("main", from, "join") /\ why' = reason
      /\ UNCHANGED <<shutters, sigOn, stopped, closeDue, app, asioEx, checked>>
  BY DEF Throws
<1>2. /\ ObjectsOK' /\ ThreadsOK' /\ HarmOK' /\ Holds' /\ Operations' /\ Listens'
      /\ Alone' /\ PointerFaultNeedsRace' /\ (Quiet' <=> Quiet)
      /\ pc["main"] = from /\ pc' = [pc EXCEPT !["main"] = "join"]
      /\ UNCHANGED <<objects, hit>>
  BY <1>1, MoveKeeps DEF Steps, Threads
<1>3. EndingOK' /\ Places'
  BY <1>1, <1>2 DEF EndingOK, Places, ThreadsOK, Threads
<1>4. Clashed'
  BY <1>1, <1>2 DEF Clashed, ClashNeedsDeadLoop, Quiet, ThreadsOK, Threads, objects
<1> QED
  BY <1>2, <1>3, <1>4

LEMMA StartClashesKeeps == ASSUME IInv, StartClashes PROVE IInv'
<1> USE DEF IInv
<1>1. PICK k \in Kinds : NotRunning(k) /\ Bound(k)
  BY DEF StartClashes
<1>2. PICK n \in Objects : k \in AsioKinds /\ life[k][n] = "alive"
  BY <1>1 DEF Bound
<1>3. Quiet => ptr[k] = n
  BY <1>2 DEF Alone
<1>4. n # 0 /\ (op[k][n] = "waits" => started[k][n] \/ hit)
  BY <1>2, BoundsAssumption DEF Listens, Tells, Objects
<1>5. Throws("bind", "start")
  BY DEF StartClashes
<1>6. Quiet => ptr[k] # 0 /\ ~started[k][ptr[k]] /\ (op[k][ptr[k]] = "waits" => hit)
  BY <1>1, <1>3, <1>4 DEF NotRunning
<1> QED
  BY <1>5, <1>6, ThrowsKeeps

LEMMA FailureKeeps == ASSUME IInv, StartFails \/ ConfigFails PROVE IInv'
  BY ThrowsKeeps DEF StartFails, ConfigFails

LEMMA RunReturnsKeeps == ASSUME IInv, RunReturns PROVE IInv'
<1> USE DEF IInv
<1>1. Moves("asio", "run", "over") /\ UNCHANGED ending
  BY DEF RunReturns
<1>2. /\ ObjectsOK' /\ ThreadsOK' /\ HarmOK' /\ Holds' /\ Operations' /\ Listens'
      /\ Alone' /\ PointerFaultNeedsRace' /\ (Quiet' <=> Quiet)
      /\ pc["asio"] = "run" /\ pc' = [pc EXCEPT !["asio"] = "over"]
      /\ UNCHANGED <<objects, hit>>
  BY <1>1, MoveKeeps DEF Steps, Threads, ending
<1>3. EndingOK' /\ Places'
  BY <1>1, <1>2 DEF EndingOK, Places, Stopping, ThreadsOK, Threads, ending
<1>4. Clashed'
  BY <1>1, <1>2 DEF Clashed, ClashNeedsDeadLoop, Quiet, ThreadsOK, Threads, ending, objects
<1> QED
  BY <1>2, <1>3, <1>4

\* Steps that change where main works, or what at.
LEMMA MainKeeps ==
    ASSUME IInv, NEW to \in {"loop", "take", "start", "use"},
           pc["main"] \in {"loop", "start", "check", "use"},
           pc' = [pc EXCEPT !["main"] = to],
           UNCHANGED <<objects, handler, ending, harm>>,
           at' \in [Threads -> Kinds], held' \in [Threads -> 0 .. MaxObjects],
           then' \in {"loop", "appclose"},
           \A u \in Threads : u # "main" => at'[u] = at[u] /\ held'[u] = held[u]
    PROVE  IInv'
<1> USE DEF IInv
<1>1. pc'["main"] = to /\ \A u \in Threads : u # "main" => pc'[u] = pc[u]
  BY DEF ThreadsOK, Threads
<1>2. "main" \in Threads
  BY DEF Threads
<1>3. /\ ObjectsOK' /\ HarmOK' /\ Holds' /\ Operations' /\ Listens'
      /\ PointerFaultNeedsRace' /\ (Quiet' <=> Quiet)
  BY <1>1, <1>2, WalkKeeps DEF objects, harm, ending
<1>4. ThreadsOK' /\ EndingOK'
  BY DEF ThreadsOK, EndingOK, Steps, ending
<1>5. Places'
  BY <1>1 DEF Places, Stopping, Threads, ending
<1>6. Alone'
  BY <1>1, <1>3 DEF Alone, objects
<1>7. Clashed'
  BY <1>1, <1>3 DEF Clashed, ClashNeedsDeadLoop, ending, objects, harm
<1> QED
  BY <1>3, <1>4, <1>5, <1>6, <1>7

LEMMA DisableKeeps == ASSUME IInv, Disable PROVE IInv'
  BY MainKeeps DEF Disable, At, Goto, IInv, ThreadsOK

LEMMA KeepKeeps == ASSUME IInv, Keep PROVE IInv'
<1>1. /\ pc["main"] = "start" /\ AfterStart
      /\ UNCHANGED <<objects, handler, held, then, ending, harm>>
  BY DEF Keep, Starts, At
<1>2. at["main"] \in Kinds
  BY DEF IInv, ThreadsOK, Threads
<1>3. at' = [at EXCEPT !["main"] = Following(at["main"])] /\ Following(at["main"]) \in Kinds
  BY <1>1, <1>2, FollowingKind DEF AfterStart
<1>4. PICK to \in {"loop", "start"} : pc' = [pc EXCEPT !["main"] = to]
  BY <1>1 DEF AfterStart, Goto
<1>5. ThreadsOK
  BY DEF IInv
<1>6. /\ at' \in [Threads -> Kinds] /\ held' \in [Threads -> 0 .. MaxObjects]
      /\ then' \in {"loop", "appclose"}
      /\ \A u \in Threads : u # "main" => at'[u] = at[u] /\ held'[u] = held[u]
  BY <1>1, <1>3, <1>5 DEF ThreadsOK
<1> QED
  BY <1>1, <1>4, <1>6, MainKeeps

LEMMA UseKeeps == ASSUME IInv, Use PROVE IInv'
<1>1. ThreadsOK /\ ObjectsOK /\ ptr["server"] \in 0 .. MaxObjects
  BY DEF IInv, ObjectsOK, Kinds
<1>2. pc["main"] = "check" /\ pc' = [pc EXCEPT !["main"] = "use"]
      /\ held' = [held EXCEPT !["main"] = ptr["server"]]
      /\ UNCHANGED <<objects, handler, at, then, ending, harm>>
  BY DEF Use, At, Goto
<1>3. /\ at' \in [Threads -> Kinds] /\ held' \in [Threads -> 0 .. MaxObjects]
      /\ then' \in {"loop", "appclose"}
      /\ \A u \in Threads : u # "main" => at'[u] = at[u] /\ held'[u] = held[u]
  BY <1>1, <1>2 DEF ThreadsOK
<1> QED
  BY <1>2, <1>3, MainKeeps

LEMMA LeaveKeeps == ASSUME IInv, Leave PROVE IInv'
<1>1. ThreadsOK /\ 0 \in 0 .. MaxObjects
  BY BoundsAssumption DEF IInv
<1>2. pc["main"] = "use" /\ pc' = [pc EXCEPT !["main"] = "loop"]
      /\ held' = [held EXCEPT !["main"] = 0]
      /\ UNCHANGED <<objects, handler, at, then, ending, harm>>
  BY DEF Leave, At, Goto
<1>3. /\ at' \in [Threads -> Kinds] /\ held' \in [Threads -> 0 .. MaxObjects]
      /\ then' \in {"loop", "appclose"}
      /\ \A u \in Threads : u # "main" => at'[u] = at[u] /\ held'[u] = held[u]
  BY <1>1, <1>2 DEF ThreadsOK
<1> QED
  BY <1>2, <1>3, MainKeeps

\* The server that was looked at is gone.
LEMMA UseGoneKeeps == ASSUME IInv, UseGone PROVE IInv'
<1>1. pc["main"] = "check" /\ Gone /\ Faults("no server")
  BY DEF UseGone, At
<1>2. ptr["server"] # 0 => life["server"][ptr["server"]] = "alive"
  BY DEF IInv, ObjectsOK, Kinds
<1>3. ~Quiet
  BY <1>1, <1>2 DEF IInv, Alone, Gone
<1> QED
  BY <1>1, <1>3, FaultsKeeps

-----------------------------------------------------------------------------
(* Steps that stop and start servers *)

\* What Reset does to the server it destroys; all others are left as they are.
LEMMA ResetChanges ==
    ASSUME ObjectsOK, ThreadsOK, NEW t \in Threads, Reset(t),
           NEW k, k = at[t], NEW n, n = held[t]
    PROVE  /\ k \in Kinds /\ n \in Objects /\ life[k][n] = "alive"
           /\ ObjectsOK'
           /\ ptr' = [ptr EXCEPT ![k] = 0]
           /\ life'[k][n] = "closing"
           /\ k # "usb" => started'[k][n] = started[k][n]
           /\ op[k][n] = "waits" => op'[k][n] \in {"ok", "failed"}
           /\ op[k][n] = "unsent" => op'[k][n] = "none"
           /\ op[k][n] \notin {"waits", "unsent"} => op'[k][n] = op[k][n]
           /\ \A l \in Kinds, m \in Objects : l # k \/ m # n =>
                /\ life'[l][m] = life[l][m] /\ started'[l][m] = started[l][m]
                /\ op'[l][m] = op[l][m]
<1>1. /\ n # 0 /\ life[k][n] = "alive"
      /\ ptr' = [ptr EXCEPT ![k] = 0]
      /\ life' = [life EXCEPT ![k][n] = "closing"]
      /\ started' = [started EXCEPT ![k][n] = started[k][n] /\ k # "usb"]
      /\ Aborts(k, n)
  BY DEF Reset
<1>2. k \in Kinds /\ n \in Objects
  BY <1>1 DEF ThreadsOK, Objects
<1>3. PICK r \in {"ok", "failed"} : op' = [op EXCEPT ![k][n] = Aborted(op[k][n], r)]
  BY <1>1 DEF Aborts, Aborted
<1>4. op[k][n] \in Ops
  BY <1>2 DEF ObjectsOK
<1>5. /\ op[k][n] = "waits" => Aborted(op[k][n], r) = r
      /\ op[k][n] = "unsent" => Aborted(op[k][n], r) = "none"
      /\ op[k][n] \notin {"waits", "unsent"} => Aborted(op[k][n], r) = op[k][n]
      /\ Aborted(op[k][n], r) \in Ops
  BY <1>4, AbortedIs
<1>6. op' \in [Kinds -> [Objects -> Ops]] /\ op'[k][n] = Aborted(op[k][n], r)
      /\ \A l \in Kinds, m \in Objects : l # k \/ m # n => op'[l][m] = op[l][m]
  BY <1>2, <1>3, <1>5 DEF ObjectsOK
<1>7. PICK b \in BOOLEAN : started' = [started EXCEPT ![k][n] = b]
                           /\ (k # "usb" => b = started[k][n])
  <2>1. started[k][n] \in BOOLEAN
    BY <1>2 DEF ObjectsOK
  <2> QED
    BY <1>1, <2>1
<1>8. started' \in [Kinds -> [Objects -> BOOLEAN]] /\ started'[k][n] = b
      /\ \A l \in Kinds, m \in Objects : l # k \/ m # n => started'[l][m] = started[l][m]
  BY <1>2, <1>7 DEF ObjectsOK
<1>9. /\ life' \in [Kinds -> [Objects -> {"unborn", "alive", "closing", "freed"}]]
      /\ life'[k][n] = "closing"
      /\ \A l \in Kinds, m \in Objects : l # k \/ m # n => life'[l][m] = life[l][m]
  BY <1>1, <1>2 DEF ObjectsOK
<1>10. /\ ptr' \in [Kinds -> 0 .. MaxObjects]
       /\ \A l \in Kinds : ptr'[l] # 0 => life'[l][ptr'[l]] = "alive"
  <2>1. /\ ptr' \in [Kinds -> 0 .. MaxObjects] /\ ptr'[k] = 0
        /\ \A l \in Kinds : l # k => ptr'[l] = ptr[l]
    BY <1>1, <1>2, BoundsAssumption DEF ObjectsOK
  <2>2. ASSUME NEW l \in Kinds, ptr'[l] # 0 PROVE life'[l][ptr'[l]] = "alive"
    <3>1. l # k /\ ptr'[l] = ptr[l] /\ ptr[l] # 0 /\ ptr[l] \in Objects
      BY <2>1, <2>2 DEF Objects
    <3> QED
      BY <1>9, <3>1 DEF ObjectsOK
  <2> QED
    BY <2>1, <2>2
<1> QED
  BY <1>1, <1>2, <1>5, <1>6, <1>7, <1>8, <1>9, <1>10 DEF ObjectsOK

LEMMA ResetKeeps == ASSUME IInv, NEW t \in Threads, Reset(t) PROVE IInv'
<1> DEFINE k == at[t]
           n == held[t]
<1> USE DEF IInv
<1>1. /\ k \in Kinds /\ n \in Objects /\ life[k][n] = "alive"
      /\ ObjectsOK'
      /\ ptr' = [ptr EXCEPT ![k] = 0]
      /\ life'[k][n] = "closing"
      /\ k # "usb" => started'[k][n] = started[k][n]
      /\ op[k][n] = "waits" => op'[k][n] \in {"ok", "failed"}
      /\ op[k][n] = "unsent" => op'[k][n] = "none"
      /\ op[k][n] \notin {"waits", "unsent"} => op'[k][n] = op[k][n]
      /\ \A l \in Kinds, m \in Objects : l # k \/ m # n =>
           /\ life'[l][m] = life[l][m] /\ started'[l][m] = started[l][m]
           /\ op'[l][m] = op[l][m]
  BY ResetChanges
<1>2. /\ pc[t] = "reset" /\ n # 0 /\ pc' = [pc EXCEPT ![t] = "free"]
      /\ UNCHANGED <<handler, at, held, then, ending, harm>>
  BY DEF Reset, At, Goto
<1>3. pc'[t] = "free" /\ \A u \in Threads : u # t => pc'[u] = pc[u]
  BY <1>2 DEF ThreadsOK
<1>4. /\ pc'["asio"] = "handle" <=> pc["asio"] = "handle"
      /\ (Threw' <=> Threw) /\ (Quiet' <=> Quiet)
  BY <1>2, <1>3 DEF Threads, Threw, Quiet, ending
<1>5. t # "main" => ~Quiet
  BY <1>2 DEF Places, Quiet, Threw, Stopping, Threads
<1>6. ThreadsOK' /\ EndingOK' /\ HarmOK' /\ PointerFaultNeedsRace'
  <2>1. ThreadsOK'
    BY <1>2 DEF ThreadsOK, Steps
  <2>2. EndingOK' /\ HarmOK'
    BY <1>2 DEF EndingOK, HarmOK, ending, harm
  <2>3. PointerFaultNeedsRace'
    BY <1>2, <1>4 DEF PointerFaultNeedsRace, Quiet, harm
  <2> QED
    BY <2>1, <2>2, <2>3
<1>7. Places'
  BY <1>2 DEF Places, Stopping, ThreadsOK, Threads, ending
<1>8. Holds'
  <2>1. ASSUME NEW u \in Threads, pc'[u] = "free"
        PROVE  held'[u] # 0 /\ life'[at'[u]][held'[u]] \in {"closing", "freed"}
    <3>1. CASE u = t
      BY <1>1, <1>2, <3>1
    <3>2. CASE u # t
      <4>1. pc[u] = "free" /\ held[u] # 0 /\ life[at[u]][held[u]] \in {"closing", "freed"}
        BY <1>3, <2>1, <3>2 DEF Holds
      <4>2. at[u] \in Kinds /\ held[u] \in Objects
        BY <4>1 DEF ThreadsOK, Objects
      <4>3. at[u] # k \/ held[u] # n
        BY <1>1, <4>1
      <4> QED
        BY <1>1, <1>2, <4>1, <4>2, <4>3
    <3> QED
      BY <3>1, <3>2
  <2>2. ASSUME pc'["asio"] = "handle"
        PROVE  handler'.object # 0 /\ life'[handler'.kind][handler'.object] # "unborn"
    <3>1. /\ handler.object # 0 /\ life[handler.kind][handler.object] # "unborn"
          /\ handler.kind \in Kinds /\ handler.object \in Objects /\ handler' = handler
      BY <1>2, <1>4, <2>2 DEF Holds, ThreadsOK, AsioKinds, Objects
    <3> QED
      BY <1>1, <3>1
  <2> QED
    BY <2>1, <2>2 DEF Holds
<1>9. ASSUME NEW l \in Kinds, NEW m \in Objects PROVE Busy(l, m)' <=> Busy(l, m)
  BY <1>2, <1>4 DEF Busy
<1>10. ASSUME NEW l \in Kinds, NEW m \in Objects PROVE OpIsSane(l, m)'
  <2>1. OpIsSane(l, m) /\ op[l][m] \in Ops
    BY DEF Operations, ObjectsOK
  <2>2. stopped' = stopped
    BY <1>2 DEF ending
  <2>3. CASE l = k /\ m = n
    BY <1>1, <1>9, <2>1, <2>2, <2>3 DEF OpIsSane, Kinds
  <2>4. CASE l # k \/ m # n
    BY <1>1, <1>9, <2>1, <2>2, <2>4 DEF OpIsSane
  <2> QED
    BY <2>3, <2>4
<1>11. ASSUME NEW l \in Kinds, NEW m \in Objects PROVE Tells(l, m)'
  <2>1. Tells(l, m)
    BY DEF Listens
  <2>2. UNCHANGED <<stopped, handler, hit>>
    BY <1>2 DEF ending, harm
  <2>3. CASE l = k /\ m = n
    BY <1>1, <2>3 DEF Tells
  <2>4. CASE l # k \/ m # n
    BY <1>1, <1>4, <1>9, <2>1, <2>2, <2>4 DEF Tells
  <2> QED
    BY <2>3, <2>4
<1>12. Alone'
  <2> SUFFICES ASSUME Quiet' PROVE Alone'
    BY DEF Alone
  <2>1. t = "main" /\ pc'["main"] = "free" /\ n = ptr[k]
    BY <1>2, <1>3, <1>4, <1>5 DEF Alone
  <2>2. ASSUME NEW l \in Kinds, NEW m \in Objects, life'[l][m] = "alive" PROVE ptr'[l] = m
    <3>1. life[l][m] = "alive" /\ ptr[l] = m
      BY <1>1, <1>4, <2>2 DEF Alone
    <3> QED
      BY <1>1, <2>1, <2>2, <3>1 DEF ObjectsOK
  <2> QED
    BY <2>1, <2>2 DEF Alone
<1>13. Clashed'
  <2>1. why = "bind" => ~Quiet /\ pc'["main"] = pc["main"]
    BY <1>2, <1>3, <1>5 DEF Clashed, Threads
  <2> QED
    BY <1>2, <1>4, <2>1 DEF Clashed, ClashNeedsDeadLoop, Quiet, ending
<1> QED
  BY <1>1, <1>6, <1>7, <1>8, <1>10, <1>11, <1>12, <1>13 DEF Operations, Listens

LEMMA FreeKeeps == ASSUME IInv, NEW t \in Threads, Free(t) PROVE IInv'
<1> DEFINE k == at[t]
           n == held[t]
<1> USE DEF IInv
<1>1. /\ pc[t] = "free"
      /\ life' = [life EXCEPT ![k][n] = "freed"]
      /\ started' = [started EXCEPT ![k][n] = FALSE]
      /\ held' = [held EXCEPT ![t] = 0]
      /\ NextKind(t)
      /\ UNCHANGED <<ptr, op, handler, then, ending, harm>>
  BY DEF Free, At
<1>2. k \in Kinds /\ n \in Objects /\ life[k][n] \in {"closing", "freed"}
  BY <1>1 DEF Holds, ThreadsOK, Objects
<1>3. /\ at' \in [Threads -> Kinds] /\ pc' \in [Threads -> Steps]
      /\ \A u \in Threads : u # t => pc'[u] = pc[u] /\ at'[u] = at[u]
      /\ pc'[t] \in {"take", "appclose", "loop"}
      /\ t # "main" => pc'[t] # "loop"
  BY <1>1, NextKindGoes
<1>4. /\ pc'["asio"] = "handle" <=> pc["asio"] = "handle"
      /\ (Threw' <=> Threw) /\ (Quiet' <=> Quiet)
  BY <1>1, <1>3 DEF Threads, Threw, Quiet, ending
<1>5. t # "main" => ~Quiet
  BY <1>1 DEF Places, Quiet, Threw, Stopping, Threads
<1>6. /\ life' \in [Kinds -> [Objects -> {"unborn", "alive", "closing", "freed"}]]
      /\ life'[k][n] = "freed"
      /\ \A l \in Kinds, m \in Objects : l # k \/ m # n => life'[l][m] = life[l][m]
  BY <1>1, <1>2 DEF ObjectsOK
<1>7. /\ started' \in [Kinds -> [Objects -> BOOLEAN]]
      /\ \A l \in Kinds, m \in Objects : l # k \/ m # n => started'[l][m] = started[l][m]
  BY <1>1, <1>2 DEF ObjectsOK
<1>8. ObjectsOK'
  <2>1. ASSUME NEW l \in Kinds, ptr[l] # 0 PROVE life'[l][ptr[l]] = "alive"
    <3>1. ptr[l] \in Objects /\ life[l][ptr[l]] = "alive"
      BY <2>1 DEF ObjectsOK, Objects
    <3> QED
      BY <1>2, <1>6, <3>1
  <2> QED
    BY <1>1, <1>6, <1>7, <2>1 DEF ObjectsOK
<1>9. ThreadsOK' /\ EndingOK' /\ HarmOK' /\ PointerFaultNeedsRace'
  <2>1. ThreadsOK'
    <3>1. held' \in [Threads -> 0 .. MaxObjects]
      <4>1. 0 \in 0 .. MaxObjects
        BY BoundsAssumption
      <4> QED
        BY <1>1, <4>1 DEF ThreadsOK
    <3> QED
      BY <1>1, <1>3, <3>1 DEF ThreadsOK
  <2>2. EndingOK' /\ HarmOK'
    BY <1>1 DEF EndingOK, HarmOK, ending, harm
  <2>3. PointerFaultNeedsRace'
    BY <1>1, <1>4 DEF PointerFaultNeedsRace, Quiet, harm
  <2> QED
    BY <2>1, <2>2, <2>3
<1>10. Places'
  BY <1>1, <1>3 DEF Places, Stopping, Threads, ending
<1>11. Holds'
  <2>1. ASSUME NEW u \in Threads, pc'[u] = "free"
        PROVE  held'[u] # 0 /\ life'[at'[u]][held'[u]] \in {"closing", "freed"}
    <3>1. u # t /\ pc[u] = "free" /\ at'[u] = at[u] /\ held'[u] = held[u]
      BY <1>1, <1>3, <2>1 DEF ThreadsOK
    <3>2. held[u] # 0 /\ life[at[u]][held[u]] \in {"closing", "freed"}
      BY <3>1 DEF Holds
    <3>3. at[u] \in Kinds /\ held[u] \in Objects
      BY <3>2 DEF ThreadsOK, Objects
    <3> QED
      BY <1>6, <3>1, <3>2, <3>3
  <2>2. ASSUME pc'["asio"] = "handle"
        PROVE  handler'.object # 0 /\ life'[handler'.kind][handler'.object] # "unborn"
    <3>1. /\ handler.object # 0 /\ life[handler.kind][handler.object] # "unborn"
          /\ handler.kind \in Kinds /\ handler.object \in Objects /\ handler' = handler
      BY <1>1, <1>4, <2>2 DEF Holds, ThreadsOK, AsioKinds, Objects
    <3> QED
      BY <1>6, <3>1
  <2> QED
    BY <2>1, <2>2 DEF Holds
<1>12. ASSUME NEW l \in Kinds, NEW m \in Objects PROVE Busy(l, m)' <=> Busy(l, m)
  BY <1>1, <1>4 DEF Busy
<1>13. ASSUME NEW l \in Kinds, NEW m \in Objects PROVE OpIsSane(l, m)' /\ Tells(l, m)'
  <2>1. OpIsSane(l, m) /\ Tells(l, m)
    BY DEF Operations, Listens
  <2>2. UNCHANGED <<op, stopped, handler, hit>>
    BY <1>1 DEF ending, harm
  <2>3. CASE l = k /\ m = n
    BY <1>2, <1>6, <1>12, <2>1, <2>2, <2>3 DEF OpIsSane, Tells
  <2>4. CASE l # k \/ m # n
    BY <1>4, <1>6, <1>7, <1>12, <2>1, <2>2, <2>4 DEF OpIsSane, Tells
  <2> QED
    BY <2>3, <2>4
<1>14. Alone'
  <2> SUFFICES ASSUME Quiet' PROVE Alone'
    BY DEF Alone
  <2>1. pc'["main"] \notin {"reset", "check"}
    BY <1>3, <1>4, <1>5 DEF Threads
  <2>2. ASSUME NEW l \in Kinds, NEW m \in Objects, life'[l][m] = "alive" PROVE ptr'[l] = m
    BY <1>1, <1>4, <1>6, <2>2 DEF Alone
  <2> QED
    BY <2>1, <2>2 DEF Alone
<1>15. Clashed'
  <2>1. why = "bind" => ~Quiet /\ pc'["main"] = pc["main"]
    BY <1>1, <1>3, <1>5 DEF Clashed, Threads
  <2> QED
    BY <1>1, <1>4, <2>1 DEF Clashed, ClashNeedsDeadLoop, Quiet, ending
<1> QED
  BY <1>8, <1>9, <1>10, <1>11, <1>13, <1>14, <1>15 DEF Operations, Listens

\* The io_context is stopped: nothing waits any more.
LEMMA BeginsKeeps ==
    ASSUME IInv, NEW t \in Threads, Begins(t),
           UNCHANGED handler, then' \in {"loop", "appclose"},
           sigOn' \in {"none", "main", "own"}, asioEx' \in BOOLEAN,
           asioEx \/ t = "asio" => asioEx',
           asioEx' => asioEx \/ pc["asio"] = "caught",
           pc[t] # "handle", t = "main" => pc[t] = "loop"
    PROVE  IInv'
<1> USE DEF IInv
<1>1. /\ pc' = [pc EXCEPT ![t] = "take"]
      /\ shutters' = shutters \cup {t}
      /\ stopped' = TRUE
      /\ UNCHANGED <<ptr, life, started, at, held, closeDue, app, checked, why, harm>>
  BY DEF Begins, Goto
<1>2. /\ op' \in [Kinds -> [Objects -> Ops]]
      /\ \A k \in Kinds, n \in Objects :
           op'[k][n] = IF k = "usb" THEN op[k][n] ELSE "none"
  <2>1. op' = [k \in Kinds |-> IF k = "usb" THEN op[k] ELSE [n \in Objects |-> "none"]]
    BY DEF Begins
  <2>2. "none" \in Ops
    BY DEF Ops
  <2> QED
    BY <2>1, <2>2 DEF ObjectsOK
<1>3. pc'[t] = "take" /\ \A u \in Threads : u # t => pc'[u] = pc[u]
  BY <1>1 DEF ThreadsOK
<1>4. ObjectsOK' /\ ThreadsOK' /\ EndingOK' /\ HarmOK'
  <2>1. ObjectsOK'
    BY <1>1, <1>2 DEF ObjectsOK
  <2>2. ThreadsOK'
    BY <1>1 DEF ThreadsOK, Steps
  <2>3. EndingOK' /\ HarmOK'
    BY <1>1 DEF EndingOK, HarmOK, harm
  <2> QED
    BY <2>1, <2>2, <2>3
<1>5. /\ pc'["asio"] = "handle" <=> pc["asio"] = "handle"
      /\ Threw => Threw'
      /\ Quiet' => Quiet /\ t = "main"
  BY <1>1, <1>3 DEF Threads, Threw, Quiet
<1>6. Places'
  BY <1>1, <1>3 DEF Places, Stopping, Threads
<1>7. Holds'
  BY <1>1, <1>3, <1>5 DEF Holds, Threads
<1>8. ASSUME NEW l \in Kinds, NEW m \in Objects PROVE OpIsSane(l, m)' /\ Tells(l, m)'
  <2>1. OpIsSane(l, m) /\ Tells(l, m)
    BY DEF Operations, Listens
  <2>2. Busy(l, m)' <=> Busy(l, m)
    BY <1>5 DEF Busy
  <2>3. UNCHANGED <<life, started, handler, hit>> /\ stopped' = TRUE
    BY <1>1 DEF harm
  <2>4. CASE l = "usb"
    BY <1>2, <2>1, <2>2, <2>3, <2>4 DEF OpIsSane, Tells
  <2>5. CASE l # "usb"
    BY <1>2, <2>1, <2>2, <2>3, <2>5 DEF OpIsSane, Tells
  <2> QED
    BY <2>4, <2>5
<1>9. Alone'
  BY <1>1, <1>3, <1>5 DEF Alone
<1>10. Clashed'
  <2>1. CASE t = "main"
    BY <1>1, <2>1 DEF Clashed, ClashNeedsDeadLoop
  <2>2. CASE t # "main"
    <3>1. ~Quiet' /\ pc'["main"] = pc["main"]
      BY <1>3, <1>5, <2>2 DEF Threads
    <3> QED
      BY <1>1, <3>1 DEF Clashed, ClashNeedsDeadLoop, Quiet
  <2> QED
    BY <2>1, <2>2
<1>11. PointerFaultNeedsRace'
  BY <1>1, <1>5 DEF PointerFaultNeedsRace, Quiet, harm
<1> QED
  BY <1>4, <1>6, <1>7, <1>8, <1>9, <1>10, <1>11 DEF Operations, Listens

LEMMA ShutdownKeeps == ASSUME IInv, Shutdown PROVE IInv'
<1>1. /\ pc["main"] = "loop" /\ Begins("main") /\ then' = "appclose"
      /\ UNCHANGED <<handler, sigOn, asioEx>>
  BY DEF Shutdown, At
<1>2. sigOn \in {"none", "main", "own"} /\ asioEx \in BOOLEAN /\ "main" \in Threads
  BY DEF IInv, EndingOK, Threads
<1> QED
  BY <1>1, <1>2, BeginsKeeps

LEMMA SignalKeeps == ASSUME IInv, Signal PROVE IInv'
<1>1. /\ pc["signal"] = "none" /\ Begins("signal") /\ sigOn' \in {"main", "own"}
      /\ UNCHANGED <<handler, then, asioEx>>
  BY DEF Signal, At
<1>2. then \in {"loop", "appclose"} /\ asioEx \in BOOLEAN /\ "signal" \in Threads
  BY DEF IInv, EndingOK, ThreadsOK, Threads
<1> QED
  BY <1>1, <1>2, BeginsKeeps

LEMMA CaughtKeeps == ASSUME IInv, Caught PROVE IInv'
<1>1. /\ pc["asio"] = "caught" /\ Begins("asio") /\ asioEx' = TRUE
      /\ UNCHANGED <<handler, then, sigOn>>
  BY DEF Caught, At
<1>2. then \in {"loop", "appclose"} /\ sigOn \in {"none", "main", "own"}
      /\ "asio" \in Threads
  BY DEF IInv, EndingOK, ThreadsOK, Threads
<1> QED
  BY <1>1, <1>2, BeginsKeeps

LEMMA FirstOps ==
    ASSUME NEW k \in Kinds
    PROVE  /\ k = "usb" => FirstOp(k) = "polls"
           /\ k # "usb" => Pending(FirstOp(k)) = IF stopped THEN "none" ELSE "waits"
  BY DEF FirstOp, Pending

LEMMA StartKeeps == ASSUME IInv, Start PROVE IInv'
<1> USE DEF IInv
<1>1. PICK k \in Kinds, n \in Objects :
        /\ Starts(k) /\ NotRunning(k) /\ ~Bound(k)
        /\ life[k][n] = "unborn"
        /\ ptr' = [ptr EXCEPT ![k] = n]
        /\ life' = [life EXCEPT ![k][n] = "alive"]
        /\ started' = [started EXCEPT ![k][n] = TRUE]
        /\ op' = [op EXCEPT ![k][n] =
                       IF k = "usb" THEN FirstOp(k) ELSE Pending(FirstOp(k))]
  BY DEF Start
<1>2. AfterStart /\ UNCHANGED <<handler, held, then, ending, harm>>
  BY DEF Start
<1>3. pc["main"] = "start" /\ at["main"] = k
  BY <1>1 DEF Starts, At
<1>4. PICK to \in {"loop", "start"} : pc' = [pc EXCEPT !["main"] = to]
  BY <1>2 DEF AfterStart, Goto
<1>5. pc'["main"] = to /\ \A u \in Threads : u # "main" => pc'[u] = pc[u]
  BY <1>4 DEF ThreadsOK, Threads
<1>6. at' = [at EXCEPT !["main"] = Following(k)] /\ Following(k) \in Kinds
  BY <1>2, <1>3, FollowingKind DEF AfterStart
<1>7. /\ pc'["asio"] = "handle" <=> pc["asio"] = "handle"
      /\ (Threw' <=> Threw) /\ (Quiet' <=> Quiet)
  BY <1>2, <1>5 DEF Threads, Threw, Quiet, ending
<1> DEFINE o == IF k = "usb" THEN "polls" ELSE IF stopped THEN "none" ELSE "waits"
<1>8. op' = [op EXCEPT ![k][n] = o] /\ o \in Ops
  BY <1>1, FirstOps DEF Ops
<1> HIDE DEF o
<1>9. /\ op' \in [Kinds -> [Objects -> Ops]] /\ op'[k][n] = o
      /\ \A l \in Kinds, m \in Objects : l # k \/ m # n => op'[l][m] = op[l][m]
  BY <1>1, <1>8 DEF ObjectsOK
<1>10. /\ life' \in [Kinds -> [Objects -> {"unborn", "alive", "closing", "freed"}]]
       /\ life'[k][n] = "alive"
       /\ \A l \in Kinds, m \in Objects : l # k \/ m # n => life'[l][m] = life[l][m]
  BY <1>1 DEF ObjectsOK
<1>11. /\ started' \in [Kinds -> [Objects -> BOOLEAN]] /\ started'[k][n] = TRUE
       /\ \A l \in Kinds, m \in Objects : l # k \/ m # n => started'[l][m] = started[l][m]
  BY <1>1 DEF ObjectsOK
<1>12. /\ ptr' \in [Kinds -> 0 .. MaxObjects] /\ ptr'[k] = n
       /\ \A l \in Kinds : l # k => ptr'[l] = ptr[l]
  <2>1. n \in 0 .. MaxObjects
    BY DEF Objects
  <2> QED
    BY <1>1, <2>1 DEF ObjectsOK
<1>13. ObjectsOK'
  <2>1. ASSUME NEW l \in Kinds, ptr'[l] # 0 PROVE life'[l][ptr'[l]] = "alive"
    <3>1. CASE l = k
      BY <1>10, <1>12, <3>1
    <3>2. CASE l # k
      <4>1. ptr'[l] = ptr[l] /\ ptr[l] \in Objects /\ life[l][ptr[l]] = "alive"
        BY <1>12, <2>1, <3>2 DEF ObjectsOK, Objects
      <4> QED
        BY <1>10, <3>2, <4>1
    <3> QED
      BY <3>1, <3>2
  <2> QED
    BY <1>9, <1>10, <1>11, <1>12, <2>1 DEF ObjectsOK
<1>14. ThreadsOK' /\ EndingOK' /\ HarmOK' /\ PointerFaultNeedsRace'
  <2>1. ThreadsOK'
    BY <1>2, <1>4, <1>6 DEF ThreadsOK, Steps
  <2>2. EndingOK' /\ HarmOK'
    BY <1>2 DEF EndingOK, HarmOK, ending, harm
  <2>3. PointerFaultNeedsRace'
    BY <1>2, <1>7 DEF PointerFaultNeedsRace, Quiet, harm
  <2> QED
    BY <2>1, <2>2, <2>3
<1>15. Places'
  BY <1>2, <1>3, <1>5 DEF Places, Stopping, Threads, ending
<1>16. Holds'
  <2>1. ASSUME NEW u \in Threads, pc'[u] = "free"
        PROVE  held'[u] # 0 /\ life'[at'[u]][held'[u]] \in {"closing", "freed"}
    <3>1. u # "main" /\ pc[u] = "free" /\ at'[u] = at[u] /\ held'[u] = held[u]
      BY <1>2, <1>5, <1>6, <2>1 DEF ThreadsOK
    <3>2. held[u] # 0 /\ life[at[u]][held[u]] \in {"closing", "freed"}
      BY <3>1 DEF Holds
    <3>3. at[u] \in Kinds /\ held[u] \in Objects
      BY <3>2 DEF ThreadsOK, Objects
    <3>4. at[u] # k \/ held[u] # n
      BY <1>1, <3>2
    <3> QED
      BY <1>10, <3>1, <3>2, <3>3, <3>4
  <2>2. ASSUME pc'["asio"] = "handle"
        PROVE  handler'.object # 0 /\ life'[handler'.kind][handler'.object] # "unborn"
    <3>1. /\ handler.object # 0 /\ life[handler.kind][handler.object] # "unborn"
          /\ handler.kind \in Kinds /\ handler.object \in Objects /\ handler' = handler
      BY <1>2, <1>7, <2>2 DEF Holds, ThreadsOK, AsioKinds, Objects
    <3> QED
      BY <1>10, <3>1
  <2> QED
    BY <2>1, <2>2 DEF Holds
<1>17. ASSUME NEW l \in Kinds, NEW m \in Objects PROVE Busy(l, m)' <=> Busy(l, m)
  BY <1>2, <1>7 DEF Busy
<1>18. ~Busy(k, n)
  BY <1>1 DEF Busy, Holds
<1>19. UNCHANGED <<stopped, handler, hit>>
  BY <1>2 DEF ending, harm
<1>20. ASSUME NEW l \in Kinds, NEW m \in Objects PROVE OpIsSane(l, m)' /\ Tells(l, m)'
  <2>1. OpIsSane(l, m) /\ Tells(l, m)
    BY DEF Operations, Listens
  <2>2. CASE l = k /\ m = n
    BY <1>9, <1>10, <1>11, <1>17, <1>18, <1>19, <2>2 DEF OpIsSane, Tells, o
  <2>3. CASE l # k \/ m # n
    BY <1>7, <1>9, <1>10, <1>11, <1>17, <1>19, <2>1, <2>3 DEF OpIsSane, Tells
  <2> QED
    BY <2>2, <2>3
<1>21. Alone'
  <2> SUFFICES ASSUME Quiet' PROVE Alone'
    BY DEF Alone
  <2>1. pc'["main"] \notin {"reset", "check"}
    BY <1>5
  <2>2. ASSUME NEW m \in Objects PROVE life[k][m] # "alive"
    <3>1. SUFFICES ASSUME life[k][m] = "alive" PROVE FALSE
      OBVIOUS
    <3>2. k = "usb"
      BY <1>1, <3>1 DEF Bound, AsioKinds
    <3>3. ptr[k] = m /\ m # 0 /\ started[k][m]
      BY <1>7, <3>1, <3>2, BoundsAssumption DEF Alone, Operations, OpIsSane, Objects
    <3> QED
      BY <1>1, <3>3 DEF NotRunning
  <2>3. ASSUME NEW l \in Kinds, NEW m \in Objects, life'[l][m] = "alive" PROVE ptr'[l] = m
    <3>1. CASE l = k
      BY <1>10, <1>12, <2>2, <2>3, <3>1
    <3>2. CASE l # k
      BY <1>7, <1>10, <1>12, <2>3, <3>2 DEF Alone
    <3> QED
      BY <3>1, <3>2
  <2> QED
    BY <2>1, <2>3 DEF Alone
<1>22. Clashed'
  BY <1>2, <1>3 DEF Clashed, ClashNeedsDeadLoop, ending
<1> QED
  BY <1>13, <1>14, <1>15, <1>16, <1>20, <1>21, <1>22 DEF Operations, Listens

-----------------------------------------------------------------------------
(* The asio thread and the thread of the USB server *)

\* A handler begins or ends.
LEMMA AsioKeeps ==
    ASSUME IInv, pc["asio"] \in {"run", "handle"},
           NEW to \in {"run", "handle", "caught"}, pc' = [pc EXCEPT !["asio"] = to],
           UNCHANGED <<ptr, life, at, held, then, ending, fault>>,
           handler' \in [kind : AsioKinds, object : 0 .. MaxObjects, ok : BOOLEAN],
           to = "handle" =>
             handler'.object # 0 /\ life[handler'.kind][handler'.object] # "unborn",
           started' \in [Kinds -> [Objects -> BOOLEAN]],
           op' \in [Kinds -> [Objects -> Ops]],
           hit' \in BOOLEAN, hit => hit',
           \A k \in Kinds, n \in Objects :
             /\ started'[k][n] => started[k][n]
             /\ op'[k][n] = "waits" => op[k][n] = "waits" \/ (Busy(k, n) /\ handler.ok)
    PROVE  /\ ObjectsOK' /\ ThreadsOK' /\ EndingOK' /\ HarmOK'
           /\ Places' /\ Holds' /\ Alone' /\ Clashed' /\ PointerFaultNeedsRace'
<1> USE DEF IInv
<1>1. pc'["asio"] = to /\ \A u \in Threads : u # "asio" => pc'[u] = pc[u]
  BY DEF ThreadsOK, Threads
<1>2. (Threw => Threw') /\ (Quiet' => Quiet)
  BY DEF Threw, Quiet, ending
<1>3. ObjectsOK' /\ ThreadsOK' /\ EndingOK' /\ HarmOK'
  <2>1. ObjectsOK'
    BY DEF ObjectsOK
  <2>2. ThreadsOK'
    BY DEF ThreadsOK, Steps
  <2>3. EndingOK' /\ HarmOK'
    BY DEF EndingOK, HarmOK, ending
  <2> QED
    BY <2>1, <2>2, <2>3
<1>4. Places'
  BY <1>1 DEF Places, Stopping, Threads, ending
<1>5. Holds'
  BY <1>1 DEF Holds, Threads
<1>6. Alone'
  BY <1>1, <1>2 DEF Alone, Threads
<1>7. Clashed'
  <2> SUFFICES ASSUME why = "bind", Quiet' PROVE Clashed'
    BY <1>1 DEF Clashed, ClashNeedsDeadLoop, Quiet, Threads, ending
  <2>1. PICK k \in Kinds : ptr[k] # 0 /\ ~started[k][ptr[k]]
                           /\ (op[k][ptr[k]] = "waits" => hit)
    BY <1>2 DEF Clashed, ClashNeedsDeadLoop, Quiet
  <2>2. ptr[k] \in Objects /\ life[k][ptr[k]] = "alive"
    BY <2>1 DEF ObjectsOK, Objects
  <2>3. ~started'[k][ptr[k]]
    BY <2>1, <2>2
  <2>4. ASSUME op'[k][ptr[k]] = "waits" PROVE hit'
    <3>1. CASE op[k][ptr[k]] = "waits"
      BY <2>1, <3>1
    <3>2. CASE Busy(k, ptr[k]) /\ handler.ok
      BY <2>1, <2>2, <3>2 DEF Listens, Tells
    <3> QED
      BY <2>2, <2>4, <3>1, <3>2
  <2> QED
    BY <1>1, <2>1, <2>3, <2>4 DEF Clashed, ClashNeedsDeadLoop, Threads, ending
<1>8. PointerFaultNeedsRace'
  BY <1>2 DEF PointerFaultNeedsRace, Quiet
<1> QED
  BY <1>3, <1>4, <1>5, <1>6, <1>7, <1>8

LEMMA IdleHandler ==
    NoHandler \in [kind : AsioKinds, object : 0 .. MaxObjects, ok : BOOLEAN]
  BY BoundsAssumption DEF NoHandler, AsioKinds, Kinds

\* A handler is called: its operation is over.
LEMMA CallsKeeps ==
    ASSUME IInv, NEW k \in AsioKinds, NEW n \in Objects, NEW ok \in BOOLEAN,
           Calls(k, n, ok), op[k][n] \in {"waits", "ok", "failed"}
    PROVE  IInv'
<1> USE DEF IInv
<1>1. /\ pc["asio"] = "run" /\ ~stopped
      /\ handler' = [kind |-> k, object |-> n, ok |-> ok]
      /\ op' = [op EXCEPT ![k][n] = "none"]
      /\ pc' = [pc EXCEPT !["asio"] = "handle"]
      /\ UNCHANGED <<ptr, life, started, at, held, then, ending, harm>>
  BY DEF Calls, At, Goto
<1>2. k \in Kinds /\ k # "usb" /\ n # 0 /\ n \in 0 .. MaxObjects /\ life[k][n] # "unborn"
  BY BoundsAssumption DEF AsioKinds, Objects, Operations, OpIsSane
<1>3. /\ op' \in [Kinds -> [Objects -> Ops]] /\ op'[k][n] = "none"
      /\ \A l \in Kinds, m \in Objects : l # k \/ m # n => op'[l][m] = op[l][m]
  BY <1>1, <1>2 DEF ObjectsOK, Ops
<1>4. /\ ObjectsOK' /\ ThreadsOK' /\ EndingOK' /\ HarmOK'
      /\ Places' /\ Holds' /\ Alone' /\ Clashed' /\ PointerFaultNeedsRace'
  <2>1. started' \in [Kinds -> [Objects -> BOOLEAN]] /\ hit' \in BOOLEAN
    BY <1>1 DEF ObjectsOK, HarmOK, harm
  <2>2. handler' \in [kind : AsioKinds, object : 0 .. MaxObjects, ok : BOOLEAN]
    BY <1>1, <1>2
  <2>3. \A l \in Kinds, m \in Objects :
          /\ started'[l][m] => started[l][m]
          /\ op'[l][m] = "waits" => op[l][m] = "waits"
    BY <1>1, <1>3
  <2> QED
    BY <1>1, <1>2, <1>3, <2>1, <2>2, <2>3, AsioKeeps DEF harm
<1>5. pc'["asio"] = "handle" /\ asioEx' = asioEx /\ stopped' = stopped /\ hit' = hit
  BY <1>1 DEF ThreadsOK, Threads, ending, harm
<1>6. (Threw' <=> Threw)
  BY <1>1, <1>5 DEF Threw
<1>7. ASSUME NEW l \in Kinds, NEW m \in Objects PROVE OpIsSane(l, m)' /\ Tells(l, m)'
  <2>1. OpIsSane(l, m) /\ Tells(l, m)
    BY DEF Operations, Listens
  <2>2. Busy(l, m)' <=> l = k /\ m = n
    BY <1>1, <1>5 DEF Busy
  <2>3. ~Busy(l, m)
    BY <1>1 DEF Busy
  <2>4. CASE l = k /\ m = n
    BY <1>1, <1>2, <1>3, <1>5, <2>1, <2>2, <2>4 DEF OpIsSane, Tells
  <2>5. CASE l # k \/ m # n
    BY <1>1, <1>3, <1>5, <1>6, <2>1, <2>2, <2>3, <2>5 DEF OpIsSane, Tells
  <2> QED
    BY <2>4, <2>5
<1> QED
  BY <1>4, <1>7 DEF Operations, Listens

LEMMA CompletesKeeps == ASSUME IInv, NEW ok \in BOOLEAN, Completes(ok) PROVE IInv'
  BY CallsKeeps DEF Completes

LEMMA DispatchKeeps == ASSUME IInv, Dispatch PROVE IInv'
<1>1. PICK k \in AsioKinds, n \in Objects :
        op[k][n] \in {"ok", "failed"} /\ Calls(k, n, op[k][n] = "ok")
  BY DEF Dispatch
<1> QED
  BY <1>1, CallsKeeps

\* A handler of server n of kind k returns, or throws: o is its next operation.  The
\* flag of its server may be reset, and when another one is, hit tells.
LEMMA HandlerEndsKeeps ==
    ASSUME IInv, pc["asio"] = "handle",
           NEW k \in Kinds, k = handler.kind, NEW n \in Objects, n = handler.object,
           NEW to \in {"run", "caught"}, pc' = [pc EXCEPT !["asio"] = to],
           handler' = NoHandler,
           UNCHANGED <<ptr, life, at, held, then, ending, fault>>,
           NEW o \in {"none", "waits", "failed", "unsent"},
           op' = [op EXCEPT ![k][n] = o],
           o # "none" => ~stopped,
           life[k][n] = "alive" => o # "failed",
           o = "waits" =>
             handler.ok /\ life[k][n] = "alive" /\ started'[k][n] = started[k][n],
           life[k][n] = "alive" /\ started'[k][n] /\ o = "none" =>
             stopped \/ (k = "server" /\ to = "caught"),
           started' \in [Kinds -> [Objects -> BOOLEAN]],
           hit' \in BOOLEAN, hit => hit',
           \A l \in Kinds, m \in Objects :
             \/ started'[l][m] = started[l][m]
             \/ l = k /\ ~started'[l][m] /\ (m = n \/ hit')
    PROVE  IInv'
<1> USE DEF IInv
<1>1. k \in AsioKinds /\ k # "usb" /\ Busy(k, n) /\ op[k][n] = "none"
      /\ life[k][n] # "unborn"
  BY DEF ThreadsOK, AsioKinds, Busy, Operations, OpIsSane, Holds
<1>2. /\ op' \in [Kinds -> [Objects -> Ops]] /\ op'[k][n] = o
      /\ \A l \in Kinds, m \in Objects : l # k \/ m # n => op'[l][m] = op[l][m]
  BY DEF ObjectsOK, Ops
<1>3. /\ ObjectsOK' /\ ThreadsOK' /\ EndingOK' /\ HarmOK'
      /\ Places' /\ Holds' /\ Alone' /\ Clashed' /\ PointerFaultNeedsRace'
  <2>1. \A l \in Kinds, m \in Objects :
          /\ started'[l][m] => started[l][m]
          /\ op'[l][m] = "waits" => op[l][m] = "waits" \/ (Busy(l, m) /\ handler.ok)
    BY <1>1, <1>2
  <2> QED
    BY <1>2, <2>1, IdleHandler, AsioKeeps
<1>4. /\ pc'["asio"] = to /\ UNCHANGED <<asioEx, stopped>>
      /\ (Threw => Threw') /\ (to = "caught" => Threw')
  BY DEF ThreadsOK, Threads, ending, Threw
<1>5. ASSUME NEW l \in Kinds, NEW m \in Objects PROVE OpIsSane(l, m)' /\ Tells(l, m)'
  <2>1. OpIsSane(l, m) /\ Tells(l, m)
    BY DEF Operations, Listens
  <2>2. ~Busy(l, m)'
    BY <1>4 DEF Busy
  <2>3. CASE l = k /\ m = n
    <3>1. OpIsSane(k, n)'
      BY <1>1, <1>2, <1>4, <2>2, <2>3 DEF OpIsSane
    <3>2. Tells(k, n)'
      BY <1>1, <1>2, <1>4, <2>1, <2>2, <2>3 DEF Tells
    <3> QED
      BY <2>3, <3>1, <3>2
  <2>4. CASE l # k \/ m # n
    <3>1. ~Busy(l, m)
      BY <2>4 DEF Busy
    <3>2. started'[l][m] = started[l][m] \/ (l # "usb" /\ ~started'[l][m] /\ hit')
      BY <1>1, <2>4
    <3>3. OpIsSane(l, m)'
      BY <1>1, <1>2, <1>4, <2>1, <2>2, <2>4, <3>1, <3>2 DEF OpIsSane
    <3>4. Tells(l, m)'
      BY <1>2, <1>4, <2>1, <2>2, <2>4, <3>1, <3>2 DEF Tells
    <3> QED
      BY <3>3, <3>4
  <2> QED
    BY <2>3, <2>4
<1> QED
  BY <1>3, <1>5 DEF Operations, Listens

\* The handler that ends, of a server that is there or was.
LEMMA HandlerIs ==
    ASSUME IInv, pc["asio"] = "handle"
    PROVE  /\ handler.kind \in AsioKinds /\ handler.kind \in Kinds
           /\ handler.object \in Objects
           /\ op[handler.kind][handler.object] = "none"
           /\ [op EXCEPT ![handler.kind][handler.object] = "none"] = op
<1>1. handler.kind \in AsioKinds /\ handler.kind \in Kinds /\ handler.object \in Objects
  BY DEF IInv, ThreadsOK, Holds, AsioKinds, Objects
<1>2. op[handler.kind][handler.object] = "none"
  BY <1>1 DEF IInv, Operations, OpIsSane, Busy, AsioKinds
<1> QED
  BY <1>1, <1>2 DEF IInv, ObjectsOK

LEMMA RearmKeeps == ASSUME IInv, Rearm PROVE IInv'
<1> DEFINE k == handler.kind
           n == handler.object
           o == IF stopped THEN "none"
                ELSE IF life[k][n] = "alive" THEN "waits" ELSE "failed"
<1>1. /\ pc["asio"] = "handle" /\ handler.ok = TRUE
      /\ pc' = [pc EXCEPT !["asio"] = "run"]
      /\ handler' = NoHandler
      /\ op' = [op EXCEPT ![k][n] = o]
      /\ UNCHANGED <<ptr, life, started, at, held, then, ending, harm>>
  BY DEF Rearm, Handles, Handled, At, Goto, Pending, harm
<1>2. k \in Kinds /\ n \in Objects
  BY <1>1, HandlerIs
<1>3. /\ o \in {"none", "waits", "failed", "unsent"} /\ (o # "none" => ~stopped)
      /\ life[k][n] = "alive" => o # "failed"
      /\ life[k][n] = "alive" /\ o = "none" => stopped
      /\ o = "waits" => life[k][n] = "alive"
  OBVIOUS
<1>4. started' \in [Kinds -> [Objects -> BOOLEAN]] /\ hit' \in BOOLEAN
  BY <1>1 DEF IInv, ObjectsOK, HarmOK, harm
<1> HIDE DEF k, n, o
<1> QED
  BY <1>1, <1>2, <1>3, <1>4, HandlerEndsKeeps DEF harm, k, n

LEMMA AcceptThrowsKeeps == ASSUME IInv, AcceptThrows PROVE IInv'
<1>1. /\ pc["asio"] = "handle" /\ handler.kind = "server"
      /\ pc' = [pc EXCEPT !["asio"] = "caught"]
      /\ handler' = NoHandler
      /\ UNCHANGED <<ptr, life, started, op, at, held, then, ending, hit, fault>>
  BY DEF AcceptThrows, Handles, Handled, At, Goto
<1>2. handler.kind \in Kinds /\ handler.object \in Objects
      /\ [op EXCEPT ![handler.kind][handler.object] = "none"] = op
  BY <1>1, HandlerIs
<1>3. started' \in [Kinds -> [Objects -> BOOLEAN]] /\ hit' \in BOOLEAN
  BY <1>1 DEF IInv, ObjectsOK, HarmOK
<1> QED
  BY <1>1, <1>2, <1>3, HandlerEndsKeeps

LEMMA EchoFailsKeeps == ASSUME IInv, EchoFails PROVE IInv'
<1> DEFINE o == IF stopped THEN "none" ELSE "unsent"
<1>1. /\ pc["asio"] = "handle" /\ handler.kind = "echo"
      /\ pc' = [pc EXCEPT !["asio"] = "run"]
      /\ handler' = NoHandler
      /\ op' = [op EXCEPT !["echo"][handler.object] = o]
      /\ UNCHANGED <<ptr, life, started, at, held, then, ending, hit, fault>>
  BY DEF EchoFails, Handles, Handled, At, Goto, Pending
<1>2. handler.kind \in Kinds /\ handler.object \in Objects
  BY <1>1, HandlerIs
<1>3. /\ o \in {"none", "waits", "failed", "unsent"} /\ (o # "none" => ~stopped)
      /\ o \notin {"failed", "waits"} /\ (o = "none" => stopped)
  OBVIOUS
<1>4. started' \in [Kinds -> [Objects -> BOOLEAN]] /\ hit' \in BOOLEAN
  BY <1>1 DEF IInv, ObjectsOK, HarmOK
<1> HIDE DEF o
<1> QED
  BY <1>1, <1>2, <1>3, <1>4, HandlerEndsKeeps

LEMMA FailsKeeps == ASSUME IInv, Fails PROVE IInv'
<1> DEFINE k == handler.kind
           n == handler.object
<1>1. /\ pc["asio"] = "handle"
      /\ pc' = [pc EXCEPT !["asio"] = "run"]
      /\ handler' = NoHandler
      /\ UNCHANGED <<ptr, life, op, at, held, then, ending, hit, fault>>
  BY DEF Fails, Handles, Handled, At, Goto
<1>2. k \in Kinds /\ n \in Objects /\ [op EXCEPT ![k][n] = "none"] = op
  BY <1>1, HandlerIs
<1>3. started' = [started EXCEPT ![k][n] = FALSE]
  BY DEF Fails
<1>4. /\ started' \in [Kinds -> [Objects -> BOOLEAN]] /\ hit' \in BOOLEAN
      /\ ~started'[k][n]
      /\ \A l \in Kinds, m \in Objects :
           started'[l][m] = started[l][m] \/ (l = k /\ ~started'[l][m] /\ m = n)
  BY <1>1, <1>2, <1>3 DEF IInv, ObjectsOK, HarmOK
<1> QED
  BY <1>1, <1>2, <1>4, HandlerEndsKeeps

LEMMA FailsFreedKeeps == ASSUME IInv, FailsFreed PROVE IInv'
<1> DEFINE k == handler.kind
           n == handler.object
<1>1. /\ pc["asio"] = "handle" /\ life[k][n] = "freed"
      /\ pc' = [pc EXCEPT !["asio"] = "run"]
      /\ handler' = NoHandler
      /\ UNCHANGED <<ptr, life, op, at, held, then, ending, fault>>
      /\ \/ UNCHANGED <<started, hit>>
         \/ \E m \in Objects : started' = [started EXCEPT ![k][m] = FALSE] /\ hit' = TRUE
  BY DEF FailsFreed, Handles, Handled, Exists, At, Goto
<1>2. k \in Kinds /\ n \in Objects /\ [op EXCEPT ![k][n] = "none"] = op
  BY <1>1, HandlerIs
<1>3. CASE UNCHANGED <<started, hit>>
  <2>1. started' \in [Kinds -> [Objects -> BOOLEAN]] /\ hit' \in BOOLEAN
    BY <1>3 DEF IInv, ObjectsOK, HarmOK
  <2> QED
    BY <1>1, <1>2, <1>3, <2>1, HandlerEndsKeeps
<1>4. ASSUME NEW m \in Objects, started' = [started EXCEPT ![k][m] = FALSE], hit' = TRUE
      PROVE  IInv'
  <2>1. /\ started' \in [Kinds -> [Objects -> BOOLEAN]]
        /\ started'[k][m] = FALSE
        /\ \A l \in Kinds, j \in Objects : l # k \/ j # m => started'[l][j] = started[l][j]
    BY <1>2, <1>4 DEF IInv, ObjectsOK
  <2> QED
    BY <1>1, <1>2, <1>4, <2>1, HandlerEndsKeeps
<1> QED
  BY <1>1, <1>3, <1>4

\* The thread of a USB server that was told to end.
LEMMA UsbKeeps ==
    ASSUME IInv, NEW n \in Objects, NEW from \in {"polls", "adb"},
           NEW to \in {"none", "adb"}, Usb(n, from, to)
    PROVE  IInv'
<1> USE DEF IInv
<1>1. /\ ~started["usb"][n] /\ op["usb"][n] = from
      /\ op' = [op EXCEPT !["usb"][n] = to]
      /\ UNCHANGED <<ptr, life, started, handler, threads, ending, harm>>
  BY DEF Usb
<1>2. /\ op' \in [Kinds -> [Objects -> Ops]] /\ op'["usb"][n] = to
      /\ \A l \in Kinds, m \in Objects : l # "usb" \/ m # n => op'[l][m] = op[l][m]
  BY <1>1 DEF ObjectsOK, Kinds, Ops
<1>3. (Threw' <=> Threw) /\ (Quiet' <=> Quiet) /\ UNCHANGED <<stopped, hit>>
  BY <1>1 DEF Threw, Quiet, threads, ending, harm
<1>4. ObjectsOK' /\ ThreadsOK' /\ EndingOK' /\ HarmOK'
  <2>1. ObjectsOK'
    BY <1>1, <1>2 DEF ObjectsOK
  <2>2. ThreadsOK'
    BY <1>1 DEF ThreadsOK, threads
  <2>3. EndingOK' /\ HarmOK'
    BY <1>1 DEF EndingOK, HarmOK, ending, harm
  <2> QED
    BY <2>1, <2>2, <2>3
<1>5. Places' /\ Holds' /\ Alone' /\ PointerFaultNeedsRace'
  BY <1>1, <1>3
  DEF Places, Holds, Alone, PointerFaultNeedsRace, Quiet, threads, ending, harm
<1>6. ASSUME NEW l \in Kinds, NEW m \in Objects PROVE OpIsSane(l, m)' /\ Tells(l, m)'
  <2>1. OpIsSane(l, m) /\ Tells(l, m)
    BY DEF Operations, Listens
  <2>2. Busy(l, m)' <=> Busy(l, m)
    BY <1>1 DEF Busy, threads
  <2>3. CASE l = "usb" /\ m = n
    BY <1>1, <1>2, <1>3, <2>1, <2>2, <2>3 DEF OpIsSane, Tells
  <2>4. CASE l # "usb" \/ m # n
    BY <1>1, <1>2, <1>3, <2>1, <2>2, <2>4 DEF OpIsSane, Tells
  <2> QED
    BY <2>3, <2>4
<1>7. Clashed'
  <2>1. \A k \in Kinds : ptr[k] # 0 /\ op'[k][ptr[k]] = "waits" => op[k][ptr[k]] = "waits"
    BY <1>2 DEF ObjectsOK, Objects
  <2> QED
    BY <1>1, <1>3, <2>1 DEF Clashed, ClashNeedsDeadLoop, Quiet, threads, ending
<1> QED
  BY <1>4, <1>5, <1>6, <1>7 DEF Operations, Listens

LEMMA SucceedsFreedKeeps == ASSUME IInv, SucceedsFreed PROVE IInv'
  BY FaultsKeeps DEF SucceedsFreed

LEMMA AdbThrowsKeeps == ASSUME IInv, AdbThrows PROVE IInv'
  BY FaultsKeeps DEF AdbThrows

-----------------------------------------------------------------------------
(* The specification *)

LEMMA InitIInv == Init => IInv
<1> SUFFICES ASSUME Init PROVE IInv
  OBVIOUS
<1>1. PICK there \in {AsioKinds, Kinds} :
        /\ ptr = [k \in Kinds |-> IF k \in there THEN 1 ELSE 0]
        /\ life = [k \in Kinds |-> [n \in Objects |->
                      IF n = 1 /\ k \in there THEN "alive" ELSE "unborn"]]
        /\ started = [k \in Kinds |-> [n \in Objects |-> n = 1 /\ k \in there]]
        /\ op = [k \in Kinds |-> [n \in Objects |->
                    IF n = 1 /\ k \in there THEN FirstOp(k) ELSE "none"]]
  BY DEF Init
<1>2. /\ handler = NoHandler
      /\ pc = [main |-> "loop", asio |-> "run", signal |-> "none"]
      /\ at = [t \in Threads |-> "server"] /\ held = [t \in Threads |-> 0]
      /\ then = "loop" /\ shutters = {} /\ sigOn = "none" /\ stopped = FALSE
      /\ closeDue = FALSE /\ app = TRUE /\ asioEx = FALSE /\ checked = "no"
      /\ why = "nothing" /\ hit = FALSE /\ fault = "none"
  BY DEF Init
<1>3. /\ there \subseteq Kinds /\ 1 \in Objects
      /\ 0 \in 0 .. MaxObjects /\ 1 \in 0 .. MaxObjects
      /\ 0 \notin Objects
  BY BoundsAssumption DEF Objects, AsioKinds
<1>4. \A k \in Kinds : FirstOp(k) = IF k = "usb" THEN "polls" ELSE "waits"
  BY DEF FirstOp
<1>5. /\ pc \in [Threads -> Steps]
      /\ pc["main"] = "loop" /\ pc["asio"] = "run" /\ pc["signal"] = "none"
  BY <1>2 DEF Threads, Steps
<1>6. ObjectsOK
  <2>1. ptr \in [Kinds -> 0 .. MaxObjects]
    BY <1>1, <1>3
  <2>2. life \in [Kinds -> [Objects -> {"unborn", "alive", "closing", "freed"}]]
    BY <1>1
  <2>3. started \in [Kinds -> [Objects -> BOOLEAN]]
    BY <1>1
  <2>4. op \in [Kinds -> [Objects -> Ops]]
    BY <1>1, <1>4 DEF Ops
  <2>5. \A k \in Kinds : ptr[k] # 0 => life[k][ptr[k]] = "alive"
    BY <1>1, <1>3
  <2> QED
    BY <2>1, <2>2, <2>3, <2>4, <2>5 DEF ObjectsOK
<1>7. ThreadsOK
  <2>1. at \in [Threads -> Kinds] /\ held \in [Threads -> 0 .. MaxObjects]
    BY <1>2, <1>3 DEF Kinds
  <2> QED
    BY <1>2, <1>5, <2>1, IdleHandler DEF ThreadsOK
<1>8. EndingOK /\ HarmOK /\ PointerFaultNeedsRace
  BY <1>2 DEF EndingOK, HarmOK, PointerFaultNeedsRace
<1>9. Places /\ Holds /\ Clashed
  BY <1>2, <1>5 DEF Places, Holds, Clashed, ClashNeedsDeadLoop, Threads, Stopping
<1>10. ASSUME NEW k \in Kinds, NEW n \in Objects PROVE OpIsSane(k, n) /\ Tells(k, n)
  <2>1. ~Busy(k, n)
    BY <1>5 DEF Busy
  <2>2. op[k][n] = IF n = 1 /\ k \in there THEN IF k = "usb" THEN "polls" ELSE "waits"
                   ELSE "none"
    BY <1>1, <1>4
  <2>3. started[k][n] <=> n = 1 /\ k \in there
    BY <1>1
  <2>4. life[k][n] = IF n = 1 /\ k \in there THEN "alive" ELSE "unborn"
    BY <1>1
  <2> QED
    BY <1>2, <2>1, <2>2, <2>3, <2>4 DEF OpIsSane, Tells
<1>11. Alone
  BY <1>1, <1>5 DEF Alone
<1> QED
  BY <1>6, <1>7, <1>8, <1>9, <1>10, <1>11 DEF IInv, Operations, Listens

LEMMA StutterKeeps == ASSUME IInv, UNCHANGED vars PROVE IInv'
<1> USE DEF IInv
<1>1. UNCHANGED <<ptr, life, started, op, handler, pc, at, held, then, shutters, sigOn,
                  stopped, closeDue, app, asioEx, checked, why, hit, fault>>
  BY DEF vars, objects, threads, ending, harm
<1>2. ObjectsOK' /\ ThreadsOK' /\ EndingOK' /\ HarmOK'
  <2>1. ObjectsOK'
    BY <1>1 DEF ObjectsOK
  <2>2. ThreadsOK'
    BY <1>1 DEF ThreadsOK
  <2>3. EndingOK' /\ HarmOK'
    BY <1>1 DEF EndingOK, HarmOK
  <2> QED
    BY <2>1, <2>2, <2>3
<1>3. Places' /\ Holds'
  BY <1>1 DEF Places, Holds
<1>4. Operations' /\ Listens'
  BY <1>1 DEF Operations, OpIsSane, Listens, Tells, Busy, Threw
<1>5. Alone' /\ Clashed' /\ PointerFaultNeedsRace'
  BY <1>1 DEF Alone, Clashed, ClashNeedsDeadLoop, PointerFaultNeedsRace, Quiet, Threw
<1> QED
  BY <1>2, <1>3, <1>4, <1>5

LEMMA NextIInv == ASSUME IInv, [Next]_vars PROVE IInv'
<1>1. ASSUME NEW t \in Threads, Stops(t) PROVE IInv'
  BY <1>1, TakeKeeps, ResetNullKeeps, ResetKeeps, ResetTwiceKeeps, FreeKeeps, AppCloseKeeps,
     AppCloseGoneKeeps DEF Stops
<1>2. CASE Requests
  BY <1>2, DisableKeeps, ShutdownKeeps, EnableKeeps, FailureKeeps, CheckKeeps DEF Requests
<1>3. CASE Answers
  BY <1>3, KeepKeeps, StartKeeps, StartClashesKeeps, FailureKeeps, UseKeeps, UseGoneKeeps,
     LeaveKeeps DEF Answers
<1>4. CASE LoopEnds \/ CheckEx \/ Join
  BY <1>4, LoopEndsKeeps, CheckExKeeps, JoinKeeps
<1>5. CASE Completes(TRUE) \/ Completes(FALSE)
  BY <1>5, CompletesKeeps
<1>6. CASE Asio
  BY <1>6, DispatchKeeps, RunReturnsKeeps, RearmKeeps, AcceptThrowsKeeps, EchoFailsKeeps,
     FailsKeeps, FailsFreedKeeps, SucceedsFreedKeeps, CaughtKeeps DEF Asio
<1>7. CASE UsbMain
  BY <1>7, UsbKeeps, AdbThrowsKeeps DEF UsbMain, Plugged, AdbReturns, PollEnds
<1>8. CASE Signal
  BY <1>8, SignalKeeps
<1>9. CASE UNCHANGED vars
  BY <1>9, StutterKeeps
<1> QED
  BY <1>1, <1>2, <1>3, <1>4, <1>5, <1>6, <1>7, <1>8, <1>9 DEF Next

LEMMA Invariance == Spec => []IInv
<1>1. IInv /\ [Next]_vars => IInv'
  BY NextIInv
<1> QED
  BY InitIInv, <1>1, PTL DEF Spec

\* Every variable keeps its type, whatever the threads do; with it, a pointer never
\* names a server that is being destroyed.
THEOREM TypeCorrect == Spec => []TypeOK
  BY Invariance, Types, PTL

\* A server that says it runs listens, and one that listens says so; but for the
\* answer that could not be sent, the handler that threw and the write of a freed
\* predecessor.
THEOREM RunningIsTrue == Spec => []RunningListens
<1>1. IInv => RunningListens
  <2> SUFFICES ASSUME IInv, NEW k \in Kinds, NEW n \in Objects, life[k][n] = "alive",
                      k \in AsioKinds => ~stopped
               PROVE  /\ started[k][n] => \/ op[k][n] # "none"
                                          \/ Busy(k, n)
                                          \/ k = "server" /\ Threw
                      /\ op[k][n] \in {"waits", "polls"} => started[k][n] \/ hit
    BY DEF RunningListens
  <2>1. OpIsSane(k, n) /\ Tells(k, n)
    BY DEF IInv, Operations, Listens
  <2> QED
    BY <2>1 DEF OpIsSane, Tells, AsioKinds
<1> QED
  BY <1>1, Invariance, PTL

\* The port is taken only by a server that had stopped to listen, or that a second
\* thread is about to destroy.
THEOREM Clashes == Spec => []ClashNeedsDeadLoop
<1>1. IInv => ClashNeedsDeadLoop
  BY DEF IInv, Clashed
<1> QED
  BY <1>1, Invariance, PTL

\* No server is destroyed twice, no request is sent to one that is gone, and close()
\* to no loop that is gone, unless a second thread shuts down.
THEOREM PointerFaults == Spec => []PointerFaultNeedsRace
<1>1. IInv => PointerFaultNeedsRace
  BY DEF IInv
<1> QED
  BY <1>1, Invariance, PTL

\* A freed server has nothing that waits, and at most one handler, to run or running.
THEOREM FreedHandling == Spec => []FreedIsHandledOnce
<1>1. IInv => FreedIsHandledOnce
  <2> SUFFICES ASSUME IInv, NEW k \in AsioKinds, NEW n \in Objects, life[k][n] = "freed"
               PROVE  op[k][n] # "waits" /\ ~(Busy(k, n) /\ op[k][n] # "none")
    BY DEF FreedIsHandledOnce
  <2>1. k \in Kinds /\ k # "usb"
    BY DEF AsioKinds
  <2>2. OpIsSane(k, n)
    BY <2>1 DEF IInv, Operations
  <2> QED
    BY <2>1, <2>2 DEF OpIsSane
<1> QED
  BY <1>1, Invariance, PTL

-----------------------------------------------------------------------------
(* The process: its end *)

Left == {"asioEx", "join", "over"}

\* What ShutdownGoesOn needs to last.
Closing ==
    /\ ShutdownGoesOn
    /\ closeDue => stopped
    /\ then = "appclose" => "main" \in shutters
    /\ pc["main"] = "appclose" => then = "appclose"
    /\ asioEx => "asio" \in shutters

\* A step of one thread, which neither begins a shutdown nor completes one.
LEMMA ClosingKept ==
    ASSUME Closing, NEW t \in Threads,
           UNCHANGED <<shutters, stopped, closeDue, asioEx, then>>,
           \A u \in Threads : u # t => pc'[u] = pc[u],
           ShuttingDown(t) => pc'[t] \in Stopping,
           t = "main" /\ pc'[t] = "appclose" => then = "appclose",
           pc'["main"] \in Left =>
             \/ pc["main"] \in Left /\ why' = why
             \/ why' # "nothing"
             \/ closeDue
    PROVE  Closing'
<1>1. \A u \in Threads : ShuttingDown(u) => ShuttingDown(u)'
  BY DEF ShuttingDown, Stopping
<1> QED
  BY <1>1 DEF Closing, ShutdownGoesOn, Threads, Left

\* A thread begins to shut down.
LEMMA ClosingBegins ==
    ASSUME IInv, Closing, NEW t \in Threads, Begins(t), At(t, pc[t]), pc[t] \notin Left,
           UNCHANGED handler,
           t = "main" => then' = "appclose" /\ asioEx' = asioEx,
           t # "main" => then' = then,
           asioEx' # asioEx => t = "asio"
    PROVE  Closing'
<1>1. /\ pc'[t] = "take" /\ \A u \in Threads : u # t => pc'[u] = pc[u]
      /\ shutters' = shutters \cup {t} /\ stopped' = TRUE
      /\ UNCHANGED <<closeDue, why>>
  BY DEF Begins, Goto, IInv, ThreadsOK
<1>2. ShuttingDown(t)'
  BY <1>1 DEF ShuttingDown
<1> QED
  BY <1>1, <1>2 DEF Closing, ShutdownGoesOn, Left, Threads

LEMMA ClosingStep == ASSUME IInv, Closing, [Next]_vars PROVE Closing'
<1> USE DEF IInv, ThreadsOK
<1>1. ASSUME NEW t \in Threads, Stops(t) PROVE Closing'
  <2>1. CASE ResetTwice(t) \/ AppCloseGone(t)
    <3>1. \E what : Faults(what)
      BY <2>1, Zenon DEF ResetTwice, AppCloseGone
    <3>2. UNCHANGED <<threads, ending>>
      BY <3>1 DEF Faults
    <3> QED
      BY <3>2 DEF threads, ending, Closing, ShutdownGoesOn, ShuttingDown
  <2>2. CASE Take(t)
    <3>1. /\ pc[t] = "take" /\ pc'[t] = "reset" /\ UNCHANGED <<then, ending>>
          /\ \A u \in Threads : u # t => pc'[u] = pc[u]
      BY <2>2 DEF Take, Goto, At
    <3> QED
      BY <3>1, ClosingKept DEF ending, Left, Stopping, Threads
  <2>3. CASE Reset(t)
    <3>1. /\ pc[t] = "reset" /\ pc'[t] = "free" /\ UNCHANGED <<then, ending>>
          /\ \A u \in Threads : u # t => pc'[u] = pc[u]
      BY <2>3 DEF Reset, Goto, At
    <3> QED
      BY <3>1, ClosingKept DEF ending, Left, Stopping, Threads
  <2>4. CASE ResetNull(t) \/ Free(t)
    <3>1. /\ pc[t] \in Stopping /\ UNCHANGED <<then, ending>>
          /\ pc' = [pc EXCEPT ![t] = IF at[t] # "usb" THEN "take"
                                     ELSE IF t = "main" THEN then ELSE "appclose"]
      BY <2>4 DEF ResetNull, Free, NextKind, Goto, At, Stopping
    <3>2. \A u \in Threads : u # t => pc'[u] = pc[u]
      BY <3>1
    <3>3. pc'[t] = IF at[t] # "usb" THEN "take"
                   ELSE IF t = "main" THEN then ELSE "appclose"
      BY <3>1
    <3>4. then \in {"loop", "appclose"}
      OBVIOUS
    <3> QED
      BY <3>1, <3>2, <3>3, <3>4, ClosingKept
         DEF ending, Left, Stopping, Threads, ShuttingDown
  <2>5. CASE AppClose(t)
    <3>1. /\ pc[t] = "appclose" /\ closeDue' = TRUE
          /\ pc'[t] = IF t = "main" THEN "loop" ELSE "over"
          /\ \A u \in Threads : u # t => pc'[u] = pc[u]
          /\ UNCHANGED <<shutters, stopped, asioEx, then, why>>
      BY <2>5 DEF AppClose, Moves, Goto, At
    <3>2. stopped
      BY <3>1 DEF Closing, ShutdownGoesOn, Places, Threads, Stopping
    <3> QED
      BY <3>1, <3>2 DEF Closing, ShutdownGoesOn, Threads, Left
  <2> QED
    BY <1>1, <2>1, <2>2, <2>3, <2>4, <2>5 DEF Stops
<1>2. CASE Disable
  <2>1. /\ pc["main"] = "loop" /\ pc'["main"] = "take" /\ then' = "loop"
        /\ \A u \in Threads : u # "main" => pc'[u] = pc[u]
        /\ UNCHANGED ending
    BY <1>2 DEF Disable, Goto, At, Threads
  <2>2. \A u \in Threads : ShuttingDown(u) => ShuttingDown(u)'
    BY <2>1 DEF ShuttingDown, ending
  <2> QED
    BY <2>1, <2>2 DEF Closing, ShutdownGoesOn, ending
<1>3. CASE Shutdown
  BY <1>3, ClosingBegins DEF Shutdown, At, Threads, Left
<1>4. CASE \/ Enable \/ ConfigFails \/ Check \/ Keep \/ Start \/ StartClashes \/ StartFails
           \/ Use \/ Leave
  <2>1. /\ pc["main"] \in {"loop", "start", "check", "use"}
        /\ \/ pc'["main"] \in {"loop", "start", "check", "use"} /\ why' = why
           \/ why' # "nothing" /\ pc'["main"] = "join"
        /\ \A u \in Threads : u # "main" => pc'[u] = pc[u]
        /\ UNCHANGED <<shutters, stopped, closeDue, asioEx, then>>
    <3>1. CASE Enable \/ Check
      BY <1>4, <3>1 DEF Enable, Check, Moves, Goto, At, Threads, ending
    <3>2. CASE ConfigFails \/ StartClashes \/ StartFails
      BY <3>2 DEF ConfigFails, StartClashes, StartFails, Throws, Moves, Goto, At, Threads
    <3>3. CASE Keep \/ Start
      <4>1. pc["main"] = "start" /\ AfterStart /\ UNCHANGED <<then, ending>>
        BY <3>3 DEF Keep, Start, Starts, At
      <4> QED
        BY <4>1 DEF AfterStart, Goto, Threads, ending
    <3>4. CASE Use \/ Leave
      BY <3>4 DEF Use, Leave, Goto, At, Threads, ending
    <3> QED
      BY <1>4, <3>1, <3>2, <3>3, <3>4
  <2> QED
    BY <2>1, ClosingKept DEF Left, ShuttingDown, Threads
<1>5. CASE UseGone \/ SucceedsFreed \/ UsbMain \/ UNCHANGED vars
  <2>1. UNCHANGED <<threads, ending>>
    <3>1. CASE UseGone \/ SucceedsFreed \/ AdbThrows
      <4>1. \E what : Faults(what)
        BY <3>1, Zenon DEF UseGone, SucceedsFreed, AdbThrows
      <4> QED
        BY <4>1 DEF Faults
    <3>2. CASE (UsbMain /\ ~AdbThrows) \/ UNCHANGED vars
      BY <3>2 DEF UsbMain, Plugged, AdbReturns, PollEnds, Usb, vars
    <3> QED
      BY <1>5, <3>1, <3>2
  <2> QED
    BY <2>1 DEF threads, ending, Closing, ShutdownGoesOn, ShuttingDown
<1>6. CASE LoopEnds \/ CheckEx \/ Join
  <2>1. /\ pc["main"] \in {"loop", "asioEx", "join"} /\ pc'["main"] \in Left
        /\ \A u \in Threads : u # "main" => pc'[u] = pc[u]
        /\ UNCHANGED <<shutters, stopped, closeDue, asioEx, then, why>>
        /\ pc["main"] = "loop" => closeDue
    BY <1>6 DEF LoopEnds, CheckEx, Join, Moves, Goto, At, Threads, Left, ending
  <2> QED
    BY <2>1, ClosingKept DEF Left, ShuttingDown, Threads
<1>7. CASE \/ Completes(TRUE) \/ Completes(FALSE) \/ Dispatch \/ RunReturns \/ Rearm
           \/ AcceptThrows \/ EchoFails \/ Fails \/ FailsFreed
  <2>1. /\ pc["asio"] \in {"run", "handle"}
        /\ \A u \in Threads : u # "asio" => pc'[u] = pc[u]
        /\ UNCHANGED <<then, ending>>
    BY <1>7
    DEF Completes, Dispatch, Calls, RunReturns, Rearm, AcceptThrows, EchoFails, Fails,
       FailsFreed, Handles, Handled, Moves, Goto, At, Threads
  <2> QED
    BY <2>1, ClosingKept DEF Left, ShuttingDown, Threads, ending
<1>8. CASE Caught
  BY <1>8, ClosingBegins DEF Caught, At, Threads, Left
<1>9. CASE Signal
  BY <1>9, ClosingBegins DEF Signal, At, Threads, Left
<1> QED
  BY <1>1, <1>2, <1>3, <1>4, <1>5, <1>6, <1>7, <1>8, <1>9 DEF Next, Requests, Answers, Asio

\* No shutdown is forgotten, whoever begins it, and main waits for no thread that was
\* not told to end, unless an exception has left its loop.
THEOREM Shutdowns == Spec => []ShutdownGoesOn
<1>1. Init => Closing
  BY DEF Init, Closing, ShutdownGoesOn
<1>2. IInv /\ Closing /\ [Next]_vars => Closing'
  BY ClosingStep
<1>3. Closing => ShutdownGoesOn
  BY DEF Closing
<1> QED
  BY <1>1, <1>2, <1>3, Invariance, PTL DEF Spec

-----------------------------------------------------------------------------
(* The service: what its reports say *)

\* The process of the service has an event, and so it may be told to stop.
HasStarted == main \notin {"off", "create"}

\* Who says that the service has stopped, and who may say that it runs.
SaysStopped ==
    /\ \A t \in ServiceThreads :
         Reporting(t) /\ report[t].state = "STOPPED" => main = "over"
    /\ status.state = "STOPPED" =>
         main \in {"off", "over"} \/ (main = "create" /\ report["main"].at = "state")
    /\ told.state = "STOPPED" => main \in {"off", "over"}

SaysRunning ==
    /\ "RUNNING" \in {told.state, status.state} => HasStarted
    /\ \A t \in ServiceThreads : Reporting(t) /\ report[t].state = "RUNNING" => HasStarted
    /\ hand # "idle" \/ Reporting("handler") => HasStarted

\* How far the last report is.
LastReport ==
    main = "over" /\ ~raced =>
        /\ Reporting("main") =>
             /\ report["main"].state = "STOPPED" /\ report["main"].code = code
             /\ told.state # "STOPPED"
        /\ report["main"].at \in {"code", "send"} => status.state = "STOPPED"
        /\ report["main"].at = "send" => status.code = code
        /\ ~Reporting("main") => told.state = "STOPPED" /\ told.code = code

\* A process that has not launched its server has none.
NotLaunched ==
    \A n \in Processes :
        n > starts \/ (n = starts /\ main \in {"create", "wait", "launch"})
            => server[n] = "none"

ServiceInv ==
    /\ ServiceTypeOK
    /\ main # "off" => starts \in Processes
    /\ NotLaunched
    /\ ServersAreWatched /\ SaysStopped /\ SaysRunning /\ LastReport

-----------------------------------------------------------------------------
(* The steps of SvcMain *)

AReport == [at : {"none", "state", "code", "send"}, state : States, code : Codes]

\* A report that is begun.
LEMMA BegunReport ==
    ASSUME ServiceTypeOK, NEW t \in ServiceThreads, NEW s \in States, NEW c \in Codes,
           Reports(t, s, c)
    PROVE  /\ report' \in [ServiceThreads -> AReport]
           /\ report'[t] = [at |-> "state", state |-> s, code |-> c]
           /\ \A u \in ServiceThreads : u # t => report'[u] = report[u]
<1>1. [at |-> "state", state |-> s, code |-> c] \in AReport
  BY DEF AReport
<1>2. report \in [ServiceThreads -> AReport]
  BY DEF ServiceTypeOK, AReport
<1> QED
  BY <1>1, <1>2 DEF Reports

LEMMA OverKeeps ==
    ASSUME ServiceInv, main \notin {"off", "over"}, ~Reporting("main"),
           UNCHANGED <<starts, hand, told, status, session, raced>>,
           NEW c \in Codes, Over(c),
           stopEvent' \in {"none", "clear", "set"},
           server' \in [Processes -> ServerStates],
           exit' \in [Processes -> {"ok", "server"}],
           \A n \in Processes : server'[n] # "running",
           \A n \in Processes : n # starts => server'[n] = server[n],
           c # "ok" => server'[starts] \in {"none", "gone"}
    PROVE  ServiceInv'
<1> USE DEF ServiceInv
<1>1. main' = "over" /\ code' = c /\ Reports("main", "STOPPED", c)
  BY DEF Over
<1>2. /\ report' \in [ServiceThreads -> AReport]
      /\ report'["main"] = [at |-> "state", state |-> "STOPPED", code |-> c]
      /\ \A u \in ServiceThreads : u # "main" => report'[u] = report[u]
  BY <1>1, BegunReport DEF ServiceThreads, States
<1>3. ServiceTypeOK'
  BY <1>1, <1>2 DEF ServiceTypeOK, AReport, ServiceThreads
<1>4. ServersAreWatched' /\ starts' \in Processes
  BY <1>1 DEF ServersAreWatched
<1>7. NotLaunched'
  <2>1. \A n \in Processes : n > starts => n # starts
    BY DEF Processes
  <2> QED
    BY <1>1, <2>1 DEF NotLaunched
<1>5. SaysStopped' /\ SaysRunning'
  BY <1>1 DEF SaysStopped, SaysRunning, HasStarted
<1>6. LastReport'
  BY <1>1, <1>2 DEF LastReport, Reporting, SaysStopped
<1> QED
  BY <1>3, <1>4, <1>5, <1>6, <1>7

LEMMA GoesOnKeeps ==
    ASSUME ServiceInv, main \notin {"off", "over"}, ~Reporting("main"),
           UNCHANGED <<starts, hand, told, status, session, raced, code>>,
           main' \in {"wait", "launch", "watch", "stop"},
           report' = report \/ Reports("main", "RUNNING", "ok"),
           stopEvent' \in {"none", "clear", "set"},
           server' \in [Processes -> ServerStates],
           exit' \in [Processes -> {"ok", "server"}],
           \A n \in Processes :
             server'[n] = "running" => n = starts /\ main' \in {"watch", "stop"},
           \A n \in Processes : n # starts => server'[n] = server[n],
           main' \in {"watch", "stop"} \/ (server' = server /\ main \in {"create", "wait"})
    PROVE  ServiceInv'
<1> USE DEF ServiceInv
<1>1. /\ report' \in [ServiceThreads -> AReport]
      /\ report'["main"].at = "none" \/ report'["main"].state = "RUNNING"
      /\ report'["handler"] = report["handler"]
  <2>1. CASE report' = report
    BY <2>1 DEF ServiceTypeOK, AReport, Reporting, ServiceThreads
  <2>2. CASE Reports("main", "RUNNING", "ok")
    BY <2>2, BegunReport DEF ServiceThreads, States, Codes
  <2> QED
    BY <2>1, <2>2
<1>2. ServiceTypeOK'
  BY <1>1 DEF ServiceTypeOK, AReport
<1>3. ServersAreWatched' /\ starts' \in Processes
  BY DEF ServersAreWatched
<1>6. NotLaunched'
  <2>1. \A n \in Processes : n > starts => n # starts
    BY DEF Processes
  <2> QED
    BY <2>1 DEF NotLaunched
<1>4. SaysStopped'
  <2>1. told.state # "STOPPED" /\ status.state # "STOPPED"
    BY DEF SaysStopped, Reporting
  <2>2. Reporting("handler") => report["handler"].state # "STOPPED"
    BY DEF SaysStopped, ServiceThreads
  <2> QED
    BY <1>1, <2>1, <2>2 DEF SaysStopped, Reporting, ServiceThreads
<1>5. SaysRunning' /\ LastReport'
  BY DEF SaysRunning, HasStarted, LastReport
<1> QED
  BY <1>2, <1>3, <1>4, <1>5, <1>6

\* What the server of a process is before and after a step of its SvcMain.
LEMMA SvcMainKeeps == ASSUME ServiceInv, Main PROVE ServiceInv'
<1> USE DEF ServiceInv
<1>1. /\ stopEvent \in {"none", "clear", "set"} /\ code \in Codes
      /\ server \in [Processes -> ServerStates]
      /\ exit \in [Processes -> {"ok", "server"}]
      /\ main # "off" => starts \in Processes
      /\ \A n \in Processes :
           server[n] = "running" => n = starts /\ main \in {"watch", "stop"}
      /\ main \in {"create", "wait", "launch"} => server[starts] = "none"
  BY DEF ServiceTypeOK, ServersAreWatched, NotLaunched
<1>2. CASE Create
  <2>1. main = "create" /\ ~Reporting("main")
        /\ UNCHANGED <<starts, hand, told, status, session, raced, servers>>
    BY <1>2 DEF Create, MainAt
  <2>2. CASE Over("event") /\ UNCHANGED stopEvent
    BY <1>1, <2>1, <2>2, OverKeeps DEF servers, Codes
  <2>3. CASE /\ stopEvent' = "clear" /\ main' = "wait"
             /\ Reports("main", "RUNNING", "ok") /\ UNCHANGED code
    BY <1>1, <2>1, <2>3, GoesOnKeeps DEF servers
  <2> QED
    BY <1>2, <2>2, <2>3 DEF Create
<1>3. CASE Wait
  <2>1. main = "wait" /\ ~Reporting("main")
        /\ UNCHANGED <<starts, hand, told, status, session, raced, stopEvent, servers>>
    BY <1>3 DEF Wait, MainAt
  <2>2. CASE Over("ok")
    BY <1>1, <2>1, <2>2, OverKeeps DEF servers, Codes
  <2>3. CASE main' = "launch" /\ UNCHANGED <<code, report>>
    BY <1>1, <2>1, <2>3, GoesOnKeeps DEF servers
  <2> QED
    BY <1>3, <2>2, <2>3 DEF Wait
<1>4. CASE Launch
  <2>1. main = "launch" /\ ~Reporting("main")
        /\ UNCHANGED <<starts, hand, told, status, session, raced, stopEvent, exit>>
    BY <1>4 DEF Launch, MainAt
  <2>2. CASE Over("launch") /\ UNCHANGED server
    BY <1>1, <2>1, <2>2, OverKeeps DEF Codes
  <2>3. CASE /\ server' = [server EXCEPT ![starts] = "running"]
             /\ main' = "watch" /\ UNCHANGED <<code, report>>
    <3>1. /\ server' \in [Processes -> ServerStates]
          /\ \A n \in Processes : n # starts => server'[n] = server[n]
          /\ \A n \in Processes : server'[n] = "running" => n = starts
      BY <1>1, <2>1, <2>3 DEF ServerStates
    <3> QED
      BY <1>1, <2>1, <2>3, <3>1, GoesOnKeeps
  <2> QED
    BY <1>4, <2>2, <2>3 DEF Launch
<1>5. CASE Watch
  <2>1. main = "watch" /\ ~Reporting("main")
        /\ UNCHANGED <<starts, hand, told, status, session, raced, stopEvent, servers>>
    BY <1>5 DEF Watch, MainAt
  <2>2. CASE server[starts] = "gone" /\ Over(exit[starts])
    <3>1. exit[starts] \in Codes
      BY <1>1, <2>1 DEF Codes
    <3> QED
      BY <1>1, <2>1, <2>2, <3>1, OverKeeps DEF servers
  <2>3. CASE main' = "stop" /\ UNCHANGED <<code, report>>
    BY <1>1, <2>1, <2>3, GoesOnKeeps DEF servers
  <2> QED
    BY <1>5, <2>2, <2>3 DEF Watch
<1>6. CASE Stop
  <2>1. main = "stop" /\ ~Reporting("main")
        /\ UNCHANGED <<starts, hand, told, status, session, raced, stopEvent, exit>>
    BY <1>6 DEF Stop, MainAt
  <2>2. PICK s \in {"interrupted", "deaf", "gone"}, c \in {"ok", "terminator"} :
          /\ server' = [server EXCEPT ![starts] = s] /\ Over(c)
          /\ c # "ok" => s = "gone"
    BY <1>6 DEF Stop
  <2>3. c \in Codes
    BY DEF Codes
  <2>4. /\ server' \in [Processes -> ServerStates]
        /\ server'[starts] = s
        /\ \A n \in Processes : n # starts => server'[n] = server[n]
    BY <1>1, <2>1, <2>2 DEF ServerStates
  <2> QED
    BY <1>1, <2>1, <2>2, <2>3, <2>4, OverKeeps
<1> QED
  BY <1>2, <1>3, <1>4, <1>5, <1>6 DEF Main

-----------------------------------------------------------------------------
(* The control handler and the reports *)

\* The handler begins a report, or is between two.
LEMMA HandlerKeeps ==
    ASSUME ServiceInv, HasStarted, hand' \in {"idle", "signal", "again"},
           stopEvent' \in {"none", "clear", "set"},
           UNCHANGED <<starts, main, code, told, status, servers, session, raced>>,
           NEW s \in States, s = "STOPPED" => main = "over",
           report' = report \/ Reports("handler", s, "ok")
    PROVE  ServiceInv'
<1> USE DEF ServiceInv, servers
<1>1. /\ report' \in [ServiceThreads -> AReport]
      /\ report'["main"] = report["main"]
      /\ report'["handler"] = report["handler"] \/ report'["handler"].state = s
  <2>1. CASE report' = report
    BY <2>1 DEF ServiceTypeOK, AReport
  <2>2. CASE Reports("handler", s, "ok")
    <3>1. "handler" \in ServiceThreads /\ "main" \in ServiceThreads /\ "ok" \in Codes
      BY DEF ServiceThreads, Codes
    <3>2. /\ report' \in [ServiceThreads -> AReport]
          /\ report'["handler"] = [at |-> "state", state |-> s, code |-> "ok"]
          /\ report'["main"] = report["main"]
      BY <2>2, <3>1, BegunReport
    <3> QED
      BY <3>2
  <2> QED
    BY <2>1, <2>2
<1>2. ServiceTypeOK'
  BY <1>1 DEF ServiceTypeOK, AReport
<1>3. ServersAreWatched' /\ NotLaunched'
  BY DEF ServersAreWatched, NotLaunched
<1>4. SaysStopped'
  BY <1>1 DEF SaysStopped, Reporting, ServiceThreads
<1>5. SaysRunning'
  BY DEF SaysRunning, HasStarted
<1>6. LastReport'
  BY <1>1 DEF LastReport, Reporting
<1> QED
  BY <1>2, <1>3, <1>4, <1>5, <1>6

LEMMA HandlerSteps == ASSUME ServiceInv, SendStop \/ SetStopEvent \/ Again PROVE ServiceInv'
<1>1. /\ status.state \in States
      /\ told.state = "RUNNING" => HasStarted
      /\ hand # "idle" => HasStarted
      /\ HasStarted /\ status.state = "STOPPED" => main = "over"
      /\ stopEvent \in {"none", "clear", "set"}
  BY DEF ServiceInv, ServiceTypeOK, SaysRunning, SaysStopped, HasStarted, Status
<1>2. CASE SendStop
  BY <1>1, <1>2, HandlerKeeps DEF SendStop, States
<1>3. CASE SetStopEvent
  BY <1>1, <1>3, HandlerKeeps DEF SetStopEvent, reports, States
<1>4. CASE Again
  BY <1>1, <1>4, HandlerKeeps DEF Again
<1> QED
  BY <1>2, <1>3, <1>4

\* The handler does not report while SvcMain has not got its event.
LEMMA WriteStateKeeps ==
    ASSUME ServiceInv, NEW t \in ServiceThreads, WriteState(t) PROVE ServiceInv'
<1> USE DEF ServiceInv
<1>1. /\ report[t].at = "state" /\ report' = [report EXCEPT ![t].at = "code"]
      /\ raced' = (raced \/ (main = "over" /\ \A u \in ServiceThreads : Reporting(u)))
      /\ UNCHANGED <<starts, main, hand, stopEvent, code, server, exit, session, told>>
      /\ status' = [status EXCEPT !.state = report[t].state]
  BY DEF WriteState, GoesOn, process, servers
<1>2. /\ report' \in [ServiceThreads -> AReport]
      /\ report'[t] = [report[t] EXCEPT !.at = "code"]
      /\ \A u \in ServiceThreads : u # t => report'[u] = report[u]
  BY <1>1 DEF ServiceTypeOK, AReport
<1>3. report[t] \in AReport /\ status \in Status
  BY DEF ServiceTypeOK, AReport
<1>4. /\ report'[t].state = report[t].state /\ report'[t].code = report[t].code
      /\ report'[t].at = "code"
      /\ status' \in Status /\ status'.state = report[t].state /\ status'.code = status.code
  BY <1>1, <1>2, <1>3 DEF AReport, Status
<1>5. ServiceTypeOK'
  BY <1>1, <1>2, <1>4 DEF ServiceTypeOK, AReport
<1>6. ServersAreWatched' /\ NotLaunched'
  BY <1>1 DEF ServersAreWatched, NotLaunched
<1>7. \A u \in ServiceThreads :
        Reporting(u)' <=> Reporting(u)
  BY <1>1, <1>2, <1>4 DEF Reporting
<1>8. SaysStopped'
  BY <1>1, <1>2, <1>4, <1>7 DEF SaysStopped, ServiceThreads, Reporting
<1>9. SaysRunning'
  BY <1>1, <1>2, <1>4, <1>7 DEF SaysRunning, HasStarted, ServiceThreads, Reporting
<1>10. LastReport'
  <2> SUFFICES ASSUME main = "over", ~raced' PROVE LastReport'
    BY <1>1 DEF LastReport
  <2>1. CASE t = "main"
    BY <1>1, <1>2, <1>4, <2>1 DEF LastReport, Reporting, ServiceThreads
  <2>2. CASE t = "handler"
    <3>1. ~Reporting("main")
      BY <1>1, <2>2 DEF Reporting, ServiceThreads
    <3> QED
      BY <1>1, <1>2, <2>2, <3>1 DEF LastReport, Reporting, ServiceThreads
  <2> QED
    BY <2>1, <2>2 DEF ServiceThreads
<1> QED
  BY <1>1, <1>5, <1>6, <1>8, <1>9, <1>10

LEMMA WriteRestKeeps ==
    ASSUME ServiceInv, NEW t \in ServiceThreads, WriteRest(t) PROVE ServiceInv'
<1> USE DEF ServiceInv
<1>1. /\ report[t].at = "code" /\ report' = [report EXCEPT ![t].at = "send"]
      /\ raced' = (raced \/ (main = "over" /\ \A u \in ServiceThreads : Reporting(u)))
      /\ UNCHANGED <<starts, main, hand, stopEvent, code, server, exit, session, told>>
  BY DEF WriteRest, GoesOn, process, servers
<1>2. /\ report' \in [ServiceThreads -> AReport]
      /\ report'[t] = [report[t] EXCEPT !.at = "send"]
      /\ \A u \in ServiceThreads : u # t => report'[u] = report[u]
  BY <1>1 DEF ServiceTypeOK, AReport
<1>3. report[t] \in AReport /\ status \in Status
  BY DEF ServiceTypeOK, AReport
<1>4. /\ report'[t].state = report[t].state /\ report'[t].code = report[t].code
      /\ report'[t].at = "send"
  BY <1>1, <1>2, <1>3 DEF AReport
<1>5. status' \in Status /\ status'.state = status.state /\ status'.code = report[t].code
  <2>1. PICK b \in BOOLEAN :
          status' = [status EXCEPT !.code = report[t].code, !.accepts = b]
    BY DEF WriteRest
  <2> QED
    BY <1>3, <2>1 DEF AReport, Status
<1>6. ServiceTypeOK'
  BY <1>1, <1>2, <1>5 DEF ServiceTypeOK, AReport
<1>7. ServersAreWatched' /\ NotLaunched'
  BY <1>1 DEF ServersAreWatched, NotLaunched
<1>8. \A u \in ServiceThreads : Reporting(u)' <=> Reporting(u)
  BY <1>1, <1>2, <1>4 DEF Reporting
<1>9. SaysStopped'
  <2>1. status.state = "STOPPED" =>
          \/ main \in {"off", "over"}
          \/ main = "create" /\ report["main"].at = "state" /\ t # "main"
    BY <1>1 DEF SaysStopped
  <2>2. ~(main = "create" /\ t = "handler")
    BY <1>1 DEF SaysRunning, HasStarted, Reporting
  <2> QED
    BY <1>1, <1>2, <1>4, <1>5, <1>8, <2>1, <2>2 DEF SaysStopped, ServiceThreads
<1>10. SaysRunning'
  BY <1>1, <1>2, <1>4, <1>5, <1>8 DEF SaysRunning, HasStarted, ServiceThreads
<1>11. LastReport'
  <2> SUFFICES ASSUME main = "over", ~raced' PROVE LastReport'
    BY <1>1 DEF LastReport
  <2>1. CASE t = "main"
    BY <1>1, <1>2, <1>4, <1>5, <2>1 DEF LastReport, Reporting, ServiceThreads
  <2>2. CASE t = "handler"
    <3>1. ~Reporting("main")
      BY <1>1, <2>2 DEF Reporting, ServiceThreads
    <3> QED
      BY <1>1, <1>2, <2>2, <3>1 DEF LastReport, Reporting, ServiceThreads
  <2> QED
    BY <2>1, <2>2 DEF ServiceThreads
<1> QED
  BY <1>1, <1>6, <1>7, <1>9, <1>10, <1>11

LEMMA TellKeeps ==
    ASSUME ServiceInv, NEW t \in ServiceThreads, Tell(t) PROVE ServiceInv'
<1> USE DEF ServiceInv
<1>1. /\ report[t].at = "send" /\ report' = [report EXCEPT ![t].at = "none"]
      /\ raced' = (raced \/ (main = "over" /\ \A u \in ServiceThreads : Reporting(u)))
      /\ UNCHANGED <<starts, main, hand, stopEvent, code, server, exit, session, status>>
      /\ told' = IF told.state = "STOPPED" THEN told ELSE status
  BY DEF Tell, GoesOn, process, servers
<1>2. /\ report' \in [ServiceThreads -> AReport]
      /\ report'[t] = [report[t] EXCEPT !.at = "none"]
      /\ \A u \in ServiceThreads : u # t => report'[u] = report[u]
  BY <1>1 DEF ServiceTypeOK, AReport
<1>3. report[t] \in AReport /\ status \in Status /\ told \in Status
  BY DEF ServiceTypeOK, AReport
<1>4. report'[t].at = "none" /\ report'[t].state = report[t].state
  BY <1>1, <1>2, <1>3 DEF AReport
<1>5. ServiceTypeOK'
  BY <1>1, <1>2, <1>3 DEF ServiceTypeOK, AReport
<1>6. ServersAreWatched' /\ NotLaunched'
  BY <1>1 DEF ServersAreWatched, NotLaunched
<1>7. ~Reporting(t)' /\ Reporting(t)
      /\ \A u \in ServiceThreads : u # t => (Reporting(u)' <=> Reporting(u))
  BY <1>1, <1>2, <1>4 DEF Reporting
<1>8. SaysStopped'
  <2>1. status.state = "STOPPED" =>
          \/ main \in {"off", "over"}
          \/ main = "create" /\ report["main"].at = "state" /\ t # "main"
    BY <1>1 DEF SaysStopped
  <2>2. ~(main = "create" /\ t = "handler")
    BY <1>7 DEF SaysRunning, HasStarted
  <2> QED
    BY <1>1, <1>2, <1>7, <2>1, <2>2 DEF SaysStopped, ServiceThreads
<1>9. SaysRunning'
  BY <1>1, <1>2, <1>7 DEF SaysRunning, HasStarted, ServiceThreads
<1>10. LastReport'
  <2> SUFFICES ASSUME main = "over", ~raced' PROVE LastReport'
    BY <1>1 DEF LastReport
  <2>1. CASE t = "main"
    BY <1>1, <1>2, <1>4, <1>7, <2>1 DEF LastReport, Reporting, ServiceThreads
  <2>2. CASE t = "handler"
    <3>1. ~Reporting("main")
      BY <1>1, <1>7, <2>2 DEF ServiceThreads
    <3> QED
      BY <1>1, <1>2, <2>2, <3>1 DEF LastReport, Reporting, ServiceThreads
  <2> QED
    BY <2>1, <2>2 DEF ServiceThreads
<1> QED
  BY <1>1, <1>5, <1>6, <1>8, <1>9, <1>10

-----------------------------------------------------------------------------
(* Everything else *)

LEMMA StartProcessKeeps == ASSUME ServiceInv, StartProcess PROVE ServiceInv'
<1> USE DEF ServiceInv
<1>1. /\ told.state = "STOPPED" /\ starts < MaxStarts /\ starts' = starts + 1
      /\ told' = [told EXCEPT !.state = "START_PENDING", !.accepts = FALSE]
      /\ status' = [state |-> "STOPPED", code |-> "ok", accepts |-> FALSE]
      /\ report' = [t \in ServiceThreads |->
                       IF t = "main"
                         THEN [at |-> "state", state |-> "START_PENDING", code |-> "ok"]
                         ELSE NoReport]
      /\ main' = "create" /\ hand' = "idle" /\ stopEvent' = "none" /\ code' = "ok"
      /\ raced' = FALSE /\ UNCHANGED <<session, server, exit>>
  BY DEF StartProcess, servers
<1>2. /\ report' \in [ServiceThreads -> AReport]
      /\ report'["main"] = [at |-> "state", state |-> "START_PENDING", code |-> "ok"]
      /\ report'["handler"].at = "none"
  BY <1>1 DEF AReport, NoReport, States, Codes, ServiceThreads
<1>3. told' \in Status /\ told'.state = "START_PENDING"
      /\ status' \in Status /\ status'.state = "STOPPED"
  BY <1>1 DEF ServiceTypeOK, Status, States, Codes
<1>4. starts' \in Processes /\ starts' \in 0 .. MaxStarts
  BY <1>1, StartsAssumption DEF ServiceTypeOK, Processes
<1>5. ServiceTypeOK'
  <2>1. "ok" \in Codes
    BY DEF Codes
  <2> QED
    BY <1>1, <1>2, <1>3, <1>4, <2>1 DEF ServiceTypeOK, AReport
<1>6. ServersAreWatched' /\ NotLaunched'
  <2>1. NotLaunched' /\ server'[starts'] = "none"
    BY <1>1, <1>4 DEF NotLaunched, ServiceTypeOK, Processes
  <2> QED
    BY <1>1, <2>1 DEF ServersAreWatched, SaysStopped
<1>7. SaysStopped' /\ SaysRunning'
  BY <1>1, <1>2, <1>3 DEF SaysStopped, SaysRunning, HasStarted, Reporting, ServiceThreads
<1>8. LastReport'
  BY <1>1 DEF LastReport
<1> QED
  BY <1>4, <1>5, <1>6, <1>7, <1>8

\* Nothing that is reported changes.
LEMMA WorldKeeps ==
    ASSUME ServiceInv, UNCHANGED <<process, reports, raced>>, session' \in BOOLEAN,
           server' \in [Processes -> ServerStates],
           exit' \in [Processes -> {"ok", "server"}],
           \A n \in Processes :
             server'[n] = server[n] \/ (server'[n] = "gone" /\ server[n] # "none")
    PROVE  ServiceInv'
<1> USE DEF ServiceInv, process, reports
<1>1. ServiceTypeOK'
  BY DEF ServiceTypeOK
<1>2. ServersAreWatched' /\ NotLaunched'
  BY DEF ServersAreWatched, NotLaunched
<1>3. SaysStopped' /\ SaysRunning' /\ LastReport'
  BY DEF SaysStopped, SaysRunning, HasStarted, LastReport, Reporting
<1> QED
  BY <1>1, <1>2, <1>3

LEMMA ServiceNextKeeps == ASSUME ServiceInv, [ServiceNext]_serviceVars PROVE ServiceInv'
<1>1. /\ session \in BOOLEAN
      /\ server \in [Processes -> ServerStates]
      /\ exit \in [Processes -> {"ok", "server"}]
  BY DEF ServiceInv, ServiceTypeOK
<1>2. CASE SendStop \/ Handler
  BY <1>2, HandlerSteps DEF Handler
<1>3. ASSUME NEW t \in ServiceThreads, Reporter(t) PROVE ServiceInv'
  BY <1>3, WriteStateKeeps, WriteRestKeeps, TellKeeps DEF Reporter
<1>4. CASE SessionChange
  BY <1>1, <1>4, WorldKeeps DEF SessionChange, servers
<1>5. ASSUME NEW n \in Processes, ServerEnds(n) PROVE ServiceInv'
  <2>1. /\ server' = [server EXCEPT ![n] = "gone"]
        /\ UNCHANGED <<process, reports, session, raced>>
        /\ \E c \in {"ok", "server"} : exit' = [exit EXCEPT ![n] = c]
    BY <1>5 DEF ServerEnds
  <2>2. /\ server' \in [Processes -> ServerStates]
        /\ exit' \in [Processes -> {"ok", "server"}]
        /\ \A m \in Processes :
             server'[m] = server[m] \/ (server'[m] = "gone" /\ server[m] # "none")
    BY <1>1, <1>5, <2>1 DEF ServerEnds, ServerStates
  <2> QED
    BY <1>1, <2>1, <2>2, WorldKeeps
<1>6. CASE UNCHANGED serviceVars
  BY <1>1, <1>6, WorldKeeps DEF serviceVars, servers
<1> QED
  BY <1>2, <1>3, <1>4, <1>5, <1>6, StartProcessKeeps, SvcMainKeeps DEF ServiceNext

LEMMA ServiceInitInv == ServiceInit => ServiceInv
<1> SUFFICES ASSUME ServiceInit PROVE ServiceInv
  OBVIOUS
<1>1. /\ starts = 0 /\ main = "off" /\ hand = "idle" /\ stopEvent = "none" /\ code = "ok"
      /\ session = FALSE /\ raced = FALSE
      /\ told = [state |-> "STOPPED", code |-> "ok", accepts |-> FALSE] /\ status = told
      /\ report = [t \in ServiceThreads |-> NoReport]
      /\ server = [n \in Processes |-> "none"] /\ exit = [n \in Processes |-> "ok"]
  BY DEF ServiceInit
<1>2. report \in [ServiceThreads -> AReport] /\ told \in Status
      /\ \A t \in ServiceThreads : ~Reporting(t)
  BY <1>1 DEF AReport, NoReport, Status, States, Codes, Reporting
<1>3. ServiceTypeOK
  <2>1. "ok" \in Codes /\ starts \in 0 .. MaxStarts
    BY <1>1, StartsAssumption DEF Codes
  <2> QED
    BY <1>1, <1>2, <2>1 DEF ServiceTypeOK, AReport, ServerStates
<1>4. ServersAreWatched /\ LastReport /\ NotLaunched
  BY <1>1 DEF ServersAreWatched, LastReport, NotLaunched
<1>5. SaysStopped /\ SaysRunning
  BY <1>1, <1>2 DEF SaysStopped, SaysRunning, HasStarted, ServiceThreads
<1> QED
  BY <1>1, <1>3, <1>4, <1>5 DEF ServiceInv

LEMMA ServiceInvariance == ServiceSpec => []ServiceInv
<1>1. ServiceInv /\ [ServiceNext]_serviceVars => ServiceInv'
  BY ServiceNextKeeps
<1> QED
  BY ServiceInitInv, <1>1, PTL DEF ServiceSpec

\* Every variable of the service keeps its type.
THEOREM ServiceTypes == ServiceSpec => []ServiceTypeOK
<1>1. ServiceInv => ServiceTypeOK
  BY DEF ServiceInv
<1> QED
  BY <1>1, ServiceInvariance, PTL

\* However a service ends, and however often one is started, a server the terminator
\* was not sent for is watched by the process that has launched it, and a stop that is
\* not reported as a success leaves none behind.
THEOREM Watched == ServiceSpec => []ServersAreWatched
<1>1. ServiceInv => ServersAreWatched
  BY DEF ServiceInv
<1> QED
  BY <1>1, ServiceInvariance, PTL

\* From a stop on, nobody names a state the service has left: neither the handler,
\* nor main once it is over.  Before, main has been heard before the handler speaks.
EndStates == {"STOPPED", "STOP_PENDING"}

NeverBack ==
    /\ Reporting("handler") => report["handler"].state \in EndStates
    /\ main = "over" /\ Reporting("main") => report["main"].state = "STOPPED"
    /\ main \in {"wait", "launch", "watch", "stop"} /\ Reporting("main") =>
         told.state # "RUNNING" /\ hand = "idle" /\ ~Reporting("handler")
    /\ hand = "signal" => report["handler"].at = "state" \/ status.state \in EndStates
    /\ hand = "again" => ~Reporting("handler") /\ status.state \in EndStates
    /\ main = "over" /\ report["main"].at # "state" => status.state \in EndStates
    /\ main = "over" /\ ~Reporting("main") => told.state \in EndStates

\* Every step of the service keeps it.
LEMMA NeverBackStep ==
    ASSUME ServiceInv, NeverBack, [ServiceNext]_serviceVars PROVE NeverBack'
<1> USE DEF ServiceInv
<1>0. "main" \in ServiceThreads /\ "handler" \in ServiceThreads
  BY DEF ServiceThreads
<1>1. CASE StartProcess
  <2>1. main' = "create" /\ hand' = "idle" /\ ~Reporting("handler")'
    BY <1>0, <1>1 DEF StartProcess, Reporting, NoReport
  <2> QED
    BY <2>1 DEF NeverBack
<1>2. CASE Main
  <2>1. /\ UNCHANGED <<hand, told, status>> /\ ~Reporting("main") /\ main # "over"
        /\ main' \in {"wait", "launch", "watch", "stop", "over"}
        /\ \/ report' = report /\ main' # "over"
           \/ Reports("main", "RUNNING", "ok") /\ main = "create" /\ main' = "wait"
           \/ main' = "over" /\ \E c \in Codes : Reports("main", "STOPPED", c)
    BY <1>2 DEF Main, Create, Wait, Launch, Watch, Stop, MainAt, Over, Codes, ServiceTypeOK
  <2>2. main = "create" =>
          hand = "idle" /\ ~Reporting("handler") /\ told.state # "RUNNING"
    BY DEF SaysRunning, HasStarted
  <2>3. CASE report' = report /\ main' # "over"
    BY <2>1, <2>3 DEF NeverBack, Reporting
  <2>4. CASE Reports("main", "RUNNING", "ok") /\ main = "create" /\ main' = "wait"
    <3>1. report'["handler"] = report["handler"]
      BY <1>0, <2>4, BegunReport DEF States, Codes
    <3> QED
      BY <2>1, <2>2, <2>4, <3>1 DEF NeverBack, Reporting
  <2>5. ASSUME main' = "over", NEW c \in Codes, Reports("main", "STOPPED", c)
        PROVE  NeverBack'
    <3>1. /\ report'["handler"] = report["handler"]
          /\ report'["main"] = [at |-> "state", state |-> "STOPPED", code |-> c]
      BY <1>0, <2>5, BegunReport DEF States
    <3> QED
      BY <2>1, <2>5, <3>1 DEF NeverBack, Reporting
  <2> QED
    BY <2>1, <2>3, <2>4, <2>5
<1>3. CASE SendStop
  <2>1. /\ hand' = "signal" /\ UNCHANGED <<main, told, status>>
        /\ told.state = "RUNNING" /\ Reports("handler", "STOP_PENDING", "ok")
    BY <1>3 DEF SendStop
  <2>2. /\ report'["main"] = report["main"]
        /\ report'["handler"] = [at |-> "state", state |-> "STOP_PENDING", code |-> "ok"]
    BY <1>0, <2>1, BegunReport DEF States, Codes
  <2> QED
    BY <2>1, <2>2 DEF NeverBack, Reporting, EndStates
<1>4. CASE SetStopEvent
  BY <1>4 DEF SetStopEvent, NeverBack, reports, Reporting
<1>5. CASE Again
  <2>1. /\ hand = "again" /\ hand' = "idle" /\ UNCHANGED <<main, told, status>>
        /\ Reports("handler", status.state, "ok") /\ status.state \in States
    BY <1>5 DEF Again, ServiceTypeOK, Status
  <2>2. /\ report'["main"] = report["main"]
        /\ report'["handler"] = [at |-> "state", state |-> status.state, code |-> "ok"]
    BY <1>0, <2>1, BegunReport DEF Codes
  <2> QED
    BY <2>1, <2>2 DEF NeverBack, Reporting
<1>6. ASSUME NEW t \in ServiceThreads, Reporter(t) PROVE NeverBack'
  <2>1. /\ Reporting(t) /\ UNCHANGED <<hand, main>>
        /\ \A u \in ServiceThreads : report'[u].state = report[u].state
        /\ \A u \in ServiceThreads : u # t => report'[u] = report[u]
    BY <1>6 DEF Reporter, WriteState, WriteRest, Tell, GoesOn, Reporting, process,
       ServiceTypeOK
  <2>2. \/ /\ report[t].at = "state" /\ report'[t].at = "code"
           /\ status'.state = report[t].state /\ told' = told
        \/ /\ report[t].at = "code" /\ report'[t].at = "send"
           /\ status'.state = status.state /\ told' = told
        \/ /\ report[t].at = "send" /\ report'[t].at = "none"
           /\ status' = status
           /\ told'.state \in EndStates \/ told'.state = status.state
    <3>1. /\ \A x : [report EXCEPT ![t].at = x][t].at = x
          /\ \A x : [status EXCEPT !.state = x].state = x
      BY DEF ServiceTypeOK, Status
    <3>2. CASE WriteState(t)
      BY <3>1, <3>2 DEF WriteState, GoesOn
    <3>3. CASE WriteRest(t)
      <4>1. status'.state = status.state
        BY <3>3 DEF WriteRest, ServiceTypeOK, Status
      <4> QED
        BY <3>1, <3>3, <4>1 DEF WriteRest, GoesOn
    <3>4. CASE Tell(t)
      BY <3>1, <3>4 DEF Tell, GoesOn, EndStates
    <3> QED
      BY <1>6, <3>2, <3>3, <3>4 DEF Reporter
  <2>3. CASE t = "main"
    <3>1. report'["handler"] = report["handler"] /\ Reporting("main")
      BY <1>0, <2>1, <2>3 DEF ServiceThreads
    <3>2. main = "over" =>
            /\ report["main"].state = "STOPPED"
            /\ report'["main"].at # "state" => status'.state \in EndStates
            /\ ~Reporting("main")' => told'.state \in EndStates
      BY <2>2, <2>3, <3>1 DEF NeverBack, Reporting, EndStates
    <3>3. main # "over" => hand = "idle" /\ ~Reporting("handler")
      BY <3>1 DEF NeverBack, SaysRunning, HasStarted, ServiceTypeOK
    <3>4. report'["main"].state = report["main"].state
      BY <1>0, <2>1
    <3>5. CASE main = "over"
      BY <2>1, <2>2, <2>3, <3>1, <3>2, <3>4, <3>5 DEF NeverBack, Reporting, EndStates
    <3>6. CASE main # "over"
      <4>1. Reporting("main")' => told'.state = told.state
        BY <2>2, <2>3 DEF Reporting
      <4> QED
        BY <2>1, <3>1, <3>3, <3>6, <4>1 DEF NeverBack, Reporting
    <3> QED
      BY <3>5, <3>6
  <2>4. CASE t = "handler"
    BY <1>0, <2>1, <2>2, <2>4 DEF NeverBack, Reporting, EndStates
  <2> QED
    BY <2>3, <2>4 DEF ServiceThreads
<1>7. CASE SessionChange \/ (\E n \in Processes : ServerEnds(n)) \/ UNCHANGED serviceVars
  BY <1>7 DEF SessionChange, ServerEnds, serviceVars, process, reports, NeverBack, Reporting
<1> QED
  BY <1>1, <1>2, <1>3, <1>4, <1>5, <1>6, <1>7 DEF ServiceNext, Handler

\* The last report of a service that no other report has raced is that it has
\* stopped, with the code of its main function; and none of one that is over is that
\* it runs or starts, whatever has raced.
THEOREM LastIsTold == ServiceSpec => []LastWord
<1>1. ServiceInit => NeverBack
  BY DEF ServiceInit, NeverBack, Reporting, NoReport, ServiceThreads
<1>2. ServiceInv /\ NeverBack /\ [ServiceNext]_serviceVars => NeverBack'
  BY NeverBackStep
<1>3. ServiceInv /\ NeverBack => LastWord
  BY DEF ServiceInv, LastReport, LastWord, NeverBack, EndStates
<1> QED
  BY <1>1, <1>2, <1>3, ServiceInvariance, PTL DEF ServiceSpec

-----------------------------------------------------------------------------
(* The service: stops *)

Heard == hand = "signal" \/ stopEvent = "set"

\* A state is only named when the stop event is there, or set.
Named(state) ==
    /\ state = "STOP_PENDING" => Heard
    /\ state = "RUNNING" => stopEvent # "none"

Hearing ==
    /\ hand = "again" => stopEvent = "set"
    /\ hand # "idle" => stopEvent # "none"
    /\ main = "create" => stopEvent = "none"
    /\ Named(told.state) /\ Named(status.state)
    /\ \A t \in ServiceThreads : Reporting(t) => Named(report[t].state)

\* Every step of the service keeps it.
LEMMA HearingStep == ASSUME ServiceInv, Hearing, [ServiceNext]_serviceVars PROVE Hearing'
<1> USE DEF ServiceInv
<1>1. CASE StartProcess
  <2>1. /\ told'.state = "START_PENDING" /\ status'.state = "STOPPED"
        /\ hand' = "idle" /\ stopEvent' = "none"
        /\ \A t \in ServiceThreads : Reporting(t)' => report'[t].state = "START_PENDING"
    BY <1>1 DEF StartProcess, ServiceTypeOK, Status, Reporting, NoReport
  <2> QED
    BY <2>1 DEF Hearing, Named
<1>2. CASE Main
  <2>1. /\ UNCHANGED <<hand, told, status>> /\ ~Reporting("main")
        /\ stopEvent' = stopEvent \/ (stopEvent' = "clear" /\ main = "create")
        /\ \/ report' = report
           \/ Reports("main", "RUNNING", "ok") /\ stopEvent' = "clear"
           \/ \E c \in Codes : Reports("main", "STOPPED", c)
    BY <1>2 DEF Main, Create, Wait, Launch, Watch, Stop, MainAt, Over, Codes, ServiceTypeOK
  <2>2. main = "create" => hand = "idle" /\ ~Reporting("handler")
    BY DEF SaysRunning, HasStarted
  <2>3. \A t \in ServiceThreads : Reporting(t)' =>
          \/ t = "handler" /\ report'[t] = report[t] /\ Reporting(t)
          \/ report'[t].state = "STOPPED"
          \/ report'[t].state = "RUNNING" /\ stopEvent' = "clear"
    <3>1. CASE report' = report
      BY <2>1, <3>1 DEF Reporting, ServiceThreads
    <3>2. CASE Reports("main", "RUNNING", "ok") /\ stopEvent' = "clear"
      BY <3>2, BegunReport DEF ServiceThreads, States, Codes, Reporting
    <3>3. ASSUME NEW c \in Codes, Reports("main", "STOPPED", c)
          PROVE  \A t \in ServiceThreads :
                    \/ t = "handler" /\ report'[t] = report[t]
                    \/ report'[t].state = "STOPPED"
      <4>1. "main" \in ServiceThreads /\ "STOPPED" \in States
        BY DEF ServiceThreads, States
      <4>2. /\ report'["main"] = [at |-> "state", state |-> "STOPPED", code |-> c]
            /\ \A u \in ServiceThreads : u # "main" => report'[u] = report[u]
        BY <3>3, <4>1, BegunReport
      <4> QED
        BY <4>2 DEF ServiceThreads
    <3> QED
      BY <2>1, <3>1, <3>2, <3>3 DEF Reporting
  <2>4. main = "create" => "STOP_PENDING" \notin {told.state, status.state}
    BY <2>2 DEF Hearing, Named, Heard
  <2>5. main' # "create"
    BY <1>2 DEF Main, Create, Wait, Launch, Watch, Stop, MainAt, Over
  <2> QED
    BY <2>1, <2>2, <2>3, <2>4, <2>5 DEF Hearing, Named, Heard
<1>3. CASE SendStop
  <2>1. /\ hand = "idle" /\ hand' = "signal" /\ UNCHANGED <<stopEvent, told, status>>
        /\ stopEvent # "none" /\ main' = main
    BY <1>3 DEF SendStop, Hearing, Named
  <2>2. \A t \in ServiceThreads : Reporting(t)' =>
          report'[t].state = "STOP_PENDING" \/ (Reporting(t) /\ report'[t] = report[t])
    BY <1>3, BegunReport DEF SendStop, ServiceThreads, States, Codes, Reporting
  <2> QED
    BY <2>1, <2>2 DEF Hearing, Named, Heard
<1>4. CASE SetStopEvent
  <2>1. /\ hand = "signal" /\ hand' = "again" /\ stopEvent' = "set"
        /\ UNCHANGED <<told, status, report>> /\ main' # "create"
    BY <1>4 DEF SetStopEvent, Hearing, reports, SaysRunning, HasStarted
  <2> QED
    BY <2>1 DEF Hearing, Named, Heard, Reporting
<1>5. CASE Again
  <2>1. /\ hand = "again" /\ hand' = "idle" /\ UNCHANGED <<stopEvent, told, status>>
        /\ stopEvent = "set"
    BY <1>5 DEF Again, Hearing
  <2>2. \A t \in ServiceThreads : Reporting(t)' =>
          report'[t].state = status.state \/ (Reporting(t) /\ report'[t] = report[t])
    <3>1. Reports("handler", status.state, "ok") /\ status.state \in States
      BY <1>5 DEF Again, ServiceTypeOK, Status
    <3>2. "handler" \in ServiceThreads /\ "ok" \in Codes
      BY DEF ServiceThreads, Codes
    <3>3. /\ report'["handler"] = [at |-> "state", state |-> status.state, code |-> "ok"]
          /\ \A u \in ServiceThreads : u # "handler" => report'[u] = report[u]
      BY <3>1, <3>2, BegunReport
    <3> QED
      BY <3>3 DEF Reporting
  <2>3. main' = main
    BY <1>5 DEF Again
  <2> QED
    BY <2>1, <2>2, <2>3 DEF Hearing, Named, Heard
<1>6. ASSUME NEW t \in ServiceThreads, Reporter(t) PROVE Hearing'
  <2>1. /\ Reporting(t) /\ UNCHANGED <<hand, stopEvent, main>>
        /\ \A u \in ServiceThreads :
              (Reporting(u)' => Reporting(u)) /\ report'[u].state = report[u].state
    BY <1>6 DEF Reporter, WriteState, WriteRest, Tell, GoesOn, Reporting, process,
       ServiceTypeOK
  <2>2. /\ status'.state \in {status.state, report[t].state}
        /\ told'.state \in {told.state, status.state}
    BY <1>6 DEF Reporter, WriteState, WriteRest, Tell, ServiceTypeOK, Status
  <2> QED
    BY <2>1, <2>2 DEF Hearing, Named, Heard
<1>7. CASE SessionChange \/ (\E n \in Processes : ServerEnds(n)) \/ UNCHANGED serviceVars
  <2>1. UNCHANGED <<hand, stopEvent, main, told, status, report>>
    BY <1>7 DEF SessionChange, ServerEnds, serviceVars, process, reports
  <2> QED
    BY <2>1 DEF Hearing, Named, Heard, Reporting
<1> QED
  BY <1>1, <1>2, <1>3, <1>4, <1>5, <1>6, <1>7 DEF ServiceNext, Handler

\* No stop is lost: from the report that says STOP_PENDING on, the event that wakes
\* the service is set, or about to be.
THEOREM StopsAreHeard == ServiceSpec => []StopIsHeard
<1>1. ServiceInit => Hearing
  BY DEF ServiceInit, Hearing, Named, Reporting, NoReport
<1>2. ServiceInv /\ Hearing /\ [ServiceNext]_serviceVars => Hearing'
  BY HearingStep
<1>3. Hearing => StopIsHeard
  BY DEF Hearing, Named, Heard, StopIsHeard
<1> QED
  BY <1>1, <1>2, <1>3, ServiceInvariance, PTL DEF ServiceSpec
=============================================================================
