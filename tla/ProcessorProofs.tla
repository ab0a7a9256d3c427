--------------------------- MODULE ProcessorProofs ---------------------------
(***************************************************************************)
(* The safety properties of Processor, for calls and frames without bound. *)
(*                                                                         *)
(* The invariant says where the processor and its thread are while the     *)
(* system's call goes on (Places), that a set stop event leaves nobody     *)
(* waiting and stays set until the processor is replaced (Stopping), which *)
(* steps of a request work with a processor (Holding), that the flag of a  *)
(* request reaches the event (Served), and that a processor whose requests *)
(* have all come back with their frames is clean between them (Clean).     *)
(***************************************************************************)
EXTENDS Processor, TLAPS

\* The thread has seen the flag and not yet answered it.
Busy == thread \in {"copy", "copying", "clear", "signal"}

\* The request has set its flag and waits.
Open == req \in {"enterWait", "wait"} /\ hold = "current"

\* The request has issued its flag, and has not come back.
InUse == req \in {"enterWait", "wait", "aborted"} /\ hold = "current"

Places ==
    /\ sys = "idle" => proc \in {"null", "started"}
    /\ sys \in {"joinOld", "join"} => proc = "started"
    /\ sys = "create" => proc \in {"null", "started"}
    /\ sys = "create" => thread \in {"none", "exited"}
    /\ sys = "arm" => proc = "new"
    /\ sys = "launch" => proc = "armed"
    /\ proc # "started" => thread \in {"none", "exited"}
    /\ proc = "started" => thread # "none"

Stopping ==
    /\ thread \in {"delete", "exited"} => stop
    /\ sys \in {"joinOld", "join"} => stop
    /\ sys = "create" /\ proc = "started" => stop
    /\ Waiting => ~stop /\ ~frameReady /\ proc # "new"

Holding ==
    /\ hold = "current" => proc # "null"
    /\ hold # "none" => req \notin {"idle", "call"}

Served ==
    Open => frameRequested \/ frameReady \/ stop \/ thread = "signal"

Clean ==
    ~gaveUp /\ proc # "null" =>
        /\ ~InUse => ~frameRequested /\ ~frameReady /\ ~Busy
        /\ req = "read" /\ hold = "current" => copied
        /\ Open /\ frameRequested =>
             ~frameReady /\ thread # "signal" /\ (thread = "clear" => copied)
        /\ Open /\ ~frameRequested =>
             copied /\ thread \notin {"copy", "copying", "clear"}
        /\ Open /\ frameReady => ~Busy

IInv == TypeOK /\ Places /\ Stopping /\ Holding /\ Served /\ Clean

LEMMA InitIInv == Init => IInv
  BY DEF Init, IInv, TypeOK, Places, Stopping, Holding, Served, Clean, InUse,
         Open, Busy, Waiting

\* The types, variable by variable, where one step is too much for a prover.
LEMMA TypeKept ==
    ASSUME TypeOK,
           \/ Clear
           \/ RequestFlags \/ WaitTakesReady \/ WaitTimesOut \/ RequestAborted
    PROVE  TypeOK'
<1> USE DEF TypeOK, Clear, RequestFlags, WaitTakesReady, WaitTimesOut,
            RequestAborted, ThreadGoto, ReqGoto, GivesUp, Returns, events,
            history
<1>1. enabled' \in BOOLEAN
  OBVIOUS
<1>2. frameRequested' \in BOOLEAN
  OBVIOUS
<1>3. frameReady' \in BOOLEAN
  OBVIOUS
<1>4. stop' \in BOOLEAN
  OBVIOUS
<1>5. copied' \in BOOLEAN
  OBVIOUS
<1>6. gaveUp' \in BOOLEAN
  OBVIOUS
<1>7. /\ proc' \in {"null", "new", "armed", "started"}
      /\ texture' \in {"none", "frame"}
      /\ thread' \in {"none", "acquire", "pending", "copy", "copying",
                      "clear", "signal", "finish", "exit", "delete",
                      "exited"}
      /\ sys' \in {"idle", "joinOld", "create", "arm", "launch", "join"}
      /\ req' \in {"idle", "call", "flag", "enterWait", "wait", "read",
                   "aborted"}
      /\ hold' \in {"none", "current", "freed"}
      /\ result' \in {"none", "off", "error", "noUpdates", "frame"}
      /\ fault' \in {"none", "null", "freed", "torn"}
  OBVIOUS
<1> HIDE DEF Clear, RequestFlags, WaitTakesReady, WaitTimesOut, RequestAborted
<1> QED
  BY <1>1, <1>2, <1>3, <1>4, <1>5, <1>6, <1>7

\* Every step of the system's calls keeps the invariant.
LEMMA SystemIInv ==
    ASSUME IInv, System
    PROVE  IInv'
<1> USE DEF IInv, TypeOK, Places, Stopping, Holding, Served, Clean, InUse,
            Open, Busy, Waiting, SysGoto, events, history
<1>1. CASE Commit
  BY <1>1 DEF Commit
<1>2. CASE AssignStops
  BY <1>2 DEF AssignStops, SetsStop
<1>3. CASE AssignFirst
  BY <1>3 DEF AssignFirst
<1>4. CASE JoinOld
  BY <1>4 DEF JoinOld
<1>5. CASE Create
  <2> USE <1>5 DEF Create, Frees
  <2>1. TypeOK'
    OBVIOUS
  <2>2. Places'
    OBVIOUS
  <2>3. Stopping'
    OBVIOUS
  <2>4. Holding'
    OBVIOUS
  <2>5. Served'
    OBVIOUS
  <2>6. Clean'
    OBVIOUS
  <2> QED
    BY <2>1, <2>2, <2>3, <2>4, <2>5, <2>6
<1>6. CASE CreateEvents
  BY <1>6 DEF CreateEvents
<1>7. CASE CreateThread
  BY <1>7 DEF CreateThread
<1>8. CASE AssignFails
  BY <1>8 DEF AssignFails, Frees
<1>9. CASE UnassignStops
  BY <1>9 DEF UnassignStops, SetsStop
<1>10. CASE Unassign
  BY <1>10 DEF Unassign, Frees
<1> QED
  BY <1>1, <1>2, <1>3, <1>4, <1>5, <1>6, <1>7, <1>8, <1>9, <1>10
  DEF System

\* Every step of the processor's thread keeps the invariant.
LEMMA ThreadIInv ==
    ASSUME IInv, Thread
    PROVE  IInv'
<1> USE DEF IInv, TypeOK, Places, Stopping, Holding, Served, Clean, InUse,
            Open, Busy, Waiting, ThreadGoto, events, history
<1>1. CASE Acquires
  BY <1>1 DEF Acquires
<1>2. CASE AcquirePending
  BY <1>2 DEF AcquirePending
<1>3. CASE AcquireFails
  BY <1>3 DEF AcquireFails
<1>4. CASE PendingEnds
  BY <1>4 DEF PendingEnds
<1>5. CASE PendingStops
  BY <1>5 DEF PendingStops
<1>6. CASE CopyBegins
  BY <1>6 DEF CopyBegins
<1>7. CASE CopyEnds
  BY <1>7 DEF CopyEnds
<1>8. CASE CopyFails
  BY <1>8 DEF CopyFails
<1>9. CASE Clear
  <2> USE <1>9 DEF Clear
  <2>1. TypeOK'
    BY TypeKept
  <2>2. Places'
    OBVIOUS
  <2>3. Stopping'
    OBVIOUS
  <2>4. Holding'
    OBVIOUS
  <2>5. Served'
    OBVIOUS
  <2>6. Clean'
    OBVIOUS
  <2> QED
    BY <2>1, <2>2, <2>3, <2>4, <2>5, <2>6
<1>10. CASE Signal
  <2> USE <1>10 DEF Signal, SetsReady
  <2>1. TypeOK'
    OBVIOUS
  <2>2. Places'
    OBVIOUS
  <2>3. Stopping'
    OBVIOUS
  <2>4. Holding'
    OBVIOUS
  <2>5. Served'
    OBVIOUS
  <2>6. Clean'
    OBVIOUS
  <2> QED
    BY <2>1, <2>2, <2>3, <2>4, <2>5, <2>6
<1>11. CASE Finishes
  BY <1>11 DEF Finishes
<1>12. CASE Exit
  BY <1>12 DEF Exit, SetsStop
<1>13. CASE DeleteSwapChain
  BY <1>13 DEF DeleteSwapChain
<1> QED
  BY <1>1, <1>2, <1>3, <1>4, <1>5, <1>6, <1>7, <1>8, <1>9, <1>10, <1>11,
     <1>12, <1>13
  DEF Thread

\* Every step of a request keeps the invariant.
LEMMA RequestIInv ==
    ASSUME IInv, Request
    PROVE  IInv'
<1> USE DEF IInv, TypeOK, Places, Stopping, Holding, Served, Clean, InUse,
            Open, Busy, Waiting, ReqGoto, events, history
<1>1. CASE RequestOff
  BY <1>1 DEF RequestOff, Returns
<1>2. CASE RequestChecks
  BY <1>2 DEF RequestChecks
<1>3. CASE RequestCalls
  BY <1>3 DEF RequestCalls
<1>4. CASE RequestFlags
  <2> USE <1>4 DEF RequestFlags
  <2>1. TypeOK'
    BY TypeKept
  <2>2. Places'
    OBVIOUS
  <2>3. Stopping'
    OBVIOUS
  <2>4. Holding'
    OBVIOUS
  <2>5. Served'
    OBVIOUS
  <2>6. Clean'
    OBVIOUS
  <2> QED
    BY <2>1, <2>2, <2>3, <2>4, <2>5, <2>6
<1>5. CASE WaitTakesReady
  <2> USE <1>5 DEF WaitTakesReady
  <2>1. TypeOK'
    BY TypeKept
  <2>2. Places'
    OBVIOUS
  <2>3. Stopping'
    OBVIOUS
  <2>4. Holding'
    OBVIOUS
  <2>5. Served'
    OBVIOUS
  <2>6. Clean'
    OBVIOUS
  <2> QED
    BY <2>1, <2>2, <2>3, <2>4, <2>5, <2>6
<1>6. CASE WaitSeesStop
  <2> USE <1>6 DEF WaitSeesStop
  <2>1. TypeOK'
    OBVIOUS
  <2>2. Places'
    OBVIOUS
  <2>3. Stopping'
    OBVIOUS
  <2>4. Holding'
    OBVIOUS
  <2>5. Served'
    OBVIOUS
  <2>6. Clean'
    OBVIOUS
  <2> QED
    BY <2>1, <2>2, <2>3, <2>4, <2>5, <2>6
<1>7. CASE WaitBlocks
  <2> USE <1>7 DEF WaitBlocks
  <2>1. TypeOK'
    OBVIOUS
  <2>2. Places'
    OBVIOUS
  <2>3. Stopping'
    OBVIOUS
  <2>4. Holding'
    OBVIOUS
  <2>5. Served'
    OBVIOUS
  <2>6. Clean'
    OBVIOUS
  <2> QED
    BY <2>1, <2>2, <2>3, <2>4, <2>5, <2>6
<1>8. CASE WaitFails
  <2> USE <1>8 DEF WaitFails, GivesUp, Returns
  <2>1. TypeOK'
    OBVIOUS
  <2>2. Places'
    OBVIOUS
  <2>3. Stopping'
    OBVIOUS
  <2>4. Holding'
    OBVIOUS
  <2>5. Served'
    OBVIOUS
  <2>6. Clean'
    OBVIOUS
  <2> QED
    BY <2>1, <2>2, <2>3, <2>4, <2>5, <2>6
<1>9. CASE WaitTimesOut
  <2> USE <1>9 DEF WaitTimesOut, GivesUp, Returns
  <2>1. TypeOK'
    BY TypeKept
  <2>2. Places'
    OBVIOUS
  <2>3. Stopping'
    OBVIOUS
  <2>4. Holding'
    OBVIOUS
  <2>5. Served'
    OBVIOUS
  <2>6. Clean'
    OBVIOUS
  <2> QED
    BY <2>1, <2>2, <2>3, <2>4, <2>5, <2>6
<1>10. CASE RequestAborted
  <2> USE <1>10 DEF RequestAborted, GivesUp, Returns
  <2>1. TypeOK'
    BY TypeKept
  <2>2. Places'
    OBVIOUS
  <2>3. Stopping'
    OBVIOUS
  <2>4. Holding'
    OBVIOUS
  <2>5. Served'
    OBVIOUS
  <2>6. Clean'
    OBVIOUS
  <2> QED
    BY <2>1, <2>2, <2>3, <2>4, <2>5, <2>6
<1>11. CASE RequestReads
  <2> USE <1>11 DEF RequestReads, Returns
  <2>1. TypeOK'
    OBVIOUS
  <2>2. Places'
    OBVIOUS
  <2>3. Stopping'
    OBVIOUS
  <2>4. Holding'
    OBVIOUS
  <2>5. Served'
    OBVIOUS
  <2>6. Clean'
    OBVIOUS
  <2> QED
    BY <2>1, <2>2, <2>3, <2>4, <2>5, <2>6
<1>12. CASE RequestReadsTorn
  BY <1>12 DEF RequestReadsTorn
<1>13. CASE RequestUsesFreed
  BY <1>13 DEF RequestUsesFreed
<1> QED
  BY <1>1, <1>2, <1>3, <1>4, <1>5, <1>6, <1>7, <1>8, <1>9, <1>10, <1>11,
     <1>12, <1>13
  DEF Request

LEMMA NextIInv == IInv /\ [Next]_vars => IInv'
<1> SUFFICES ASSUME IInv, [Next]_vars PROVE IInv'
  OBVIOUS
<1>1. CASE UNCHANGED vars
  BY <1>1
  DEF vars, events, history, IInv, TypeOK, Places, Stopping, Holding, Served,
      Clean, InUse, Open, Busy, Waiting
<1>2. CASE Next
  BY <1>2, SystemIInv, ThreadIInv, RequestIInv DEF Next
<1> QED
  BY <1>1, <1>2

THEOREM Invariance == Spec => []IInv
  BY InitIInv, NextIInv, PTL DEF Spec

-----------------------------------------------------------------------------
(* The results *)

\* The variables keep their types.
THEOREM TypeCorrect == Spec => []TypeOK
<1>1. IInv => TypeOK
  BY DEF IInv
<1> QED
  BY <1>1, Invariance, PTL

\* A processor whose thread has ended keeps no request waiting.
THEOREM NobodyWaits == Spec => []EndedThreadKeepsNobody
<1>1. IInv => EndedThreadKeepsNobody
  BY DEF IInv, Stopping, EndedThreadKeepsNobody
<1> QED
  BY <1>1, Invariance, PTL

\* A frame is fresh and undisturbed unless a request has returned early.
THEOREM FramesAreFresh == Spec => []FreshUnlessGivenUp
<1>1. IInv => FreshUnlessGivenUp
  BY DEF IInv, Holding, Clean, InUse, Busy, FreshUnlessGivenUp
<1> QED
  BY <1>1, Invariance, PTL

\* The flag of a waiting request is never lost.
THEOREM RequestsAreServed == Spec => []NoLostRequest
<1>1. IInv => NoLostRequest
  BY DEF IInv, Served, Open, NoLostRequest
<1> QED
  BY <1>1, Invariance, PTL

\* The system waits only for a thread that was told to stop, for good.
THEOREM StopsReach == Spec => []JoinedIsStopped
<1>1. IInv => JoinedIsStopped
  BY DEF IInv, Places, Stopping, JoinedIsStopped
<1> QED
  BY <1>1, Invariance, PTL

\* Only a processor that could not be started is freed under a blocked request.
THEOREM WaitsEndFirst == Spec => WokenBeforeFreed
<1>1. IInv /\ [Next]_vars => [Waiting /\ hold' = "freed" => sys = "launch"]_vars
  <2> SUFFICES ASSUME IInv, Next, Waiting, hold' = "freed"
               PROVE  sys = "launch"
    OBVIOUS
  <2> USE DEF IInv, Places, Stopping, Holding, Waiting
  <2>1. CASE System
    BY <2>1
    DEF System, Commit, AssignStops, AssignFirst, JoinOld, Create,
        CreateEvents, CreateThread, AssignFails, UnassignStops, Unassign,
        SysGoto, Frees
  <2>2. CASE Thread
    BY <2>2
    DEF Thread, Acquires, AcquirePending, AcquireFails, PendingEnds,
        PendingStops, CopyBegins, CopyEnds, CopyFails, Clear, Signal, Finishes,
        Exit, DeleteSwapChain, ThreadGoto
  <2>3. CASE Request
    BY <2>3
    DEF Request, RequestOff, RequestChecks, RequestCalls, RequestFlags,
        WaitTakesReady, WaitSeesStop, WaitBlocks, WaitFails, WaitTimesOut,
        RequestAborted, RequestReads, RequestReadsTorn, RequestUsesFreed,
        ReqGoto, Returns
  <2> QED
    BY <2>1, <2>2, <2>3 DEF Next
<1> QED
  BY <1>1, Invariance, PTL DEF Spec, WokenBeforeFreed
=============================================================================
