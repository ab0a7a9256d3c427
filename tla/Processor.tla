------------------------------ MODULE Processor ------------------------------
(***************************************************************************)
(* The frame hand-off of the Windows display driver (MonitorContext and    *)
(* MonitorProcessor), for one monitor.                                     *)
(*                                                                         *)
(* Three threads meet here.  A request of the server asks for a frame and  *)
(* waits for one of two events or a timeout.  The thread of the processor  *)
(* takes buffers from the swap chain and copies one when a frame was       *)
(* asked for.  The system assigns and unassigns swap chains: every         *)
(* assignment stops the processor and replaces it by a new one, whatever a *)
(* request is doing with the old one.  m_pProcessor has no lock.           *)
(*                                                                         *)
(* SetEvent hands an auto-reset event to a thread that waits for it, so    *)
(* the wait of the request ends in the step that sets the event.           *)
(***************************************************************************)

VARIABLES
    enabled,     \* m_enabled
    proc,        \* m_pProcessor: "null", "new" (without events), "armed"
                 \* (events created), "started" (thread created)
    frameRequested,
    frameReady,  \* m_frameReadyEvent is set (auto reset)
    stop,        \* m_stopEvent is set (manual reset)
    texture,     \* m_currentFrame: "none", "frame"
    thread,      \* next step of the processor's thread
    sys,         \* next step of the system's call
    req,         \* next step of the request
    hold,        \* the processor the request works with: "none", "current",
                 \* or "freed"
    result,      \* what the last request has returned
    copied,      \* a copy was made since the request was issued
    gaveUp,      \* a request to this processor has returned without its frame
    fault        \* undefined behaviour met by the request

vars == <<enabled, proc, frameRequested, frameReady, stop, texture, thread,
          sys, req, hold, result, copied, gaveUp, fault>>

events == <<frameReady, stop>>
history == <<copied, gaveUp, fault>>

Init ==
    /\ enabled = FALSE
    /\ proc = "null"
    /\ frameRequested = FALSE
    /\ frameReady = FALSE
    /\ stop = FALSE
    /\ texture = "none"
    /\ thread = "none"
    /\ sys = "idle"
    /\ req = "idle"
    /\ hold = "none"
    /\ result = "none"
    /\ copied = FALSE
    /\ gaveUp = FALSE
    /\ fault = "none"

-----------------------------------------------------------------------------
(* Events *)

\* The request waits in WaitForMultipleObjects of the current processor.
Waiting == req = "wait" /\ hold = "current"

\* Wrong: an auto-reset stop event goes to the one thread that waits for it.
SetsStopOnce ==
    /\ stop' = ~Waiting
    /\ req' = IF Waiting THEN "aborted" ELSE req

\* SetEvent(m_stopEvent): the event stays set.
SetsStop ==
    /\ stop' = TRUE
    /\ req' = IF Waiting THEN "aborted" ELSE req

\* SetEvent(m_frameReadyEvent): a waiting request takes it.
SetsReady ==
    /\ frameReady' = ~Waiting
    /\ req' = IF Waiting THEN "read" ELSE req

-----------------------------------------------------------------------------
(* The system: CommitMode, AssignSwapChain, UnassignSwapChain *)

SysGoto(from, to) ==
    /\ sys = from
    /\ sys' = to

\* The processor object goes while a request may work with it.
Frees == hold' = IF hold = "current" THEN "freed" ELSE hold

\* CommitMode; modes are committed between assignments.
Commit ==
    /\ sys = "idle"
    /\ enabled' \in BOOLEAN
    /\ UNCHANGED <<proc, frameRequested, events, texture, thread, sys, req,
                   hold, result, history>>

\* Assigning stops the processor there is ...
AssignStops ==
    /\ proc # "null"
    /\ SysGoto("idle", "joinOld")
    /\ SetsStop
    /\ UNCHANGED <<enabled, proc, frameRequested, frameReady, texture, thread,
                   hold, result, history>>

\* ... and waits for its thread.
JoinOld ==
    /\ thread = "exited"
    /\ SysGoto("joinOld", "create")
    /\ UNCHANGED <<enabled, proc, frameRequested, events, texture, thread, req,
                   hold, result, history>>

AssignFirst ==
    /\ proc = "null"
    /\ SysGoto("idle", "create")
    /\ UNCHANGED <<enabled, proc, frameRequested, events, texture, thread, req,
                   hold, result, history>>

\* reset(new MonitorProcessor): the pointer changes before Init and Start.
Create ==
    /\ SysGoto("create", "arm")
    /\ proc' = "new"
    /\ frameRequested' = FALSE
    /\ frameReady' = FALSE
    /\ stop' = FALSE
    /\ texture' = "none"
    /\ thread' = "none"
    /\ gaveUp' = FALSE
    /\ Frees
    /\ UNCHANGED <<enabled, req, result, copied, fault>>

\* Init creates the D3D device, Start the events ...
CreateEvents ==
    /\ SysGoto("arm", "launch")
    /\ proc' = "armed"
    /\ UNCHANGED <<enabled, frameRequested, events, texture, thread, req, hold,
                   result, history>>

\* ... and the thread.
CreateThread ==
    /\ SysGoto("launch", "idle")
    /\ proc' = "started"
    /\ thread' = "acquire"
    /\ UNCHANGED <<enabled, frameRequested, events, texture, req, hold, result,
                   history>>

\* Any of these may fail; the processor is given up.
AssignFails ==
    /\ SysGoto("arm", "idle") \/ SysGoto("launch", "idle")
    /\ proc' = "null"
    /\ Frees
    /\ UNCHANGED <<enabled, frameRequested, events, texture, thread, req,
                   result, history>>

\* The system unassigns only a swap chain it has assigned.
UnassignStops ==
    /\ proc = "started"
    /\ SysGoto("idle", "join")
    /\ SetsStop
    /\ UNCHANGED <<enabled, proc, frameRequested, frameReady, texture, thread,
                   hold, result, history>>

Unassign ==
    /\ thread = "exited"
    /\ SysGoto("join", "idle")
    /\ proc' = "null"
    /\ Frees
    /\ UNCHANGED <<enabled, frameRequested, events, texture, thread, req,
                   result, history>>

-----------------------------------------------------------------------------
(* The thread of the processor: ThreadProc, StartPrivate, CopyFrame *)

ThreadGoto(from, to) ==
    /\ thread = from
    /\ thread' = to
    /\ UNCHANGED <<enabled, proc, sys, hold, result, gaveUp, fault>>

\* IddCxSwapChainReleaseAndAcquireBuffer has a buffer.
Acquires ==
    /\ ThreadGoto("acquire", IF frameRequested THEN "copy" ELSE "finish")
    /\ UNCHANGED <<frameRequested, events, texture, req, copied>>

AcquirePending ==
    /\ ThreadGoto("acquire", "pending")
    /\ UNCHANGED <<frameRequested, events, texture, req, copied>>

\* The swap chain cannot be set up or has been abandoned.
AcquireFails ==
    /\ ThreadGoto("acquire", "exit")
    /\ UNCHANGED <<frameRequested, events, texture, req, copied>>

\* A new buffer, or 16 ms have passed.
PendingEnds ==
    /\ ThreadGoto("pending", "acquire")
    /\ UNCHANGED <<frameRequested, events, texture, req, copied>>

PendingStops ==
    /\ stop
    /\ ThreadGoto("pending", "exit")
    /\ UNCHANGED <<frameRequested, events, texture, req, copied>>

\* CreateTexture2D(&m_currentFrame) first lets the old texture go.
CopyBegins ==
    /\ ThreadGoto("copy", "copying")
    /\ texture' = "none"
    /\ UNCHANGED <<frameRequested, events, req, copied>>

CopyEnds ==
    /\ ThreadGoto("copying", "clear")
    /\ texture' = "frame"
    /\ copied' = TRUE
    /\ UNCHANGED <<frameRequested, events, req>>

\* The texture cannot be created; the request is told that there is a frame.
CopyFails ==
    /\ ThreadGoto("copying", "clear")
    /\ copied' = TRUE
    /\ UNCHANGED <<frameRequested, events, texture, req>>

\* Wrong: the request stays marked as open.
ClearForgotten ==
    /\ ThreadGoto("clear", "signal")
    /\ UNCHANGED <<frameRequested, events, texture, req, copied>>

Clear ==
    /\ ThreadGoto("clear", "signal")
    /\ frameRequested' = FALSE
    /\ UNCHANGED <<events, texture, req, copied>>

Signal ==
    /\ ThreadGoto("signal", "finish")
    /\ SetsReady
    /\ UNCHANGED <<frameRequested, stop, texture, copied>>

\* Wrong: the request is marked as served after the event was set.
FinishesClearing ==
    /\ ThreadGoto("finish", "acquire") \/ ThreadGoto("finish", "exit")
    /\ frameRequested' = FALSE
    /\ UNCHANGED <<events, texture, req, copied>>

\* IddCxSwapChainFinishedProcessingFrame
Finishes ==
    /\ ThreadGoto("finish", "acquire") \/ ThreadGoto("finish", "exit")
    /\ UNCHANGED <<frameRequested, events, texture, req, copied>>

\* "Set event to avoid MAX_FRAME_WAIT waiting"
Exit ==
    /\ ThreadGoto("exit", "delete")
    /\ SetsStop
    /\ UNCHANGED <<frameRequested, frameReady, texture, copied>>

\* WdfObjectDelete(m_swapChain)
DeleteSwapChain ==
    /\ ThreadGoto("delete", "exited")
    /\ UNCHANGED <<frameRequested, events, texture, req, copied>>

-----------------------------------------------------------------------------
(* The request: MonitorContext::RequestFrame, MonitorProcessor::RequestFrame *)

ReqGoto(from, to) ==
    /\ fault = "none"
    /\ req = from
    /\ req' = to
    /\ UNCHANGED <<enabled, proc, texture, thread, sys>>

Returns(r) ==
    /\ result' = r
    /\ hold' = "none"

\* m_frameRequested stays set when the request returns without a frame.
GivesUp == gaveUp' = IF hold = "current" THEN TRUE ELSE gaveUp

\* The monitor is off, or has no processor.
RequestOff ==
    /\ ~enabled \/ proc = "null"
    /\ ReqGoto("idle", "idle")
    /\ Returns("off")
    /\ UNCHANGED <<frameRequested, events, history>>

\* The test of m_enabled and m_pProcessor ...
RequestChecks ==
    /\ enabled
    /\ proc # "null"
    /\ ReqGoto("idle", "call")
    /\ UNCHANGED <<frameRequested, events, hold, result, history>>

\* ... and the call through m_pProcessor, which may have changed meanwhile.
RequestCalls ==
    /\ ReqGoto("call", "flag")
    /\ hold' = IF proc = "null" THEN "none" ELSE "current"
    /\ fault' = IF proc = "null" THEN "null" ELSE "none"
    /\ UNCHANGED <<frameRequested, events, result, copied, gaveUp>>

\* InterlockedExchange(&m_frameRequested, true)
RequestFlags ==
    /\ hold = "current"
    /\ ReqGoto("flag", "enterWait")
    /\ frameRequested' = TRUE
    /\ copied' = FALSE
    /\ UNCHANGED <<events, hold, result, gaveUp, fault>>

\* WaitForMultipleObjects takes the first event that is set ...
WaitTakesReady ==
    /\ hold = "current"
    /\ proc # "new"
    /\ frameReady
    /\ ReqGoto("enterWait", "read")
    /\ frameReady' = FALSE
    /\ UNCHANGED <<frameRequested, stop, hold, result, history>>

WaitSeesStop ==
    /\ hold = "current"
    /\ proc # "new"
    /\ ~frameReady
    /\ stop
    /\ ReqGoto("enterWait", "aborted")
    /\ UNCHANGED <<frameRequested, events, hold, result, history>>

WaitBlocks ==
    /\ hold = "current"
    /\ proc # "new"
    /\ ~frameReady
    /\ ~stop
    /\ ReqGoto("enterWait", "wait")
    /\ UNCHANGED <<frameRequested, events, hold, result, history>>

\* ... fails on handles that are still NULL ...
WaitFails ==
    /\ hold = "current"
    /\ proc = "new"
    /\ ReqGoto("enterWait", "idle")
    /\ GivesUp
    /\ Returns("error")
    /\ UNCHANGED <<frameRequested, events, copied, fault>>

\* ... or gives up after MAX_FRAME_WAIT.
WaitTimesOut ==
    /\ ReqGoto("wait", "idle")
    /\ GivesUp
    /\ Returns("noUpdates")
    /\ UNCHANGED <<frameRequested, events, copied, fault>>

\* E_ABORT becomes S_OK with a monitor that is off.
RequestAborted ==
    /\ ReqGoto("aborted", "idle")
    /\ GivesUp
    /\ Returns("off")
    /\ UNCHANGED <<frameRequested, events, copied, fault>>

\* A shared handle to m_currentFrame is made and returned.
RequestReads ==
    /\ hold = "current"
    /\ thread # "copying"
    /\ ReqGoto("read", "idle")
    /\ \/ texture = "frame" /\ Returns("frame")
       \/ Returns("error")
    /\ UNCHANGED <<frameRequested, events, history>>

\* m_currentFrame is replaced while the request works with it.
RequestReadsTorn ==
    /\ hold = "current"
    /\ thread = "copying"
    /\ ReqGoto("read", "read")
    /\ fault' = "torn"
    /\ UNCHANGED <<frameRequested, events, hold, result, copied, gaveUp>>

\* A member of the processor is used after the processor was freed.
RequestUsesFreed ==
    /\ hold = "freed"
    /\ req \in {"flag", "enterWait", "read"}
    /\ ReqGoto(req, req)
    /\ fault' = "freed"
    /\ UNCHANGED <<frameRequested, events, hold, result, copied, gaveUp>>

-----------------------------------------------------------------------------

System ==
    \/ Commit \/ AssignStops \/ AssignFirst \/ JoinOld \/ Create
    \/ CreateEvents \/ CreateThread \/ AssignFails \/ UnassignStops \/ Unassign

Thread ==
    \/ Acquires \/ AcquirePending \/ AcquireFails
    \/ PendingEnds \/ PendingStops
    \/ CopyBegins \/ CopyEnds \/ CopyFails \/ Clear \/ Signal \/ Finishes
    \/ Exit \/ DeleteSwapChain

Request ==
    \/ RequestOff \/ RequestChecks \/ RequestCalls \/ RequestFlags
    \/ WaitTakesReady \/ WaitSeesStop \/ WaitBlocks \/ WaitFails
    \/ WaitTimesOut \/ RequestAborted \/ RequestReads
    \/ RequestReadsTorn \/ RequestUsesFreed

Next == System \/ Thread \/ Request

Spec == Init /\ [][Next]_vars

\* The threads run.  Buffers come at the refresh rate, so the thread, which
\* looks at the stop event only when it has no buffer, runs out of them again
\* and again; WaitForMultipleObjects prefers the event of a new buffer, but not
\* every wait finds it set.
FairSpec ==
    /\ Spec
    /\ WF_vars(Thread)
    /\ SF_vars(AcquirePending)
    /\ SF_vars(PendingStops)
    /\ WF_vars(System /\ sys # "idle")

-----------------------------------------------------------------------------
(* Properties *)

\* Every variable keeps its type.
TypeOK ==
    /\ enabled \in BOOLEAN
    /\ proc \in {"null", "new", "armed", "started"}
    /\ frameRequested \in BOOLEAN
    /\ frameReady \in BOOLEAN
    /\ stop \in BOOLEAN
    /\ texture \in {"none", "frame"}
    /\ thread \in {"none", "acquire", "pending", "copy", "copying", "clear",
                   "signal", "finish", "exit", "delete", "exited"}
    /\ sys \in {"idle", "joinOld", "create", "arm", "launch", "join"}
    /\ req \in {"idle", "call", "flag", "enterWait", "wait", "read", "aborted"}
    /\ hold \in {"none", "current", "freed"}
    /\ result \in {"none", "off", "error", "noUpdates", "frame"}
    /\ copied \in BOOLEAN
    /\ gaveUp \in BOOLEAN
    /\ fault \in {"none", "null", "freed", "torn"}

\* Once its thread has ended, for whatever reason, nobody waits for a frame of
\* this processor any more ("Set event to avoid MAX_FRAME_WAIT waiting").
EndedThreadKeepsNobody ==
    thread \in {"delete", "exited"} => stop /\ ~Waiting

\* A request that was told of a frame gets one that was copied after it asked,
\* and nobody copies over it meanwhile, as long as no request to this processor
\* has returned early (by timeout, stop or failure): the flag of a request that
\* has given up stays set, and its late frame answers the next request while
\* that one has a copy made.
FreshUnlessGivenUp ==
    req = "read" /\ hold = "current" /\ ~gaveUp =>
        copied /\ thread \notin {"copy", "copying"}

\* The flag of a request is cleared before its event is set, so a request that
\* waits is always known to the thread or about to be answered.
NoLostRequest ==
    req \in {"enterWait", "wait"} /\ hold = "current" =>
        frameRequested \/ frameReady \/ stop \/ thread = "signal"

\* A request that blocks on the events of a processor is woken before the
\* processor is freed, except when the processor could not be started.
WokenBeforeFreed ==
    [][Waiting /\ hold' = "freed" => sys = "launch"]_vars

\* A call of the system waits only for a thread that is there, and that cannot
\* miss the stop event: no request can have taken it.
JoinedIsStopped ==
    sys \in {"joinOld", "join"} => stop /\ thread # "none"

\* Assigning and unassigning a swap chain come back: the stop event reaches the
\* thread even when a request was waiting for it, too.
StopEnds ==
    sys \in {"joinOld", "join"} ~> sys = "idle"

\* What the comment in ThreadProc on the order of calls says: after AssignSwapChain
\* or UnassignSwapChain the old processor is freed, and RequestFrame works with
\* the new one.
FreedIsNotUsed == fault # "freed"
=============================================================================
