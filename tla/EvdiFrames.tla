----------------------------- MODULE EvdiFrames -----------------------------
(***************************************************************************)
(* The frames of one session on Linux: monitorRequestFrame, the handlers   *)
(* of EVDI events, and monitorMapCurrent as the frame loop uses them.      *)
(*                                                                         *)
(* The desktop paints, changes the mode and switches the display on and    *)
(* off; the kernel tells of the last two by events, and of the first by    *)
(* the result of a request or, when there was nothing yet, by an event.    *)
(* The handlers run only inside a request that had to wait, one event after*)
(* the other, while the desktop goes on.                                   *)
(*                                                                         *)
(* Abstract: a picture is the mode it was taken in, and rectsCount is 0 or *)
(* 1.                                                                      *)
(*                                                                         *)
(* Its names differ from those of module EvdiDevices, the other half of the*)
(* backend: EvdiDevicesProofs extends both.                                *)
(***************************************************************************)
EXTENDS Integers, Sequences

CONSTANTS
    Modes,      \* geometries of the desktop
    MapLimit,   \* failed mappings in a row that end the session (10)
    QueueLimit  \* bound on the events the kernel holds

ASSUME FramesAssumption ==
    /\ MapLimit \in Nat \ {0}
    /\ QueueLimit \in Nat \ {0}

VARIABLES
    desk,       \* mode of the desktop on this display
    on,         \* the display is on
    dirt,       \* something was painted that was not grabbed
    asked,      \* the kernel owes an update event
    events,     \* events not yet handled
    batch,      \* number of those that evdi_handle_events has read
    pixelsWhenOff, \* the kernel hands out pixels of a display that is off
                \* (one kernel does, another does not: it never changes)
    changed,    \* mode or power have changed since a picture was shown
    ctx,        \* MonitorContext: enabled, mode of the frame buffer, its
                \* picture, rectsCount
    pc,         \* next step of the frame loop
    mapFails,
    told        \* what the device was last told

frameVars == <<desk, on, dirt, asked, events, batch, pixelsWhenOff, changed, ctx, pc,
               mapFails, told>>

desktop == <<desk, on, pixelsWhenOff>>

\* What a frame buffer holds before anything was grabbed into it.
None == "none"

\* The display may be on without an event: see the comment in updateHandler.
FramesInit ==
    /\ desk \in Modes
    /\ on \in BOOLEAN
    /\ dirt = FALSE
    /\ asked = FALSE
    /\ events = <<>>
    /\ batch = 0
    /\ pixelsWhenOff \in BOOLEAN
    /\ changed = TRUE
    /\ \E preferred \in Modes :
         ctx = [enabled |-> FALSE, mode |-> preferred, picture |-> None,
                rects |-> 0]
    /\ pc = "request"
    /\ mapFails = 0
    /\ told = "nothing"

-----------------------------------------------------------------------------
(* The desktop and the kernel *)

program == <<batch, ctx, pc, mapFails, told>>

Emits(e) ==
    /\ Len(events) < QueueLimit
    /\ events' = Append(events, e)

\* An update event is owed once per request.
Paint ==
    /\ on
    /\ dirt' = TRUE
    /\ IF asked THEN Emits([kind |-> "update"]) ELSE UNCHANGED events
    /\ asked' = FALSE
    /\ UNCHANGED <<desktop, changed, program>>

SetMode ==
    /\ desk' \in Modes \ {desk}
    /\ Emits([kind |-> "mode", mode |-> desk'])
    /\ changed' = TRUE
    /\ UNCHANGED <<on, pixelsWhenOff, dirt, asked, program>>

SwitchPower ==
    /\ on' = ~on
    /\ Emits([kind |-> IF on THEN "off" ELSE "on"])
    /\ changed' = TRUE
    /\ UNCHANGED <<desk, pixelsWhenOff, dirt, asked, program>>

-----------------------------------------------------------------------------
(* Grabbing, and the handlers *)

\* evdi_grab_pixels: no rectangles when the buffer does not fit the desktop.
Grab(c) ==
    IF c.mode = desk /\ (on \/ pixelsWhenOff)
      THEN [c EXCEPT !.picture = desk, !.rects = 1]
      ELSE [c EXCEPT !.rects = 0]

\* The frame buffer is replaced; rectsCount is not touched.
ModeHandler(c, mode) == [c EXCEPT !.mode = mode, !.picture = None]

\* Wrong: the event of being switched off is overlooked.
DpmsHandlerLatching(c, isOn) == [c EXCEPT !.enabled = @ \/ isOn]

DpmsHandler(c, isOn) == [c EXCEPT !.enabled = isOn]

\* Wrong: the test is the wrong way round.
UpdateHandlerNegated(c) ==
    IF ~c.enabled THEN Grab(c) ELSE [c EXCEPT !.rects = 0]

UpdateHandler(c) ==
    IF c.enabled THEN Grab(c) ELSE [c EXCEPT !.rects = 0]

\* What the handler of one event makes of c.
Handle(c, e) ==
    CASE e.kind = "mode" -> ModeHandler(c, e.mode)
      [] e.kind = "update" -> UpdateHandler(c)
      [] e.kind \in {"on", "off"} -> DpmsHandler(c, e.kind = "on")

-----------------------------------------------------------------------------
(* monitorRequestFrame *)

\* The next step of the frame loop, and what is not its business.
FrameStep(from, to) ==
    /\ pc = from
    /\ pc' = to
    /\ UNCHANGED desktop

\* evdi_request_update has something: it is grabbed at once.
RequestReady ==
    /\ dirt
    /\ FrameStep("request", "map")
    /\ dirt' = FALSE
    /\ LET grabbed == Grab(ctx) IN
       ctx' = [grabbed EXCEPT !.enabled = @ \/ grabbed.rects # 0]
    /\ UNCHANGED <<batch, changed, asked, events, mapFails, told>>

RequestWaits ==
    /\ ~dirt
    /\ FrameStep("request", "poll")
    /\ asked' = TRUE
    /\ UNCHANGED <<batch, changed, dirt, events, ctx, mapFails, told>>

\* MAX_FRAME_WAIT is over.
PollTimesOut ==
    /\ events = <<>>
    /\ FrameStep("poll", "request")
    /\ told' = IF ctx.enabled THEN told ELSE "off"
    /\ UNCHANGED <<batch, changed, dirt, asked, events, ctx, mapFails>>

PollFails ==
    /\ FrameStep("poll", "request")
    /\ UNCHANGED <<batch, changed, dirt, asked, events, ctx, mapFails, told>>

\* evdi_handle_events reads the events there are ...
ReadEvents ==
    /\ events # <<>>
    /\ FrameStep("poll", "handle")
    /\ batch' = Len(events)
    /\ UNCHANGED <<changed, dirt, asked, events, ctx, mapFails, told>>

\* ... and calls the handler of each; what is grabbed is not dirty any more.
HandleEvent ==
    /\ batch > 0
    /\ FrameStep("handle", "handle")
    /\ batch' = batch - 1
    /\ events' = Tail(events)
    /\ ctx' = Handle(ctx, Head(events))
    /\ dirt' = (dirt /\ ~(Head(events).kind = "update" /\ ctx.enabled))
    /\ UNCHANGED <<changed, asked, mapFails, told>>

EventsHandled ==
    /\ batch = 0
    /\ FrameStep("handle", IF ctx.enabled THEN "map" ELSE "request")
    /\ told' = IF ctx.enabled THEN told ELSE "off"
    /\ UNCHANGED <<batch, changed, dirt, asked, events, ctx, mapFails>>

-----------------------------------------------------------------------------
(* monitorMapCurrent, and what the frame loop does with it *)

CanMap == ctx.enabled /\ ctx.rects # 0

Map ==
    /\ CanMap
    /\ FrameStep("map", "request")
    /\ mapFails' = 0
    /\ told' = ctx.picture
    /\ changed' = (desk # ctx.picture \/ ~on \/ events # <<>>)
    /\ UNCHANGED <<batch, dirt, asked, events, ctx>>

\* The picture cannot be compressed: it was mapped, and nothing is sent.
CompressFails ==
    /\ CanMap
    /\ FrameStep("map", "request")
    /\ mapFails' = 0
    /\ UNCHANGED <<batch, changed, dirt, asked, events, ctx, told>>

MapFails ==
    /\ ~CanMap
    /\ FrameStep("map", IF mapFails + 1 < MapLimit THEN "request" ELSE "ended")
    /\ mapFails' = mapFails + 1
    /\ UNCHANGED <<batch, changed, dirt, asked, events, ctx, told>>

-----------------------------------------------------------------------------

Desktop == Paint \/ SetMode \/ SwitchPower

Loop ==
    \/ RequestReady \/ RequestWaits
    \/ PollTimesOut \/ ReadEvents
    \/ HandleEvent \/ EventsHandled
    \/ Map \/ MapFails

FramesNext == Desktop \/ Loop \/ PollFails \/ CompressFails

FramesSpec == FramesInit /\ [][FramesNext]_frameVars

\* The thread of the session runs, and neither poll nor the compression of a
\* picture fails every time.
FairFramesSpec ==
    /\ FramesSpec
    /\ WF_frameVars(Loop)
    /\ SF_frameVars(PollTimesOut \/ ReadEvents)
    /\ SF_frameVars(Map)

-----------------------------------------------------------------------------
(* Properties *)

\* Every variable keeps its type.
FramesTypeOK ==
    /\ desk \in Modes
    /\ {on, dirt, asked, pixelsWhenOff, changed} \subseteq BOOLEAN
    /\ events \in Seq([kind : {"mode"}, mode : Modes]
                          \cup [kind : {"on", "off", "update"}])
    /\ batch \in 0 .. Len(events)
    /\ ctx \in [enabled : BOOLEAN, mode : Modes, picture : Modes \cup {None},
                rects : {0, 1}]
    /\ pc \in {"request", "poll", "handle", "map", "ended"}
    /\ mapFails \in 0 .. MapLimit
    /\ told \in {"nothing", "off", None} \cup Modes

\* An event like e stands behind the i-th of a queue.
Follows(q, i, e) == \E j \in DOMAIN q : i < j /\ q[j] = e

PowerEvent == [kind |-> IF on THEN "on" ELSE "off"]
ModeEvent == [kind |-> "mode", mode |-> desk]

\* Being switched off is never lost: a session that takes a display for enabled
\* which is off has the event in front of it, and none that says otherwise behind
\* it (given that the kernel has no pixels for a display that is off).
OffIsKnown ==
    ~pixelsWhenOff /\ ~on /\ ctx.enabled =>
        /\ Follows(events, 0, PowerEvent)
        /\ \A i \in DOMAIN events :
              events[i].kind = "on" => Follows(events, i, PowerEvent)

\* The frame buffer fits the desktop, or will when the events are handled.
ModeIsKnown == ctx.mode = desk \/ Follows(events, 0, ModeEvent)

\* From the first change of mode on, the session never loses the mode again.
ModeStaysKnown == [][ModeIsKnown => ModeIsKnown']_frameVars

\* A picture is never shown in another geometry than that it was taken in.
PictureFits == ctx.picture \in {None, ctx.mode}

\* What is painted while a request waits wakes it: nothing waits for the time-out.
PaintWakes == pc = "poll" /\ dirt => Follows(events, 0, [kind |-> "update"])

\* A display that is off for good is not shown as its last picture for ever
\* (given that the kernel has no pixels for a display that is off: otherwise a
\* grab sets enabled again after the event has been handled).
OffIsTold ==
    ~pixelsWhenOff /\ <>[]~on => <>[](told = "off" \/ pc = "ended")

\* A desktop that stays on in one mode and goes on painting is shown again and
\* again, or the session ends over changes made before.
FramesArrive ==
    \A m \in Modes :
        <>[](on /\ desk = m) /\ []<>dirt =>
            \/ <>(pc = "ended" /\ changed)
            \/ []<><<Map /\ told' = m>>_frameVars

\* What the comments at the tests of rectsCount say: no rectangles mean that the
\* mode has changed, hence a buffer with rectangles holds a picture.
FramesAreGrabbed == told # None
=============================================================================
