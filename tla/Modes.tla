------------------------------- MODULE Modes -------------------------------
(***************************************************************************)
(* The mode a device asks for: how it is written into the EDID of its      *)
(* monitor (EDID::setDefaultMode), and what becomes of it, on Windows in   *)
(* the lists of modes the driver offers and in the mode the system         *)
(* commits, on Linux in the limits that EVDI is given.                     *)
(*                                                                         *)
(* The EDID has 12 bits for a width, a height and a blanking and 16 bits   *)
(* for the pixel clock, in units of 10 kHz; the rate is not written, it    *)
(* follows from the clock.                                                 *)
(*                                                                         *)
(* Its names differ from those of module Driver, the other part of the     *)
(* driver: DriverProofs extends both.                                      *)
(***************************************************************************)
EXTENDS Naturals, Sequences

CONSTANTS
    Widths, Heights, Rates, \* what a device may send
    MaxBlank,               \* bound: lines of a vertical blanking
    MaxProduct              \* bound: pixels in a second, blanking included

ASSUME SettingsAssumption ==
    /\ Widths \cup Heights \cup Rates \subseteq Nat
    /\ MaxBlank \in Nat /\ MaxProduct \in Nat

VARIABLES
    asked,       \* the mode of the client, m_preffered on both sides
    blank,       \* lines of its vertical blanking
    edid,        \* its timing in the EDID of the monitor
    platform,    \* "none", "windows" or "linux": where the monitor is connected
    description, \* modes MdEvtParseMonitorDescription has given, none if empty
    targets,     \* modes MdEvtMonitorQueryTargetModes has given, none if empty
    current,     \* the mode that was committed, m_current
    modeEnabled, \* m_enabled
    limits       \* area and rate of pixels EVDI was told

modesVars ==
    <<asked, blank, edid, platform, description, targets, current, modeEnabled, limits>>

Mode(w, h, hz) == [width |-> w, height |-> h, rate |-> hz]
NoMode == Mode(0, 0, 0)
NoTiming == [clock |-> 0, width |-> 0, height |-> 0, blank |-> 0]

ModesInit ==
    /\ asked = NoMode
    /\ blank = 0
    /\ edid = NoTiming
    /\ platform = "none"
    /\ description = <<>>
    /\ targets = <<>>
    /\ current = NoMode
    /\ modeEnabled = FALSE
    /\ limits = [area |-> 0, rate |-> 0]

-----------------------------------------------------------------------------
(* EDID::setDefaultMode *)

HBlank == 80      \* EDID_H_BLANK
MinBlank == 15    \* rbMinVbi

\* Pixels of a picture and of its blanking, and how many there are in a second.
Total(w, h, v) == (w + HBlank) * (h + v)
Product(m, v) == Total(m.width, m.height, v) * m.rate

\* v lines of blanking last EDID_MIN_V_BLANK_US = 460 microseconds.  The rate is
\* taken to be 350 ppm higher: v * 1000000 >= 460.161 * rate * (height + v).
LongEnough(m, v) ==
    v * 1000000 >= 460 * m.rate * (m.height + v)
                     + (161 * m.rate * (m.height + v) + 999) \div 1000

\* The least number of lines that do, but not less than rbMinVbi.
IsBlank(m, v) ==
    /\ v \in MinBlank .. MaxBlank
    /\ LongEnough(m, v)
    /\ v = MinBlank \/ ~LongEnough(m, v - 1)

\* Wrong: the clock counts the pixels that are shown only.
TimingActive(m, v) ==
    [clock |-> ((m.width * m.height * m.rate) \div 10000) % 65536,
     width |-> m.width % 4096, height |-> m.height % 4096, blank |-> v % 4096]

\* Wrong: there are but 8 bits of each size.
TimingLow(m, v) ==
    [clock |-> (Product(m, v) \div 10000) % 65536,
     width |-> m.width % 256, height |-> m.height % 256, blank |-> v % 4096]

\* The fields of the timing.
Timing(m, v) ==
    [clock |-> (Product(m, v) \div 10000) % 65536,
     width |-> m.width % 4096, height |-> m.height % 4096, blank |-> v % 4096]

-----------------------------------------------------------------------------
(* The server *)

Even(n) == n - (n % 2)

\* Client::identify: even sizes, the longer one is the width.
Identify(w, h, hz) ==
    /\ asked = NoMode
    /\ asked' = IF Even(w) < Even(h) THEN Mode(Even(h), Even(w), hz)
                                     ELSE Mode(Even(w), Even(h), hz)
    /\ UNCHANGED <<blank, edid, platform, description, targets, current, modeEnabled,
                   limits>>

\* The EDID of a monitor for the mode that was asked.
Describes ==
    /\ asked # NoMode
    /\ platform = "none"
    /\ blank' \in {v \in MinBlank .. MaxBlank : IsBlank(asked, v)}
    /\ Product(asked, blank') <= MaxProduct
    /\ edid' = Timing(asked, blank')

\* AdapterContext::ConnectMonitor of the driver.
ConnectWindows ==
    /\ Describes
    /\ platform' = "windows"
    /\ UNCHANGED <<asked, description, targets, current, modeEnabled, limits>>

\* adapterConnectMonitor on Linux: EVDI allows modes up to an area and a number
\* of pixels in a second.
ConnectLinux ==
    /\ Describes
    /\ platform' = "linux"
    /\ limits' = [area |-> asked.width * asked.height, rate |-> edid'.clock * 10000]
    /\ UNCHANGED <<asked, description, targets, current, modeEnabled>>

-----------------------------------------------------------------------------
(* The driver *)

\* CUSTOM_EDID_MODES, without the one that is reserved.
FixedModes ==
    <<Mode(1920, 1080, 60), Mode(640, 480, 60), Mode(800, 600, 60), Mode(1024, 768, 60)>>

\* The mode of the EDID.
Decoded(t) ==
    Mode(t.width, t.height, (t.clock * 10000) \div Total(t.width, t.height, t.blank))

\* MdEvtParseMonitorDescription, called with a buffer that is large enough; with
\* a smaller one it tells the number of modes and gives none.
ParseDescription ==
    /\ platform = "windows"
    /\ description' = <<Decoded(edid)>> \o FixedModes
    /\ UNCHANGED <<asked, blank, edid, platform, targets, current, modeEnabled, limits>>

\* Wrong: width and height are exchanged.
QuerySwapped ==
    /\ platform = "windows"
    /\ targets' = <<Mode(asked.height, asked.width, asked.rate)>> \o FixedModes
    /\ UNCHANGED <<asked, blank, edid, platform, description, current, modeEnabled,
                   limits>>

\* MdEvtMonitorQueryTargetModes, likewise.
QueryTargets ==
    /\ platform = "windows"
    /\ targets' = <<asked>> \o FixedModes
    /\ UNCHANGED <<asked, blank, edid, platform, description, current, modeEnabled,
                   limits>>

\* MonitorContext::CommitMode: the system, which has seen both lists, chooses one
\* of the targets, whose divider of the rate is 1.
CommitMode(i) ==
    /\ description # <<>>
    /\ i \in DOMAIN targets
    /\ modeEnabled' = TRUE
    /\ current' = targets[i]
    /\ UNCHANGED <<asked, blank, edid, platform, description, targets, limits>>

\* The path is not active: the mode is left as it is.
CommitOff ==
    /\ description # <<>> /\ targets # <<>>
    /\ modeEnabled' = FALSE
    /\ UNCHANGED <<asked, blank, edid, platform, description, targets, current, limits>>

-----------------------------------------------------------------------------
ModesNext ==
    \/ \E w \in Widths, h \in Heights, hz \in Rates : Identify(w, h, hz)
    \/ ConnectWindows \/ ConnectLinux
    \/ ParseDescription \/ QueryTargets
    \/ (\E i \in DOMAIN targets : CommitMode(i)) \/ CommitOff

ModesSpec == ModesInit /\ [][ModesNext]_modesVars

-----------------------------------------------------------------------------
(* Properties *)

\* The mode fits into the fields of the EDID, and is not one of a thumbnail, for
\* which the unit of the clock is too large.
Fits ==
    /\ asked.width < 4096 /\ asked.height < 4096 /\ blank < 4096
    /\ Product(asked, blank) < 655360000
    /\ HBlank * asked.height + MinBlank * asked.width >= 10000

\* A mode that fits is described with the size that was asked, and with the rate
\* or one less: the rate is exact only where the pixels of a second are a
\* multiple of 10000, the unit of the clock.
OwnModeIsDescribed ==
    description # <<>> /\ Fits =>
        LET d == description[1]
        IN  /\ d.width = asked.width /\ d.height = asked.height
            /\ d.rate \in {asked.rate, asked.rate - 1}
            /\ d.rate = asked.rate <=> Product(asked, blank) % 10000 = 0

\* What EVDI is told allows the mode that was asked, if it fits: the blanking makes
\* up for what the clock loses.
OwnModeAllowed ==
    platform = "linux" /\ Fits =>
        /\ asked.width * asked.height <= limits.area
        /\ asked.width * asked.height * asked.rate <= limits.rate

\* A mode that is committed is one the EDID describes, as the system requires, as
\* long as the mode of the device fits.  The exception is the mode of the device
\* itself, when the pixels of a second are no multiple of 10000: it is described
\* with a rate of one less.
CommittedIsDescribed ==
    modeEnabled /\ Fits =>
        \E i \in DOMAIN description :
            LET d == description[i]
            IN  /\ d.width = current.width /\ d.height = current.height
                /\ \/ d.rate = current.rate
                   \/ /\ current = asked /\ Product(asked, blank) % 10000 # 0
                      /\ d.rate = current.rate - 1
=============================================================================
