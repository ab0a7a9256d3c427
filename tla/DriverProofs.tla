---------------------------- MODULE DriverProofs ----------------------------
(***************************************************************************)
(* The safety properties of the Windows driver: of its monitors (Driver),  *)
(* for any number of sessions, servers and slots, and of their modes       *)
(* (Modes), for every size and rate.                                       *)
(*                                                                         *)
(* Serial is what a synchronous handle gives: one request of a server at a *)
(* time.  Stored says whom a slot can name, whatever the searches do: each *)
(* session at most once, and none that has not stored its monitor yet or   *)
(* whose monitor departs.  Owners holds as long as no two searches overlap:*)
(* the slot a request has found stays free until it takes it, and is its   *)
(* own until it disconnects.  Committed follows a commit: outside of the   *)
(* paths it has still to handle, a monitor is enabled as the desktop uses  *)
(* it, or another commit is due, or a monitor without a slot is known.     *)
(*                                                                         *)
(* What becomes of a mode that fits into the EDID is arithmetic: the clock *)
(* keeps all but less than 10000 pixels of a second, which is less than    *)
(* one picture, and less than what the blanking adds.                      *)
(***************************************************************************)
EXTENDS Driver, Modes, TLAPS

NotYet(s) == st[s] \in {"new", "search", "store", "refused"}

Serial ==
    \A s, t \in Sessions :
        via[s] = via[t] /\ InRequest(s) /\ InRequest(t) => s = t

Stored ==
    /\ \A i, j \in Slot : ~Free(i) /\ slots[i] = slots[j] => i = j
    /\ \A s \in Sessions : NotYet(s) =>
         ~HasSlot(s) /\ s \notin present /\ s \notin paths
    /\ \A s \in Sessions : st[s] = "depart" =>
         /\ leaves[s] \in Sessions
         /\ ~HasSlot(leaves[s])
         /\ ~NotYet(leaves[s])

Owners ==
    ~overlapped =>
        /\ \A s, t \in Sessions : st[s] = "store" /\ st[t] = "store" => s = t
        /\ \A s \in Sessions : st[s] = "store" => Free(idx[s])
        /\ \A s \in Sessions : st[s] \in {"arrive", "returned", "serving"} =>
             slots[idx[s]] = s
        /\ \A s \in Sessions : st[s] # "fault"
        /\ \A i \in Slot : ~Free(i) =>
             st[slots[i]] \in {"arrive", "returned", "serving", "lost"}

Committed ==
    /\ enabled \subseteq present
    /\ ~due => paths \subseteq present
    /\ \A m \in paths : m \in present \/ ~HasSlot(m)
    /\ \/ due
       \/ \E m \in present : ~HasSlot(m)
       \/ \A m \in present \ paths : m \in enabled <=> m \in active

IInv ==
    /\ TypeOK
    /\ Serial
    /\ Stored
    /\ Owners
    /\ Committed

Step(s) ==
    \/ Connecting(s) \/ FrameRequest(s) \/ Disconnecting(s) \/ ThreadFails(s) \/ Abandon(s)

System == Activate \/ CommitBegins \/ Commit \/ CommitNotFound

LEMMA SlotZero == 0 \in Slot
  BY ConstantsAssumption DEF Slot

LEMMA InitIInv == Init => IInv
<1> SUFFICES ASSUME Init PROVE IInv
  OBVIOUS
<1> USE ConstantsAssumption, SlotZero DEF Init
<1>1. TypeOK
  <2>1. due \in BOOLEAN /\ overlapped \in BOOLEAN
    OBVIOUS
  <2> QED
    BY <2>1 DEF TypeOK
<1>2. Serial /\ Stored /\ Owners /\ Committed
  BY DEF Serial, InRequest, Stored, Owners, Committed, Free, HasSlot, NotYet
<1> QED
  BY <1>1, <1>2 DEF IInv

LEMMA TypeKept ==
    ASSUME IInv, NEW s \in Sessions, Step(s)
    PROVE  TypeOK'
<1> USE ConstantsAssumption, SlotZero
    DEF IInv, TypeOK, Goto, Ends, Begins, server, system
<1>1. CASE ConnectCall(s)
  BY <1>1 DEF ConnectCall
<1>2. CASE Search(s)
  <2>1. overlapped' \in BOOLEAN
    BY <1>2, Zenon DEF Search
  <2> QED
    BY <1>2, <2>1 DEF Search
<1>3. CASE SearchFails(s) \/ CreateFails(s) \/ ArriveFails(s) \/ OpenFails(s)
  BY <1>3 DEF SearchFails, CreateFails, ArriveFails, OpenFails
<1>4. CASE Store(s)
  BY <1>4 DEF Store
<1>5. CASE Arrive(s)
  BY <1>5 DEF Arrive
<1>6. CASE Opens(s)
  BY <1>6 DEF Opens
<1>7. CASE FrameRequest(s)
  BY <1>7 DEF FrameRequest
<1>8. CASE Disconnect(s)
  BY <1>8 DEF Disconnect
<1>9. CASE DisconnectNotFound(s)
  BY <1>9 DEF DisconnectNotFound
<1>10. CASE Depart(s)
  BY <1>10 DEF Depart
<1>11. CASE DepartFails(s)
  BY <1>11 DEF DepartFails
<1>12. CASE ThreadFails(s) \/ Abandon(s)
  BY <1>12 DEF ThreadFails, Abandon
<1> QED
  BY <1>1, <1>2, <1>3, <1>4, <1>5, <1>6, <1>7, <1>8, <1>9, <1>10, <1>11, <1>12
  DEF Step, Connecting, Disconnecting

LEMMA SerialKept ==
    ASSUME IInv, NEW s \in Sessions, Step(s)
    PROVE  Serial'
<1> USE DEF IInv, TypeOK, Goto, Ends, InRequest, Serial, server, system
<1>1. CASE ConnectCall(s) \/ FrameRequest(s) \/ Disconnect(s)
           \/ DisconnectNotFound(s)
  BY <1>1 DEF ConnectCall, FrameRequest, Disconnect, DisconnectNotFound, Begins
<1>2. CASE Search(s) \/ SearchFails(s) \/ CreateFails(s) \/ Store(s)
  BY <1>2 DEF Search, SearchFails, CreateFails, Store
<1>3. CASE Arrive(s) \/ ArriveFails(s) \/ Opens(s) \/ OpenFails(s)
  BY <1>3 DEF Arrive, ArriveFails, Opens, OpenFails
<1>4. CASE Depart(s) \/ DepartFails(s) \/ ThreadFails(s) \/ Abandon(s)
  BY <1>4 DEF Depart, DepartFails, ThreadFails, Abandon, InServer
<1> QED
  BY <1>1, <1>2, <1>3, <1>4 DEF Step, Connecting, Disconnecting

LEMMA StoredKept ==
    ASSUME IInv, NEW s \in Sessions, Step(s)
    PROVE  Stored'
<1> USE ConstantsAssumption
    DEF IInv, TypeOK, Goto, Ends, Begins, NotYet, Stored, HasSlot, Free, server,
        system
<1>1. CASE ConnectCall(s) \/ FrameRequest(s) \/ DisconnectNotFound(s)
  BY <1>1 DEF ConnectCall, FrameRequest, DisconnectNotFound
<1>2. CASE Search(s) \/ SearchFails(s) \/ CreateFails(s)
  BY <1>2 DEF Search, SearchFails, CreateFails
<1>3. CASE Store(s)
  BY <1>3 DEF Store
<1>4. CASE Arrive(s) \/ ArriveFails(s) \/ Opens(s) \/ OpenFails(s)
  BY <1>4 DEF Arrive, ArriveFails, Opens, OpenFails
<1>5. CASE Disconnect(s)
  <2>1. idx[s] \in Slot /\ slots[idx[s]] \in Sessions
    BY <1>5 DEF Disconnect
  <2> QED
    BY <1>5, <2>1 DEF Disconnect
<1>6. CASE Depart(s) \/ DepartFails(s) \/ ThreadFails(s) \/ Abandon(s)
  BY <1>6 DEF Depart, DepartFails, ThreadFails, Abandon, InServer
<1> QED
  BY <1>1, <1>2, <1>3, <1>4, <1>5, <1>6 DEF Step, Connecting, Disconnecting

LEMMA OwnersKept ==
    ASSUME IInv, NEW s \in Sessions, Step(s)
    PROVE  Owners'
<1> USE ConstantsAssumption
    DEF IInv, TypeOK, Goto, Ends, Begins, Owners, Free, server, system
<1>1. CASE ConnectCall(s) \/ FrameRequest(s) \/ DisconnectNotFound(s)
  BY <1>1 DEF ConnectCall, FrameRequest, DisconnectNotFound
<1>2. CASE Search(s)
  <2>1. ASSUME ~overlapped' PROVE \A t \in Sessions : st[t] # "store"
    <3>1. \A t \in Sessions : via[t] # via[s] => st[t] # "store"
      BY <1>2, <2>1 DEF Search, SearchesOverlap
    <3>2. \A t \in Sessions : via[t] = via[s] => st[t] # "store"
      BY <1>2 DEF Search, Serial, InRequest
    <3> QED
      BY <3>1, <3>2
  <2>2. ~overlapped' => ~overlapped
    BY <1>2 DEF Search
  <2> QED
    BY <1>2, <2>1, <2>2 DEF Search
<1>3. CASE SearchFails(s) \/ CreateFails(s)
  BY <1>3 DEF SearchFails, CreateFails
<1>4. CASE Store(s)
  BY <1>4 DEF Store
<1>5. CASE Arrive(s) \/ ArriveFails(s) \/ Opens(s) \/ OpenFails(s)
  BY <1>5 DEF Arrive, ArriveFails, Opens, OpenFails
<1>6. CASE Disconnect(s)
  BY <1>6 DEF Disconnect, Stored
<1>7. CASE Depart(s) \/ DepartFails(s) \/ ThreadFails(s) \/ Abandon(s)
  BY <1>7 DEF Depart, DepartFails, ThreadFails, Abandon, InServer
<1> QED
  BY <1>1, <1>2, <1>3, <1>4, <1>5, <1>6, <1>7 DEF Step, Connecting, Disconnecting

LEMMA CommittedKept ==
    ASSUME IInv, NEW s \in Sessions, Step(s)
    PROVE  Committed'
<1> USE DEF IInv, TypeOK, Goto, Ends, Begins, Committed, HasSlot, server, system
<1>1. CASE ConnectCall(s) \/ FrameRequest(s) \/ DisconnectNotFound(s)
  BY <1>1 DEF ConnectCall, FrameRequest, DisconnectNotFound
<1>2. CASE Search(s) \/ SearchFails(s) \/ CreateFails(s)
  BY <1>2 DEF Search, SearchFails, CreateFails
<1>3. CASE Store(s)
  BY <1>3 DEF Store, Stored, NotYet
<1>4. CASE Arrive(s)
  BY <1>4 DEF Arrive
<1>5. CASE ArriveFails(s) \/ Opens(s) \/ OpenFails(s)
  BY <1>5 DEF ArriveFails, Opens, OpenFails
<1>6. CASE Disconnect(s)
  BY <1>6, ConstantsAssumption DEF Disconnect
<1>7. CASE Depart(s)
  BY <1>7 DEF Depart, Stored
<1>8. CASE DepartFails(s) \/ ThreadFails(s) \/ Abandon(s)
  BY <1>8 DEF DepartFails, ThreadFails, Abandon
<1> QED
  BY <1>1, <1>2, <1>3, <1>4, <1>5, <1>6, <1>7, <1>8
  DEF Step, Connecting, Disconnecting

LEMMA SystemKeeps ==
    ASSUME IInv, System
    PROVE  IInv'
<1> USE DEF IInv, TypeOK, server
<1>1. CASE Activate
  BY <1>1
  DEF Activate, Serial, InRequest, Stored, Owners, Committed, NotYet, Free,
      HasSlot
<1>2. CASE CommitBegins
  BY <1>2
  DEF CommitBegins, Serial, InRequest, Stored, Owners, Committed, NotYet, Free,
      HasSlot
<1>3. CASE Commit
  <2>1. PICK m \in paths :
          /\ HasSlot(m)
          /\ paths' = paths \ {m}
          /\ enabled' = IF m \in active THEN enabled \cup {m}
                                        ELSE enabled \ {m}
    BY <1>3 DEF Commit
  <2>2. m \in present
    BY <2>1 DEF Committed
  <2>3. Serial' /\ Stored' /\ Owners'
    BY <1>3, <2>1
    DEF Commit, Serial, InRequest, Stored, Owners, NotYet, Free, HasSlot
  <2>4. Committed'
    BY <1>3, <2>1, <2>2 DEF Commit, Committed, HasSlot
  <2>5. TypeOK'
    BY <1>3, <2>1, <2>2 DEF Commit
  <2> QED
    BY <2>3, <2>4, <2>5
<1>4. CASE CommitNotFound
  BY <1>4
  DEF CommitNotFound, Serial, InRequest, Stored, Owners, Committed, NotYet, Free,
      HasSlot
<1> QED
  BY <1>1, <1>2, <1>3, <1>4 DEF System

LEMMA NextIInv == IInv /\ [Next]_vars => IInv'
<1> SUFFICES ASSUME IInv, [Next]_vars PROVE IInv'
  OBVIOUS
<1>1. CASE UNCHANGED vars
  BY <1>1
  DEF vars, server, system, IInv, TypeOK, Serial, InRequest, Stored, Owners,
      Committed, NotYet, Free, HasSlot
<1>2. ASSUME NEW s \in Sessions, Step(s) PROVE IInv'
  BY <1>2, TypeKept, SerialKept, StoredKept, OwnersKept, CommittedKept DEF IInv
<1>3. ASSUME NEW h \in Handles, Close(h) PROVE IInv'
  BY <1>3
  DEF Close, system, IInv, TypeOK, Serial, InRequest, Stored, Owners, Committed,
      NotYet, Free, HasSlot
<1>4. CASE System
  BY <1>4, SystemKeeps
<1> QED
  BY <1>1, <1>2, <1>3, <1>4 DEF Next, Step, System

THEOREM Invariance == Spec => []IInv
  BY InitIInv, NextIInv, PTL DEF Spec

-----------------------------------------------------------------------------
(* The results *)

\* The variables keep their types.
THEOREM TypeCorrect == Spec => []TypeOK
<1>1. IInv => TypeOK
  BY DEF IInv
<1> QED
  BY <1>1, Invariance, PTL

\* The requests of a session reach its own monitor as long as no two searches
\* for a slot overlap.
THEOREM SlotsAreOwn == Spec => []SlotIsOwn
<1>1. IInv => SlotIsOwn
  BY DEF IInv, Owners, SlotIsOwn
<1> QED
  BY <1>1, Invariance, PTL

\* A session that was refused or has disconnected holds no slot.
THEOREM SlotsReturn == Spec => []SlotsAreGivenBack
<1>1. IInv => SlotsAreGivenBack
  BY DEF IInv, Owners, SlotsAreGivenBack
<1> QED
  BY <1>1, Invariance, PTL

\* When the system has nothing left to commit, the monitors are enabled as the
\* desktop uses them.
THEOREM Commits == Spec => []CommitReachesAll
<1>1. IInv => CommitReachesAll
  BY DEF IInv, TypeOK, Committed, CommitReachesAll
<1> QED
  BY <1>1, Invariance, PTL

-----------------------------------------------------------------------------
(* The modes: arithmetic *)

\* What division leaves.
LEMMA DivBounds ==
    ASSUME NEW a \in Nat, NEW b \in Nat \ {0}
    PROVE  /\ a \div b \in Nat
           /\ b * (a \div b) <= a
           /\ a < b * (a \div b) + b
  BY Z3

\* The clock of a number of pixels, and the pixels it stands for.
LEMMA ClockBounds ==
    ASSUME NEW p \in Nat, p < 655360000
    PROVE  LET c == (p \div 10000) % 65536
           IN  /\ c \in Nat
               /\ c * 10000 <= p /\ p < c * 10000 + 10000
               /\ c * 10000 = p <=> p % 10000 = 0
  BY Z3

LEMMA Monotone ==
    ASSUME NEW t \in Nat, NEW x \in Int, NEW y \in Int, x <= y
    PROVE  t * x <= t * y
  BY Z3

LEMMA Products ==
    ASSUME NEW x \in Nat, NEW y \in Nat
    PROVE  x * y \in Nat
  BY Z3

\* The rate that is read out of a clock which has lost less than a picture.
LEMMA RateIsClose ==
    ASSUME NEW t \in Nat, t >= 10000, NEW hz \in Nat, NEW a \in Nat,
           a <= t * hz, t * hz < a + 10000
    PROVE  /\ a \div t \in {hz, hz - 1}
           /\ a \div t = hz <=> a = t * hz
<1> DEFINE d == a \div t
<1>1. d \in Nat /\ t * d <= a /\ a < t * d + t
  BY DivBounds
<1>2. t * d \in Nat /\ t * hz \in Nat /\ t * (d + 1) = t * d + t
      /\ t * (hz + 1) = t * hz + t /\ t * (hz - 1) = t * hz - t
  BY <1>1, Products, Z3
<1> HIDE DEF d
<1>3. d <= hz
  <2> SUFFICES ASSUME d >= hz + 1 PROVE FALSE
    BY <1>1
  <2>1. t * (hz + 1) <= t * d
    BY <1>1, Monotone
  <2> QED
    BY <1>1, <1>2, <2>1
<1>4. d >= hz - 1
  <2> SUFFICES ASSUME d + 1 <= hz - 1 PROVE FALSE
    BY <1>1
  <2>1. t * (d + 1) <= t * (hz - 1)
    BY <1>1, Monotone
  <2> QED
    BY <1>1, <1>2, <2>1
<1>5. d = hz => a = t * hz
  BY <1>1
<1>6. a = t * hz => d = hz
  <2> SUFFICES ASSUME a = t * hz, d + 1 <= hz PROVE FALSE
    BY <1>1, <1>3
  <2>1. t * (d + 1) <= t * hz
    BY <1>1, Monotone
  <2> QED
    BY <1>1, <1>2, <2>1
<1>7. d \in {hz, hz - 1}
  BY <1>1, <1>3, <1>4
<1> QED
  BY <1>5, <1>6, <1>7 DEF d

-----------------------------------------------------------------------------
(* The invariant *)

Size == [width : Nat, height : Nat, rate : Nat]

\* Both lists come from the mode that was asked, through its EDID or directly.
ModesInv ==
    /\ asked \in Size
    /\ platform # "none" =>
          /\ asked # NoMode
          /\ blank \in Nat /\ blank >= MinBlank
          /\ edid = Timing(asked, blank)
    /\ platform = "linux" =>
          limits = [area |-> asked.width * asked.height, rate |-> edid.clock * 10000]
    /\ description # <<>> =>
          platform = "windows" /\ description = <<Decoded(edid)>> \o FixedModes
    /\ targets # <<>> => platform = "windows" /\ targets = <<asked>> \o FixedModes
    /\ modeEnabled =>
          description # <<>> /\ \E i \in DOMAIN targets : current = targets[i]

LEMMA ModesInitInv == ModesInit => ModesInv
  BY DEF ModesInit, ModesInv, Size, NoMode, Mode

LEMMA ModesNextInv == ModesInv /\ [ModesNext]_modesVars => ModesInv'
<1>1. ASSUME ModesInv, NEW w \in Widths, NEW h \in Heights, NEW hz \in Rates,
             Identify(w, h, hz)
      PROVE  ModesInv'
  <2>1. w \in Nat /\ h \in Nat /\ hz \in Nat
    BY SettingsAssumption
  <2>2. Even(w) \in Nat /\ Even(h) \in Nat
    BY <2>1, Z3 DEF Even
  <2>3. asked' \in Size
    BY <1>1, <2>1, <2>2 DEF Identify, Mode, Size
  <2>4. platform = "none"
    BY <1>1 DEF Identify, ModesInv
  <2> QED
    BY <1>1, <2>3, <2>4 DEF Identify, ModesInv
<1>2. ASSUME ModesInv, Describes
      PROVE  /\ asked # NoMode /\ platform = "none"
             /\ blank' \in Nat /\ blank' >= MinBlank
             /\ edid' = Timing(asked, blank')
  BY <1>2, SettingsAssumption DEF Describes, MinBlank
<1>3. ASSUME ModesInv, ConnectWindows
      PROVE  ModesInv'
  BY <1>2, <1>3 DEF ConnectWindows, ModesInv
<1>4. ASSUME ModesInv, ConnectLinux
      PROVE  ModesInv'
  BY <1>2, <1>4 DEF ConnectLinux, ModesInv
<1>5. ASSUME ModesInv, ParseDescription
      PROVE  ModesInv'
  <2>1. description' # <<>>
    BY <1>5 DEF ParseDescription, FixedModes
  <2> QED
    BY <1>5, <2>1 DEF ParseDescription, ModesInv
<1>6. ASSUME ModesInv, QueryTargets
      PROVE  ModesInv'
  <2>1. modeEnabled => targets # <<>>
    BY <1>6 DEF ModesInv
  <2>2. modeEnabled => targets' = targets
    BY <1>6, <2>1 DEF QueryTargets, ModesInv
  <2>3. targets' # <<>> => platform' = "windows" /\ targets' = <<asked'>> \o FixedModes
    BY <1>6 DEF QueryTargets
  <2>4. modeEnabled' =>
            description' # <<>> /\ \E i \in DOMAIN targets' : current' = targets'[i]
    BY <1>6, <2>2 DEF QueryTargets, ModesInv
  <2> QED
    BY <1>6, <2>3, <2>4 DEF QueryTargets, ModesInv
<1>7. ASSUME ModesInv, NEW i \in DOMAIN targets, CommitMode(i)
      PROVE  ModesInv'
  BY <1>7 DEF CommitMode, ModesInv
<1>8. ASSUME ModesInv, CommitOff
      PROVE  ModesInv'
  BY <1>8 DEF CommitOff, ModesInv
<1>9. ASSUME ModesInv, UNCHANGED modesVars
      PROVE  ModesInv'
  BY <1>9 DEF ModesInv, modesVars
<1> QED
  BY <1>1, <1>3, <1>4, <1>5, <1>6, <1>7, <1>8, <1>9 DEF ModesNext

THEOREM ModesInvariance == ModesSpec => []ModesInv
  BY ModesInitInv, ModesNextInv, PTL DEF ModesSpec

-----------------------------------------------------------------------------
(* A mode that fits *)

\* Its timing, and the sizes of a picture with its blanking.
LEMMA Fitting ==
    ASSUME ModesInv, platform # "none", Fits
    PROVE  LET w == asked.width  h == asked.height  hz == asked.rate
               t == Total(w, h, blank)
           IN  /\ w \in Nat /\ h \in Nat /\ hz \in Nat /\ t \in Nat
               /\ t >= 10000
               /\ edid.width = w /\ edid.height = h /\ edid.blank = blank
               /\ edid.clock \in Nat
               /\ edid.clock * 10000 <= t * hz /\ t * hz < edid.clock * 10000 + 10000
               /\ edid.clock * 10000 = t * hz <=> Product(asked, blank) % 10000 = 0
               /\ t >= w * h + 10000 /\ w * h \in Nat
<1> DEFINE w == asked.width
           h == asked.height
           hz == asked.rate
           t == Total(w, h, blank)
           p == Product(asked, blank)
<1>1. /\ w \in Nat /\ h \in Nat /\ hz \in Nat /\ blank \in Nat /\ blank >= 15
      /\ edid = Timing(asked, blank)
  BY DEF ModesInv, Size, MinBlank
<1>2. /\ w < 4096 /\ h < 4096 /\ blank < 4096 /\ p < 655360000
      /\ 80 * h + 15 * w >= 10000
  BY DEF Fits, HBlank, MinBlank
<1>3. t = w * h + w * blank + 80 * h + 80 * blank
  BY <1>1, Z3 DEF Total, HBlank
<1>4. w * h \in Nat /\ w * blank \in Nat
  BY <1>1, Products
<1>5. w * blank >= 15 * w
  BY <1>1, <1>4, Monotone
<1>6. t \in Nat /\ t >= w * h + 10000 /\ t >= 10000
  BY <1>1, <1>2, <1>3, <1>4, <1>5
<1>7. p = t * hz
  BY DEF Product
<1>8. p \in Nat
  BY <1>1, <1>6, <1>7, Products
<1>9. edid.width = w /\ edid.height = h /\ edid.blank = blank
      /\ edid.clock = (p \div 10000) % 65536
  <2>1. \A n \in Nat : n < 4096 => n % 4096 = n
    BY Z3
  <2>2. w % 4096 = w /\ h % 4096 = h /\ blank % 4096 = blank
    BY <1>1, <1>2, <2>1
  <2> QED
    BY <1>1, <2>2 DEF Timing
<1> HIDE DEF p, t
<1>10. /\ edid.clock \in Nat
       /\ edid.clock * 10000 <= p /\ p < edid.clock * 10000 + 10000
       /\ edid.clock * 10000 = p <=> p % 10000 = 0
  BY <1>2, <1>8, <1>9, ClockBounds
<1> QED
  BY <1>1, <1>4, <1>6, <1>7, <1>9, <1>10 DEF p, t

LEMMA DescribedInv == ModesInv => OwnModeIsDescribed
<1> SUFFICES ASSUME ModesInv, description # <<>>, Fits
             PROVE  /\ description[1].width = asked.width
                    /\ description[1].height = asked.height
                    /\ description[1].rate \in {asked.rate, asked.rate - 1}
                    /\ description[1].rate = asked.rate
                         <=> Product(asked, blank) % 10000 = 0
  BY DEF OwnModeIsDescribed
<1>1. platform # "none" /\ description = <<Decoded(edid)>> \o FixedModes
  BY DEF ModesInv
<1>2. description[1] = Decoded(edid)
  BY <1>1 DEF FixedModes
<1> DEFINE t == Total(asked.width, asked.height, blank)
           a == edid.clock * 10000
<1>3. /\ t \in Nat /\ t >= 10000 /\ asked.rate \in Nat
      /\ a <= t * asked.rate /\ t * asked.rate < a + 10000
      /\ a = t * asked.rate <=> Product(asked, blank) % 10000 = 0
      /\ edid.clock \in Nat
      /\ edid.width = asked.width /\ edid.height = asked.height /\ edid.blank = blank
  BY <1>1, Fitting
<1>4. a \in Nat
  BY <1>3
<1>5. description[1].rate = a \div t
      /\ description[1].width = asked.width /\ description[1].height = asked.height
  BY <1>2, <1>3 DEF Decoded, Mode
<1> HIDE DEF a, t
<1>6. a \div t \in {asked.rate, asked.rate - 1}
      /\ (a \div t = asked.rate <=> a = t * asked.rate)
  BY <1>3, <1>4, RateIsClose
<1> QED
  BY <1>3, <1>5, <1>6

\* The mode a device asks for is the preferred one of its EDID, if it fits: of the
\* same size, and of the same rate or of one less.
THEOREM Described == ModesSpec => []OwnModeIsDescribed
  BY ModesInvariance, DescribedInv, PTL

\* EVDI is told limits that allow the mode that was asked, if it fits.
THEOREM Allowed == ModesSpec => []OwnModeAllowed
<1>1. ModesInv => OwnModeAllowed
  <2> SUFFICES ASSUME ModesInv, platform = "linux", Fits
               PROVE  /\ asked.width * asked.height <= limits.area
                      /\ asked.width * asked.height * asked.rate <= limits.rate
    BY DEF OwnModeAllowed
  <2> DEFINE t == Total(asked.width, asked.height, blank)
             n == asked.width * asked.height
  <2>1. /\ asked.rate \in Nat /\ t \in Nat /\ n \in Nat /\ t >= n + 10000
        /\ edid.clock \in Nat /\ t * asked.rate < edid.clock * 10000 + 10000
    BY Fitting
  <2>2. limits.area = n /\ limits.rate = edid.clock * 10000
    BY DEF ModesInv
  <2> HIDE DEF t, n
  <2>3. n * asked.rate <= limits.rate
    <3>1. CASE asked.rate = 0
      BY <2>1, <2>2, <3>1
    <3>2. CASE asked.rate # 0
      <4>1. asked.rate * (n + 10000) <= asked.rate * t
        BY <2>1, Monotone
      <4>2. asked.rate * (n + 10000) = n * asked.rate + 10000 * asked.rate
            /\ asked.rate * t = t * asked.rate /\ t * asked.rate \in Nat
            /\ n * asked.rate \in Nat
        BY <2>1, Z3
      <4> QED
        BY <2>1, <2>2, <3>2, <4>1, <4>2
    <3> QED
      BY <3>1, <3>2
  <2> QED
    BY <2>1, <2>2, <2>3 DEF n
<1> QED
  BY <1>1, ModesInvariance, PTL

\* A mode that is committed is described by the EDID, if the mode of the device
\* fits: with the same size, and with the same rate but for the mode of the device
\* when its clock is not a multiple of 10 kHz, which is described with one less.
THEOREM CommitsDescribed == ModesSpec => []CommittedIsDescribed
<1>1. ModesInv => CommittedIsDescribed
  <2> SUFFICES ASSUME ModesInv, modeEnabled, Fits
               PROVE  \E i \in DOMAIN description :
                         /\ description[i].width = current.width
                         /\ description[i].height = current.height
                         /\ \/ description[i].rate = current.rate
                            \/ /\ current = asked
                               /\ Product(asked, blank) % 10000 # 0
                               /\ description[i].rate = current.rate - 1
    BY DEF CommittedIsDescribed
  <2>1. PICK i \in DOMAIN targets : current = targets[i]
    BY DEF ModesInv
  <2>2. /\ description = <<Decoded(edid)>> \o FixedModes
        /\ targets = <<asked>> \o FixedModes
        /\ description # <<>>
    BY <2>1 DEF ModesInv
  <2>3. DOMAIN description = 1 .. 5 /\ DOMAIN targets = 1 .. 5
    BY <2>2 DEF FixedModes
  <2>4. CASE i = 1
    <3>1. current = asked
      BY <2>1, <2>2, <2>4 DEF FixedModes
    <3>2. /\ description[1].width = asked.width /\ description[1].height = asked.height
          /\ description[1].rate \in {asked.rate, asked.rate - 1}
          /\ description[1].rate = asked.rate <=> Product(asked, blank) % 10000 = 0
      BY <2>2, DescribedInv DEF OwnModeIsDescribed
    <3> QED
      BY <2>3, <3>1, <3>2
  <2>5. CASE i # 1
    <3>1. description[i] = targets[i]
      BY <2>1, <2>2, <2>3, <2>5 DEF FixedModes
    <3> QED
      BY <2>1, <2>3, <3>1
  <2> QED
    BY <2>4, <2>5
<1> QED
  BY <1>1, ModesInvariance, PTL
=============================================================================
