-------------------------- MODULE EventPumpProofs --------------------------
(***************************************************************************)
(* Input, proved for every keyboard, every scancode table the build can    *)
(* leave on the stack, and every way the interface captures events.        *)
(***************************************************************************)
EXTENDS EventPump, SequenceTheorems, TLAPS

(* Taking the first event leaves the others, one place further on.         *)
LEMMA Dequeued ==
    ASSUME NEW S, NEW s \in Seq(S), s # <<>>
    PROVE /\ Head(s) = s[1] /\ Head(s) \in S
          /\ Tail(s) \in Seq(S)
          /\ Len(s) \in Nat /\ Len(s) >= 1 /\ Len(Tail(s)) = Len(s) - 1
          /\ \A i \in 1..Len(s) - 1 : Tail(s)[i] = s[i + 1]
BY HeadTailProperties

LEMMA Enqueued ==
    ASSUME NEW S, NEW s \in Seq(S), NEW e \in S
    PROVE /\ Append(s, e) \in Seq(S)
          /\ Len(s) \in Nat /\ Len(Append(s, e)) = Len(s) + 1
          /\ \A i \in 1..Len(s) : Append(s, e)[i] = s[i]
          /\ Append(s, e)[Len(s) + 1] = e
BY AppendProperties

LEMMA CodesOfDevices ==
    ASSUME NEW m \in GenerateScancodeMappings, NEW d \in Devices
    PROVE m[d] \in KeyCodes \cup {AnyKey, Garbage}
BY DEF GenerateScancodeMappings

DeviceEvent(kind, d) == [kind |-> kind, device |-> d]

LEMMA DeviceEvents ==
    /\ \A d \in Devices : DeviceEvent("down", d) \in Event /\ DeviceEvent("up", d) \in Event
    /\ \A kind \in {"text", "wheel", "quit"} : [kind |-> kind] \in Event
    /\ \A e \in Event : e.kind \in {"down", "up"} =>
         e.device \in Devices /\ e = DeviceEvent(e.kind, e.device)
BY DEF Event, DeviceEvent

(* What the thread does with an event it does not give to the interface.   *)
LEMMA HandledEvent ==
    ASSUME TypeOK, InputHandles
    PROVE  LET e == sdl[1]
           IN  \/ /\ e.kind \in {"down", "up"} => code[e.device] \notin KeyCodes
                  /\ UNCHANGED <<inputVars, clicks>>
               \/ /\ e.kind = "down" /\ e.device \in Devices /\ code[e.device] \in KeyCodes
                  /\ KeyDown(code[e.device])
                  /\ clicks' = IF code[e.device] = LeftMouse THEN clicks + 1 ELSE clicks
               \/ /\ e.kind = "up" /\ e.device \in Devices /\ code[e.device] \in KeyCodes
                  /\ KeyUp(code[e.device])
                  /\ UNCHANGED clicks
<1> DEFINE e == sdl[1]
<1>1. e = Head(sdl) /\ e \in Event
  BY Dequeued DEF InputHandles, TypeOK
<1>2. LeftMouse \notin {AnyKey, Garbage} /\ LeftMouse \in KeyCodes
      /\ AnyKey \notin KeyCodes /\ Garbage \notin KeyCodes
  BY PumpAssumption
<1>3. CASE e.kind \in {"down", "up"}
  <2>1. e.device \in Devices
    BY <1>1, <1>3, DeviceEvents
  <2>2. code[e.device] \in KeyCodes \cup {AnyKey, Garbage}
    BY <2>1, CodesOfDevices DEF TypeOK
  <2>3. /\ IF Binds(code[e.device])
           THEN IF e.kind = "down" THEN KeyDown(code[e.device]) ELSE KeyUp(code[e.device])
           ELSE UNCHANGED inputVars
        /\ clicks' = IF e.kind = "down" /\ code[e.device] = LeftMouse THEN clicks + 1 ELSE clicks
    BY <1>1, <1>3 DEF InputHandles
  <2> HIDE DEF e
  <2>4. CASE code[e.device] \in KeyCodes
    BY <1>3, <2>1, <2>3, <2>4, Zenon DEF Binds, e
  <2>5. CASE code[e.device] \notin KeyCodes
    BY <1>2, <2>3, <2>5 DEF Binds, e
  <2> QED BY <2>4, <2>5
<1>4. CASE e.kind \notin {"down", "up"}
  <2>1. UNCHANGED <<inputVars, clicks>>
    BY <1>1, <1>2, <1>4 DEF InputHandles, Binds
  <2> QED BY <1>4, <2>1
<1> QED BY <1>3, <1>4

(* The queue, the bit sets and the history keep their types; every click   *)
(* that is counted, or still queued, is one of the events that arrived.    *)
CountInv == clicks + Len(sdl) <= arrived

LEMMA QueueCounts == Spec => [](TypeOK /\ CountInv)
<1> DEFINE TInv == TypeOK /\ CountInv
<1>1. Init => TInv
  <2>1. <<>> \in Seq(Event) /\ Len(<<>>) = 0
    BY EmptySeq
  <2>2. 0 \in 0..MaxArrivals
    BY PumpAssumption
  <2> SUFFICES ASSUME Init PROVE TInv
    OBVIOUS
  <2>3. CountInv
    BY <2>1 DEF Init, CountInv
  <2>4. TypeOK
    BY <2>1, <2>2 DEF Init, TypeOK
  <2> QED BY <2>3, <2>4
<1>2. ASSUME TInv, [Next]_vars PROVE TInv'
  <2> USE <1>2 DEF TypeOK, CountInv
  <2>0. Len(sdl) \in Nat /\ MaxArrivals \in Nat
    BY LenProperties, PumpAssumption
  <2>1. ASSUME NEW e \in Event, Arrive(e), down' \subseteq Devices PROVE TInv'
    <3>1. sdl' \in Seq(Event) /\ Len(sdl') = Len(sdl) + 1
      BY <2>1, Enqueued DEF Arrive
    <3>2. arrived' \in 0..MaxArrivals /\ clicks + Len(sdl') <= arrived'
      BY <2>0, <2>1, <3>1 DEF Arrive
    <3> QED BY <2>1, <3>1, <3>2 DEF Arrive, inputVars
  <2>2. CASE OtherEvent
    BY <2>1, <2>2, DeviceEvents DEF OtherEvent
  <2>3. ASSUME NEW d \in Devices, PushDown(d) \/ AutoRepeat(d) \/ LetGo(d) PROVE TInv'
    <3>1. Arrive(DeviceEvent("down", d)) \/ Arrive(DeviceEvent("up", d))
      BY <2>3 DEF PushDown, AutoRepeat, LetGo, DeviceEvent
    <3>2. down' \subseteq Devices
      BY <2>3 DEF PushDown, AutoRepeat, LetGo
    <3> QED BY <2>1, <3>1, <3>2, DeviceEvents
  <2>4. CASE NewFrame
    BY <2>4 DEF NewFrame, deviceVars
  <2>5. CASE UiConsumes
    <3>1. sdl' \in Seq(Event) /\ Len(sdl') = Len(sdl) - 1
      BY <2>5, Dequeued DEF UiConsumes
    <3> QED BY <2>0, <2>5, <3>1 DEF UiConsumes, Reset
  <2>6. CASE InputHandles
    <3>1. sdl' \in Seq(Event) /\ Len(sdl') = Len(sdl) - 1 /\ Len(sdl) >= 1
      BY <2>6, Dequeued DEF InputHandles
    <3>2. /\ clicks' \in {clicks, clicks + 1}
          /\ pressed' \subseteq KeyCodes /\ released' \subseteq KeyCodes /\ held' \subseteq KeyCodes
      BY <2>6, HandledEvent DEF inputVars, KeyDown, KeyUp
    <3>3. clicks' \in 0..MaxArrivals /\ clicks' + Len(sdl') <= arrived
      BY <2>0, <3>1, <3>2
    <3>4. phase' \in {"frame", "poll", "update", "stopped", "crashed"} /\ quitRequested' \in BOOLEAN
      BY <2>6 DEF InputHandles
    <3> QED BY <2>6, <3>1, <3>2, <3>3, <3>4 DEF InputHandles
  <2>7. CASE PollDone
    <3>1. stats' \in BOOLEAN
      BY <2>7 DEF PollDone
    <3> QED BY <2>7, <3>1 DEF PollDone, deviceVars, inputVars
  <2>8. CASE Update
    <3>1. builds' \in Nat
      BY <2>8 DEF Update
    <3>2. phase' \in {"stopped", "frame"}
      BY <2>8 DEF Update
    <3> QED BY <2>8, <3>1, <3>2 DEF Update, deviceVars, inputVars
  <2>9. CASE UNCHANGED vars
    BY <2>9 DEF vars, deviceVars, inputVars
  <2> QED BY <2>2, <2>3, <2>4, <2>5, <2>6, <2>7, <2>8, <2>9 DEF Next, Thread, Outside, Ended
<1> QED BY <1>1, <1>2, PTL DEF Spec

(* Every variable keeps its type, for every table that is on the stack.    *)
THEOREM TypeCorrect == Spec => []TypeOK
BY QueueCounts, PTL

(* No click builds two towers, and a click the interface took builds none: *)
(* a pending press is covered by a click that has not been used.           *)
THEOREM OneTowerPerClick == Spec => []ClickBuildsOnce
<1>1. Init => ClickBuildsOnce
  BY DEF Init, ClickBuildsOnce
<1>2. ASSUME TypeOK, ClickBuildsOnce, [Next]_vars PROVE ClickBuildsOnce'
  <2> USE <1>2
  <2>0. clicks \in Nat /\ builds \in Nat
    BY PumpAssumption DEF TypeOK
  <2>1. CASE InputHandles
    <3>1. phase = "poll" /\ builds' = builds
      BY <2>1 DEF InputHandles
    <3>2. CASE UNCHANGED <<inputVars, clicks>>
      BY <2>0, <3>1, <3>2 DEF ClickBuildsOnce, inputVars
    <3>3. ASSUME NEW k \in KeyCodes, KeyDown(k),
                 clicks' = IF k = LeftMouse THEN clicks + 1 ELSE clicks
          PROVE  ClickBuildsOnce'
      <4>1. CASE k = LeftMouse
        BY <2>0, <3>1, <3>3, <4>1 DEF ClickBuildsOnce
      <4>2. CASE k # LeftMouse
        BY <2>0, <3>1, <3>3, <4>2 DEF ClickBuildsOnce, KeyDown
      <4> QED BY <4>1, <4>2
    <3>4. ASSUME NEW k \in KeyCodes, KeyUp(k), UNCHANGED clicks PROVE ClickBuildsOnce'
      BY <2>0, <3>1, <3>4 DEF ClickBuildsOnce, KeyUp
    <3> QED BY <2>1, <3>2, <3>3, <3>4, HandledEvent
  <2>2. CASE NewFrame
    BY <2>0, <2>2 DEF NewFrame, ClickBuildsOnce
  <2>3. CASE UiConsumes
    BY <2>0, <2>3 DEF UiConsumes, Reset, ClickBuildsOnce
  <2>4. CASE PollDone
    BY <2>0, <2>4 DEF PollDone, inputVars, ClickBuildsOnce
  <2>5. CASE Update
    <3>1. clicks' = clicks /\ phase = "update" /\ phase' \in {"stopped", "frame"}
      BY <2>5 DEF Update
    <3>2. builds' = builds \/ (LeftMouse \in pressed /\ builds' = builds + 1)
      BY <2>5 DEF Update
    <3> QED BY <2>0, <3>1, <3>2 DEF ClickBuildsOnce
  <2>6. CASE UNCHANGED <<inputVars, phase, clicks, builds>>
    BY <2>6 DEF inputVars, ClickBuildsOnce
  <2> QED BY <2>1, <2>2, <2>3, <2>4, <2>5, <2>6
        DEF Next, Thread, Outside, OtherEvent, PushDown, AutoRepeat, LetGo, Arrive, Ended, vars
<1> QED BY <1>1, <1>2, TypeCorrect, PTL DEF Spec

(* A key that went down is still down, or its release is queued behind.    *)
ReleasedAfter(i) == \E j \in i + 1..Len(sdl) : sdl[j] = DeviceEvent("up", sdl[i].device)

PressesBacked ==
    \A i \in 1..Len(sdl) :
      sdl[i].kind = "down" => sdl[i].device \in down \/ ReleasedAfter(i)

StickyInv == PressesBacked /\ NoStickyKeys

(* What a device does keeps both: presses are queued while the device is   *)
(* down, and a release is queued behind everything it takes back.          *)
LEMMA DevicesKeepBacking ==
    ASSUME TypeOK, StickyInv, NEW e \in Event, Arrive(e), down' \subseteq Devices,
           \/ e.kind \notin {"down", "up"} /\ down' = down
           \/ e.kind = "down" /\ e.device \in down' /\ down \subseteq down'
           \/ \E d \in Devices : e = DeviceEvent("up", d) /\ down' = down \ {d}
    PROVE  StickyInv'
<1>1. /\ Len(sdl) \in Nat /\ Len(sdl') = Len(sdl) + 1
      /\ \A i \in 1..Len(sdl) : sdl'[i] = sdl[i]
      /\ sdl'[Len(sdl) + 1] = e
  BY Enqueued DEF Arrive, TypeOK
<1>2. \A d \in down : d \in down' \/ e = DeviceEvent("up", d)
  OBVIOUS
<1>3. e.kind = "down" => e.device \in down'
  BY DEF DeviceEvent
<1>4. PressesBacked'
  <2> SUFFICES ASSUME NEW i \in 1..Len(sdl'), sdl'[i].kind = "down"
               PROVE  sdl'[i].device \in down'
                      \/ \E j \in i + 1..Len(sdl') : sdl'[j] = DeviceEvent("up", sdl'[i].device)
    BY DEF PressesBacked, ReleasedAfter
  <2>1. CASE i = Len(sdl) + 1
    BY <1>1, <1>3, <2>1
  <2>2. CASE i \in 1..Len(sdl)
    <3>1. sdl'[i] = sdl[i]
      BY <1>1, <2>2
    <3>2. CASE sdl[i].device \in down
      BY <1>1, <1>2, <2>2, <3>1, <3>2
    <3>3. CASE ReleasedAfter(i)
      BY <1>1, <2>2, <3>1, <3>3 DEF ReleasedAfter
    <3> QED BY <2>2, <3>1, <3>2, <3>3 DEF StickyInv, PressesBacked
  <2> QED BY <1>1, <2>1, <2>2
<1>5. \A d \in Devices : ReleaseQueued(d) => ReleaseQueued(d)'
  BY <1>1 DEF ReleaseQueued
<1>6. \A d \in Devices : e = DeviceEvent("up", d) => ReleaseQueued(d)'
  BY <1>1 DEF ReleaseQueued, DeviceEvent
<1>7. NoStickyKeys'
  <2> SUFFICES ASSUME NEW k \in held
               PROVE  \E d \in Devices : code[d] = k /\ (d \in down' \/ ReleaseQueued(d)')
    BY DEF Arrive, inputVars, NoStickyKeys
  <2>1. PICK d \in Devices : code[d] = k /\ (d \in down \/ ReleaseQueued(d))
    BY DEF StickyInv, NoStickyKeys
  <2> QED BY <1>2, <1>5, <1>6, <2>1
<1> QED BY <1>4, <1>7 DEF StickyInv

(* Taking the first event keeps what is queued behind it.                  *)
LEMMA DequeueKeepsBacking ==
    ASSUME TypeOK, StickyInv, sdl # <<>>, sdl' = Tail(sdl), down' = down
    PROVE  /\ PressesBacked'
           /\ \A d \in Devices :
                sdl[1] = DeviceEvent("down", d) => d \in down \/ ReleaseQueued(d)'
           /\ \A d \in Devices :
                ReleaseQueued(d) => sdl[1] = DeviceEvent("up", d) \/ ReleaseQueued(d)'
<1>1. /\ Len(sdl) \in Nat /\ Len(sdl) >= 1 /\ Len(sdl') = Len(sdl) - 1
      /\ \A i \in 1..Len(sdl) - 1 : sdl'[i] = sdl[i + 1]
  BY Dequeued DEF TypeOK
<1>3. PressesBacked'
  <2> SUFFICES ASSUME NEW i \in 1..Len(sdl'), sdl'[i].kind = "down"
               PROVE  sdl'[i].device \in down
                      \/ \E j \in i + 1..Len(sdl') : sdl'[j] = DeviceEvent("up", sdl'[i].device)
    BY DEF PressesBacked, ReleasedAfter
  <2>1. i + 1 \in 1..Len(sdl) /\ sdl'[i] = sdl[i + 1]
    BY <1>1
  <2>2. CASE ReleasedAfter(i + 1)
    <3>1. PICK j \in i + 2..Len(sdl) : sdl[j] = DeviceEvent("up", sdl[i + 1].device)
      BY <1>1, <2>1, <2>2 DEF ReleasedAfter
    <3>2. j - 1 \in i + 1..Len(sdl') /\ sdl'[j - 1] = sdl[j]
      BY <1>1, <3>1
    <3> QED BY <2>1, <3>1, <3>2
  <2> QED BY <2>1, <2>2 DEF StickyInv, PressesBacked
<1>4. ASSUME NEW d \in Devices, NEW i \in 1..Len(sdl), sdl[i] = DeviceEvent("up", d), i > 1
      PROVE  ReleaseQueued(d)'
  <2>1. i - 1 \in 1..Len(sdl') /\ sdl'[i - 1] = DeviceEvent("up", d)
    BY <1>1, <1>4
  <2> QED BY <2>1 DEF ReleaseQueued, DeviceEvent
<1>5. \A d \in Devices : ReleaseQueued(d) => sdl[1] = DeviceEvent("up", d) \/ ReleaseQueued(d)'
  <2> SUFFICES ASSUME NEW d \in Devices, ReleaseQueued(d)
               PROVE  sdl[1] = DeviceEvent("up", d) \/ ReleaseQueued(d)'
    OBVIOUS
  <2>1. PICK i \in 1..Len(sdl) : sdl[i] = DeviceEvent("up", d)
    BY DEF ReleaseQueued, DeviceEvent
  <2>2. CASE i = 1
    BY <2>1, <2>2
  <2>3. CASE i > 1
    BY <1>4, <2>1, <2>3
  <2> QED BY <1>1, <2>2, <2>3
<1>6. ASSUME NEW d \in Devices, sdl[1] = DeviceEvent("down", d), d \notin down
      PROVE  ReleaseQueued(d)'
  <2>1. sdl[1].kind = "down" /\ sdl[1].device = d
    BY <1>6 DEF DeviceEvent
  <2>2. PICK j \in 2..Len(sdl) : sdl[j] = DeviceEvent("up", d)
    BY <1>1, <1>6, <2>1 DEF StickyInv, PressesBacked, ReleasedAfter
  <2>3. j \in 1..Len(sdl) /\ j > 1
    BY <1>1, <2>2
  <2> QED BY <1>4, <2>2, <2>3
<1> QED BY <1>3, <1>5, <1>6

(* A key counts as held only while a device that means it is down, or the  *)
(* release is still queued: no key sticks, whatever the interface takes.   *)
THEOREM KeysDoNotStick == Spec => []NoStickyKeys
<1>1. Init => StickyInv
  <2>1. Len(<<>>) = 0
    BY EmptySeq
  <2> QED BY <2>1 DEF Init, StickyInv, PressesBacked, NoStickyKeys
<1>2. ASSUME TypeOK, StickyInv, [Next]_vars PROVE StickyInv'
  <2> USE <1>2
  <2>1. CASE OtherEvent
    BY <2>1, DevicesKeepBacking, DeviceEvents DEF OtherEvent, TypeOK
  <2>2. ASSUME NEW d \in Devices, PushDown(d) \/ AutoRepeat(d) PROVE StickyInv'
    <3> DEFINE e == DeviceEvent("down", d)
    <3>1. e \in Event /\ e.kind = "down" /\ e.device = d
      BY DeviceEvents DEF DeviceEvent
    <3>2. Arrive(e) /\ d \in down' /\ down \subseteq down' /\ down' \subseteq Devices
      BY <2>2 DEF PushDown, AutoRepeat, DeviceEvent, TypeOK
    <3> HIDE DEF e
    <3> QED BY <3>1, <3>2, DevicesKeepBacking
  <2>3. ASSUME NEW d \in Devices, LetGo(d) PROVE StickyInv'
    <3> DEFINE e == DeviceEvent("up", d)
    <3>1. e \in Event
      BY DeviceEvents
    <3>2. Arrive(e) /\ down' = down \ {d} /\ down' \subseteq Devices
      BY <2>3 DEF LetGo, DeviceEvent, TypeOK
    <3>3. \E f \in Devices : e = DeviceEvent("up", f) /\ down' = down \ {f}
      BY <3>2
    <3> HIDE DEF e
    <3> QED BY <3>1, <3>2, <3>3, DevicesKeepBacking
  <2>4. CASE UiConsumes
    <3>1. PressesBacked' /\ held' = {}
      BY <2>4, DequeueKeepsBacking DEF UiConsumes, Reset
    <3> QED BY <3>1 DEF StickyInv, NoStickyKeys
  <2>5. CASE InputHandles
    <3>1. /\ sdl # <<>> /\ sdl' = Tail(sdl) /\ down' = down /\ code' = code
      BY <2>5 DEF InputHandles
    <3>2. SUFFICES ASSUME NEW k \in held'
                   PROVE  \E d \in Devices : code[d] = k /\ (d \in down \/ ReleaseQueued(d)')
      BY <3>1, DequeueKeepsBacking DEF StickyInv, NoStickyKeys
    <3>3. CASE k \in held /\ ~(sdl[1].kind = "up" /\ code[sdl[1].device] = k)
      <4>1. PICK d \in Devices : code[d] = k /\ (d \in down \/ ReleaseQueued(d))
        BY <3>3 DEF StickyInv, NoStickyKeys
      <4>2. sdl[1] # DeviceEvent("up", d)
        BY <3>3, <4>1 DEF DeviceEvent
      <4> QED BY <3>1, <4>1, <4>2, DequeueKeepsBacking
    <3>4. CASE sdl[1].kind = "down" /\ sdl[1].device \in Devices /\ k = code[sdl[1].device]
      <4>1. PICK d \in Devices : d = sdl[1].device
        BY <3>4
      <4>2. sdl[1] \in Event
        BY <3>1, Dequeued DEF TypeOK
      <4>3. sdl[1] = DeviceEvent("down", d)
        BY <3>4, <4>1, <4>2, DeviceEvents
      <4>4. d \in down \/ ReleaseQueued(d)'
        BY <3>1, <4>3, DequeueKeepsBacking
      <4> QED BY <3>4, <4>1, <4>4
    <3>5. held \subseteq KeyCodes
      BY DEF TypeOK
    <3>6. \/ k \in held /\ ~(sdl[1].kind = "up" /\ code[sdl[1].device] = k)
          \/ sdl[1].kind = "down" /\ sdl[1].device \in Devices /\ k = code[sdl[1].device]
      BY <2>5, <3>2, <3>5, HandledEvent DEF KeyDown, KeyUp, inputVars
    <3> QED BY <3>3, <3>4, <3>6
  <2>6. CASE UNCHANGED <<code, down, sdl, held>>
    <3>1. PressesBacked'
      BY <2>6 DEF StickyInv, PressesBacked, ReleasedAfter
    <3>2. \A d \in Devices : ReleaseQueued(d) => ReleaseQueued(d)'
      BY <2>6 DEF ReleaseQueued
    <3>3. NoStickyKeys'
      BY <2>6, <3>2 DEF StickyInv, NoStickyKeys
    <3> QED BY <3>1, <3>3 DEF StickyInv
  <2> QED BY <2>1, <2>2, <2>3, <2>4, <2>5, <2>6
        DEF Next, Thread, Outside, NewFrame, PollDone, Update, Ended, vars, deviceVars, inputVars
<1>3. StickyInv => NoStickyKeys
  BY DEF StickyInv
<1> QED BY <1>1, <1>2, <1>3, TypeCorrect, PTL DEF Spec

=============================================================================
