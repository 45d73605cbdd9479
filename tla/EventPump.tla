----------------------------- MODULE EventPump -----------------------------
(***************************************************************************)
(* From the keyboard and the mouse to the game: the event loop of          *)
(* Engine::RunInternal (engine.cpp) offers each SDL event to the user      *)
(* interface (ui_bindings.cpp), then to Input (input.cpp), and Game::Update *)
(* (game.cpp) reads Input's bit sets once a frame.  Devices act at any     *)
(* time; SDL queues what they did.  Wheel motion only zooms the camera and *)
(* is not counted here, but a wheel event the interface takes matters.     *)
(***************************************************************************)
EXTENDS Integers, Sequences, FiniteSets

CONSTANTS
    Keys, Buttons,      \* scancodes of the keyboard, buttons of the mouse
    KeyCodes,           \* enum KeyCode without Any and Count
    Mapped,             \* what the code maps: some keys, and the known buttons
    Alt, P, LeftMouse,  \* the key codes the engine and the game react to
    MaxArrivals         \* bound of the instance: events in a session

Devices == Keys \cup Buttons

AnyKey == "any"         \* KeyCode::Any: bound to nothing
Garbage == "garbage"    \* an int that is no KeyCode

ASSUME PumpAssumption ==
    /\ Keys \cap Buttons = {}
    /\ DOMAIN Mapped \subseteq Devices
    /\ Mapped \in [DOMAIN Mapped -> KeyCodes]
    /\ {Alt, P, LeftMouse} \subseteq KeyCodes
    /\ {AnyKey, Garbage} \cap KeyCodes = {}
    /\ MaxArrivals \in Nat

VARIABLES
    code,               \* s_ScancodeMappings, and the switch over mouse buttons
    down,               \* devices the player holds down
    sdl,                \* SDL's event queue
    arrived,            \* history: events so far
    keysCaptured, mouseCaptured,    \* ImGui's WantCaptureKeyboard, WantCaptureMouse
    pressed, released, held,        \* Input's bit sets
    phase,              \* where in the frame the thread is
    quitRequested,
    stats,              \* renderPerformanceStats
    clicks,             \* history: left clicks that reached Input
    builds              \* history: BuildTower commands issued

deviceVars == <<down, sdl, arrived>>
inputVars == <<pressed, released, held>>
vars == <<code, deviceVars, keysCaptured, mouseCaptured, inputVars, phase,
          quitRequested, stats, clicks, builds>>

Event == [kind : {"down", "up"}, device : Devices] \cup [kind : {"text", "wheel", "quit"}]

IsKeyboard(e) == e.kind = "text" \/ (e.kind \in {"down", "up"} /\ e.device \in Keys)
IsMouse(e) == e.kind = "wheel" \/ (e.kind \in {"down", "up"} /\ e.device \in Buttons)

(* The table on the stack is filled for known scancodes only: whatever was *)
(* there before decides what the others mean.                              *)
GenerateScancodeMappings ==
    {m \in [Devices -> KeyCodes \cup {AnyKey, Garbage}] :
        /\ \A d \in DOMAIN Mapped : m[d] = Mapped[d]
        /\ \A d \in Buttons \ DOMAIN Mapped : m[d] = AnyKey}

Init ==
    /\ code \in GenerateScancodeMappings
    /\ down = {} /\ sdl = <<>> /\ arrived = 0
    /\ keysCaptured = FALSE /\ mouseCaptured = FALSE
    /\ pressed = {} /\ released = {} /\ held = {}
    /\ phase = "frame"
    /\ quitRequested = FALSE
    /\ stats = TRUE
    /\ clicks = 0 /\ builds = 0

-----------------------------------------------------------------------------
(* The player and the operating system.                                    *)

Arrive(e) ==
    /\ arrived < MaxArrivals
    /\ arrived' = arrived + 1
    /\ sdl' = Append(sdl, e)
    /\ UNCHANGED <<code, keysCaptured, mouseCaptured, inputVars, phase,
                   quitRequested, stats, clicks, builds>>

PushDown(d) ==
    /\ d \notin down
    /\ down' = down \cup {d}
    /\ Arrive([kind |-> "down", device |-> d])

AutoRepeat(d) ==        \* SDL sends key-down events again for a key held long
    /\ d \in down \cap Keys
    /\ UNCHANGED down
    /\ Arrive([kind |-> "down", device |-> d])

LetGo(d) ==
    /\ d \in down
    /\ down' = down \ {d}
    /\ Arrive([kind |-> "up", device |-> d])

OtherEvent ==
    /\ \E k \in {"text", "wheel", "quit"} : Arrive([kind |-> k])
    /\ UNCHANGED down

Outside == OtherEvent \/ \E d \in Devices : PushDown(d) \/ AutoRepeat(d) \/ LetGo(d)

-----------------------------------------------------------------------------
(* The frame.                                                              *)

(* Seeded fault: the presses of the frame before stay. *)
NewFrame_KeepsPressed ==
    /\ phase = "frame"
    /\ released' = {}
    /\ quitRequested' = FALSE
    /\ phase' = "poll"
    /\ UNCHANGED <<code, deviceVars, keysCaptured, mouseCaptured, pressed, held,
                   stats, clicks, builds>>

NewFrame ==
    /\ phase = "frame"
    /\ pressed' = {} /\ released' = {}
    /\ quitRequested' = FALSE
    /\ phase' = "poll"
    /\ UNCHANGED <<code, deviceVars, keysCaptured, mouseCaptured, held,
                   stats, clicks, builds>>

(* Seeded fault: whatever arrives while the interface captures is its own. *)
Captured_Everything(e) == keysCaptured \/ mouseCaptured

Captured(e) == (keysCaptured /\ IsKeyboard(e)) \/ (mouseCaptured /\ IsMouse(e))

(* ImGui's SDL backend says of each event whether it used it; for button   *)
(* releases that depends on its version.                                   *)
UsedByImGui(e) == IF e.kind = "up" /\ e.device \in Buttons THEN BOOLEAN ELSE {TRUE}

(* Seeded fault: the bit set of held keys is not reset. *)
Reset_KeepsHeld ==
    /\ pressed' = {} /\ released' = {}
    /\ UNCHANGED held

Reset == pressed' = {} /\ held' = {} /\ released' = {}

UiConsumes ==
    /\ phase = "poll" /\ sdl # <<>>
    /\ Captured(Head(sdl)) /\ TRUE \in UsedByImGui(Head(sdl))
    /\ Reset
    /\ sdl' = Tail(sdl)
    /\ UNCHANGED <<code, down, arrived, keysCaptured, mouseCaptured, phase,
                   quitRequested, stats, clicks, builds>>

(* Seeded fault: a key that is up again does not count as pressed. *)
KeyUp_ClearsPressed(k) ==
    /\ held' = held \ {k}
    /\ released' = released \cup {k}
    /\ pressed' = pressed \ {k}

KeyUp(k) ==
    /\ held' = held \ {k}
    /\ released' = released \cup {k}
    /\ UNCHANGED pressed

KeyDown(k) ==
    /\ pressed' = pressed \cup {k}
    /\ held' = held \cup {k}
    /\ UNCHANGED released

Binds(k) == k \in KeyCodes

(* Input::ProcessWindowEvent, and the check for SDL_QUIT below it.         *)
InputHandles ==
    /\ phase = "poll" /\ sdl # <<>>
    /\ LET e == Head(sdl)
           k == IF e.kind \in {"down", "up"} THEN code[e.device] ELSE AnyKey
       IN  /\ Captured(e) => FALSE \in UsedByImGui(e)
           /\ IF Binds(k)
              THEN IF e.kind = "down" THEN KeyDown(k) ELSE KeyUp(k)
              ELSE UNCHANGED inputVars
           /\ phase' = IF k = Garbage THEN "crashed" ELSE phase    \* std::out_of_range
           /\ clicks' = IF e.kind = "down" /\ k = LeftMouse THEN clicks + 1 ELSE clicks
           /\ quitRequested' = (quitRequested \/ e.kind = "quit")
    /\ sdl' = Tail(sdl)
    /\ UNCHANGED <<code, down, arrived, keysCaptured, mouseCaptured, stats, builds>>

(* The queue is empty: the debug shortcut is tried, and ImGui's new frame  *)
(* decides, for the events of the next frame, what it wants to capture.    *)
PollDone ==
    /\ phase = "poll" /\ sdl = <<>>
    /\ stats' = (stats # (Alt \in held /\ P \in pressed))
    /\ keysCaptured' \in BOOLEAN /\ mouseCaptured' \in BOOLEAN
    /\ phase' = "update"
    /\ UNCHANGED <<code, deviceVars, inputVars, quitRequested, clicks, builds>>

(* Game::Update: a left click on a buildable tile orders a tower.  The     *)
(* tile is where the cursor is now, not where it was at the click.         *)
Update ==
    /\ phase = "update"
    /\ \E buildable \in BOOLEAN :
         builds' = IF LeftMouse \in pressed /\ buildable THEN builds + 1 ELSE builds
    /\ phase' = IF quitRequested THEN "stopped" ELSE "frame"
    /\ UNCHANGED <<code, deviceVars, keysCaptured, mouseCaptured, inputVars,
                   quitRequested, stats, clicks>>

Ended == phase \in {"stopped", "crashed"} /\ UNCHANGED vars

Thread == NewFrame \/ UiConsumes \/ InputHandles \/ PollDone \/ Update

Next == Thread \/ Outside \/ Ended

(* The thread runs; nobody has to touch a device.                          *)
Spec == Init /\ [][Next]_vars
FairSpec == Spec /\ WF_vars(Thread)

-----------------------------------------------------------------------------
(* Properties.                                                             *)

TypeOK ==
    /\ code \in GenerateScancodeMappings
    /\ down \subseteq Devices
    /\ sdl \in Seq(Event) /\ arrived \in 0..MaxArrivals
    /\ keysCaptured \in BOOLEAN /\ mouseCaptured \in BOOLEAN
    /\ pressed \subseteq KeyCodes /\ released \subseteq KeyCodes /\ held \subseteq KeyCodes
    /\ phase \in {"frame", "poll", "update", "stopped", "crashed"}
    /\ quitRequested \in BOOLEAN /\ stats \in BOOLEAN
    /\ clicks \in 0..MaxArrivals /\ builds \in Nat

(* "Lest we get sticky keys" (engine.cpp): a key counts as held only while *)
(* some device that means it is down, or its release is still queued.      *)
ReleaseQueued(d) == \E i \in 1..Len(sdl) : sdl[i] = [kind |-> "up", device |-> d]

NoStickyKeys ==
    \A k \in held : \E d \in Devices : code[d] = k /\ (d \in down \/ ReleaseQueued(d))

(* A click that waits in the queue while the interface captures nothing is *)
(* seen by the game's update, and be it a tap that is over before the      *)
(* frame is.  (In a frame in which the interface takes an event, Reset     *)
(* wipes out the taps before it: those may be lost.)                       *)
ClickQueued ==
    \E i \in 1..Len(sdl) : sdl[i].kind = "down" /\ code[sdl[i].device] = LeftMouse

ClicksReachGame ==
    phase = "poll" /\ ~keysCaptured /\ ~mouseCaptured /\ ClickQueued
      ~> (phase = "update" /\ LeftMouse \in pressed) \/ phase = "crashed"

(* No click builds two towers, and a click the interface took builds none. *)
ClickBuildsOnce ==
    builds + (IF LeftMouse \in pressed /\ phase \in {"poll", "update"} THEN 1 ELSE 0)
      <= clicks

(* Closing the window ends the program, whatever the interface captures.   *)
QuitQueued == \E i \in 1..Len(sdl) : sdl[i].kind = "quit"

QuitHonoured == QuitQueued ~> phase \in {"stopped", "crashed"}

=============================================================================
