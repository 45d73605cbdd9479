----------------------------- MODULE Lifecycle -----------------------------
(***************************************************************************)
(* From main to the end of the process (engine_main.cpp, engine.h): what   *)
(* the engine, its members and the game acquire, in the order of the       *)
(* constructors and of Game::Initialize; what happens when a step fails,   *)
(* with the panic dialog of system.cpp; and the order in which destructors *)
(* release it again.                                                       *)
(*                                                                         *)
(* No debugger is attached: a debug break ends the process.  What the      *)
(* operating system takes back when a process is cut short is left out.    *)
(***************************************************************************)
EXTENDS Integers, Sequences, SequencesExt

VARIABLES
    build,              \* "debug" or "release"
    stage,              \* "start", "run", "stop", or how the process ended
    step,               \* steps of Startup taken, or of Teardown
    alive,              \* resources held
    dialog,             \* the panic dialog on screen, or "none"
    playing             \* sounds the mixer is playing

processVars == <<build, stage, step, alive, dialog, playing>>

(* What is set up, in order: by main; by Engine's members in the order of  *)
(* their declaration, the render context in its Create; by                 *)
(* Game::Initialize.  "pipeline" are the shaders, states and buffers,      *)
(* "session" the tilesets' textures.                                       *)
OfMain == <<"sdl", "image">>
OfRender == <<"device", "missing", "swapchain", "pipeline">>
OfUi == <<"imgui", "im3d">>
OfEngine == <<"window">> \o OfRender \o OfUi \o <<"audio">>
OfGame == <<"session", "music", "effect">>
Startup == OfMain \o OfEngine \o OfGame

(* What a step makes: SDL's subsystems, ImGui's context and its back ends. *)
(* SDL starts for a window or an audio device the subsystem it has not.    *)
Makes(s) ==
    CASE s = "sdl" -> {"video", "sound"}
      [] s = "window" -> {"video", "window"}
      [] s = "audio" -> {"sound", "audio"}
      [] s = "imgui" -> {"context", "imgui"}
      [] OTHER -> {s}

(* What of it is there after the step has failed.                          *)
Leftovers(s) ==
    CASE s = "sdl" -> SUBSET {"video", "sound"}
      [] s = "window" -> SUBSET {"video"}
      [] s = "audio" -> SUBSET {"sound"}
      [] s = "imgui" -> {{"context"}}
      [] OTHER -> {{}}

Resources == UNION {Makes(s) : s \in ToSet(Startup)}

(* What a resource is made from, and needs as long as it lives.            *)
Uses(r) ==
    CASE r \in {"video", "sound", "image", "device", "context"} -> {}
      [] r = "window" -> {"video"}
      [] r = "audio" -> {"sound"}
      [] r \in {"missing", "session"} -> {"device", "image"}
      [] r = "swapchain" -> {"device", "window"}
      [] r = "imgui" -> {"device", "window", "context"}
      [] r \in {"pipeline", "im3d"} -> {"device"}
      [] r \in {"music", "effect"} -> {"audio"}

(* What the code does about a failure.  Nobody looks at what SDL_Init,     *)
(* SDL_CreateWindow and ImGui's back ends return.  Without sound the game  *)
(* can go on.  A picture that cannot be decoded is a null pointer that     *)
(* LoadTextureFromMemory reads from.  Seeded fault: a shader that does not *)
(* compile is only asserted.                                               *)
Unchecked == {"sdl", "window", "imgui"}
Sounds == {"audio", "music", "effect"}
Pictures == {"missing", "session"}

OnFailure_Lenient(s) ==
    CASE s \in Unchecked -> {"ignored"}
      [] s \in Sounds \cup {"pipeline"} -> {"recoverable"}
      [] s \in Pictures -> {"fatal", "crash"}
      [] OTHER -> {"fatal"}
OnFailure(s) ==
    CASE s \in Unchecked -> {"ignored"}
      [] s \in Sounds -> {"recoverable"}
      [] s \in Pictures -> {"fatal", "crash"}
      [] OTHER -> {"fatal"}

(* Game's members and Engine's against the order of their declaration,     *)
(* then main.  UIBindings has no destructor and nobody calls its Shutdown. *)
(* Seeded faults: Game is destroyed with the engine's members, after the   *)
(* audio device; the Im3d renderer is never released.                      *)
Teardown_GameLast ==
    <<"audio", "effect", "music", "session", "im3d", "missing", "pipeline", "swapchain",
      "device", "window", "image", "sdl">>
Teardown_KeepsIm3d ==
    <<"effect", "music", "session", "audio", "missing", "pipeline", "swapchain",
      "device", "window", "image", "sdl">>
Teardown ==
    <<"effect", "music", "session", "audio", "im3d", "missing", "pipeline", "swapchain",
      "device", "window", "image", "sdl">>

Frees(s) == IF s = "sdl" THEN {"video", "sound"} ELSE {s}

ProcessInit ==
    /\ build \in {"debug", "release"}
    /\ stage = "start" /\ step = 0
    /\ alive = {}
    /\ dialog = "none"
    /\ playing = {}

Starting == stage = "start" /\ dialog = "none" /\ step < Len(Startup)

Acquire ==
    /\ Starting
    /\ alive' = alive \cup Makes(Startup[step + 1])
    /\ \A r \in Makes(Startup[step + 1]) : Uses(r) \subseteq alive'
    /\ step' = step + 1
    /\ UNCHANGED <<build, stage, dialog, playing>>

(* Assertions that are recoverable exist only in debug builds.             *)
Fail ==
    /\ Starting
    /\ \E how \in OnFailure(Startup[step + 1]) :
         /\ dialog' = IF how = "fatal" \/ (how = "recoverable" /\ build = "debug")
                      THEN how ELSE "none"
         /\ stage' = IF how = "crash" THEN "killed" ELSE "start"
    /\ \E left \in Leftovers(Startup[step + 1]) : alive' = alive \cup left
    /\ step' = step + 1
    /\ UNCHANGED <<build, playing>>

(* ShowPanicDialog offers Continue only if the panic is recoverable; the   *)
(* escape key and the close button mean Quit.                              *)
Answers == [fatal |-> {"break", "quit"}, recoverable |-> {"break", "quit", "continue"}]

AnswerDialog ==
    /\ dialog # "none"
    /\ \E answer \in Answers[dialog] :
         stage' = CASE answer = "break" -> "killed"
                    [] answer = "quit" -> "exited"
                    [] answer = "continue" -> stage
    /\ dialog' = "none"
    /\ UNCHANGED <<build, step, alive, playing>>

CanPlay(sound) == {"audio", sound} \subseteq alive

StartFrames ==
    /\ stage = "start" /\ dialog = "none" /\ step = Len(Startup)
    /\ playing' = IF CanPlay("music") THEN {"music"} ELSE {}
    /\ stage' = "run"
    /\ UNCHANGED <<build, step, alive, dialog>>

EnemyDies ==
    /\ stage = "run"
    /\ playing' = IF CanPlay("effect") THEN playing \cup {"effect"} ELSE playing
    /\ UNCHANGED <<build, stage, step, alive, dialog>>

EffectEnds ==
    /\ "effect" \in playing
    /\ playing' = playing \ {"effect"}
    /\ UNCHANGED <<build, stage, step, alive, dialog>>

QuitFrames ==
    /\ stage = "run"
    /\ stage' = "stop" /\ step' = 0
    /\ UNCHANGED <<build, alive, dialog, playing>>

Release ==              \* freeing a sound stops it
    /\ stage = "stop" /\ step < Len(Teardown)
    /\ alive' = alive \ Frees(Teardown[step + 1])
    /\ playing' = playing \ {Teardown[step + 1]}
    /\ step' = step + 1
    /\ UNCHANGED <<build, stage, dialog>>

Return ==
    /\ stage = "stop" /\ step = Len(Teardown)
    /\ stage' = "returned"
    /\ UNCHANGED <<build, step, alive, dialog, playing>>

Ended == stage \in {"killed", "exited", "returned"} /\ UNCHANGED processVars

AfterStartup ==
    \/ AnswerDialog \/ StartFrames \/ EnemyDies \/ EffectEnds \/ QuitFrames
    \/ Release \/ Return \/ Ended

ProcessNext == Acquire \/ Fail \/ AfterStartup

ProcessSpec == ProcessInit /\ [][ProcessNext]_processVars

-----------------------------------------------------------------------------
(* Properties.                                                             *)

(* Nothing outlives what it was made from, whichever steps have failed: no *)
(* texture its device, no sound the audio device, and nothing is played    *)
(* that is not there.  The one exception is ImGui's back end.              *)
OwnersOutliveUsers ==
    /\ \A r \in alive \ {"imgui"} : Uses(r) \subseteq alive
    /\ \A sound \in playing : {"audio", sound} \subseteq alive

(* What the code may go on without: sound, which it asks about, and ImGui's *)
(* back ends, which it does not.                                           *)
Optional == {"sound", "audio", "music", "effect", "imgui"}

(* The frames run only with everything their sprites are drawn with in     *)
(* place, although nobody looks whether SDL has come up and whether there  *)
(* is a window: what these leave undone ends the start-up at a later step. *)
CompleteWhenRunning == stage = "run" => Resources \ Optional \subseteq alive

(* A process that returns from main has released all it acquired, but for  *)
(* ImGui's context and back ends, which are never shut down.               *)
OnlyUiLeftBehind ==
    stage = "returned" => alive \subseteq {"context", "imgui"} /\ playing = {}

=============================================================================
