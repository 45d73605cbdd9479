------------------------------ MODULE GameLoop ------------------------------
(***************************************************************************)
(* The frame loop: Engine::RunInternal (engine.cpp) calling Game::Update   *)
(* (game.cpp), which turns wall-clock time into fixed time steps.  Time is *)
(* counted in ticks; the accumulator holds quarter ticks, because the      *)
(* slowest non-zero game speed is one quarter.  What a time step does to   *)
(* the session is GameState's business: here it only executes the queued   *)
(* commands, each known by the order in which the menus issued it.         *)
(***************************************************************************)
EXTENDS Integers, Sequences

CONSTANTS
    FixedDelta,         \* ticks per time step
    DtScales,           \* DT_SCALE_FACTORS, in quarters
    FrameCost,          \* at most this many ticks pass in a frame without time steps
    StepCost,           \* and at most this many more for each time step it runs
    MaxIssued           \* bound of the instance: commands issued in a session

ASSUME LoopAssumption ==
    /\ FixedDelta \in Nat \ {0}
    /\ DtScales \subseteq Nat
    /\ 4 \in DtScales
    /\ \E s \in DtScales : \A t \in DtScales : t <= s
    /\ FrameCost \in Nat \ {0}
    /\ StepCost \in Nat
    /\ MaxIssued \in Nat

Fixed == 4 * FixedDelta

Fastest == CHOOSE s \in DtScales : \A t \in DtScales : t <= s

VARIABLES
    phase,              \* where in the frame the thread is
    accumulated,        \* accumulatedDelta, in quarter ticks
    scale,              \* DT_SCALE_FACTORS[selectedDtScaleIdx]
    queue,              \* m_GameCommands
    frameSteps,         \* history: time steps run in this frame
    issued,             \* history: commands issued so far
    executed            \* history: commands executed so far, in order

vars == <<phase, accumulated, scale, queue, frameSteps, issued, executed>>

Init ==                 \* after Game::Initialize
    /\ phase = "frame"
    /\ accumulated = 0 /\ scale = 4
    /\ queue = <<>>
    /\ frameSteps = 0 /\ issued = 0 /\ executed = <<>>

(* Seeded faults: the speed is applied twice, not at all, or the rest of   *)
(* the frame before is thrown away.                                        *)
BeginFrame_ScaledTwice ==
    /\ phase = "frame"
    /\ \E delta \in 1..(FrameCost + StepCost * frameSteps) :
         accumulated' = accumulated + delta * scale * scale
    /\ frameSteps' = 0
    /\ phase' = "stepping"
    /\ UNCHANGED <<scale, queue, issued, executed>>

BeginFrame_Unscaled ==
    /\ phase = "frame"
    /\ \E delta \in 1..(FrameCost + StepCost * frameSteps) :
         accumulated' = accumulated + 4 * delta
    /\ frameSteps' = 0
    /\ phase' = "stepping"
    /\ UNCHANGED <<scale, queue, issued, executed>>

BeginFrame_ForgetsRest ==
    /\ phase = "frame"
    /\ \E delta \in 1..(FrameCost + StepCost * frameSteps) :
         accumulated' = delta * scale
    /\ frameSteps' = 0
    /\ phase' = "stepping"
    /\ UNCHANGED <<scale, queue, issued, executed>>

(* Clock::Tick, event polling, and the top of Game::Update: the time of    *)
(* the frame before, scaled by the speed selected in it, is added.         *)
BeginFrame ==
    /\ phase = "frame"
    /\ \E delta \in 1..(FrameCost + StepCost * frameSteps) :
         accumulated' = accumulated + delta * scale
    /\ frameSteps' = 0
    /\ phase' = "stepping"
    /\ UNCHANGED <<scale, queue, issued, executed>>

(* Seeded fault: the queue is emptied after the loop, not in it.           *)
TimeStep_KeepsQueue ==
    /\ phase = "stepping" /\ accumulated > Fixed
    /\ accumulated' = accumulated - Fixed
    /\ executed' = executed \o queue
    /\ frameSteps' = frameSteps + 1
    /\ UNCHANGED <<phase, scale, queue, issued>>

TimeStep ==
    /\ phase = "stepping" /\ accumulated > Fixed
    /\ accumulated' = accumulated - Fixed
    /\ executed' = executed \o queue
    /\ queue' = <<>>
    /\ frameSteps' = frameSteps + 1
    /\ UNCHANGED <<phase, scale, issued>>

StepsDone ==
    /\ phase = "stepping" /\ accumulated <= Fixed
    /\ phase' = "menus"
    /\ UNCHANGED <<accumulated, scale, queue, frameSteps, issued, executed>>

IssueCommand ==
    /\ phase = "menus" /\ issued < MaxIssued
    /\ issued' = issued + 1
    /\ queue' = Append(queue, issued + 1)
    /\ UNCHANGED <<phase, accumulated, scale, frameSteps, executed>>

SelectSpeed ==
    /\ phase = "menus"
    /\ scale' \in DtScales
    /\ UNCHANGED <<phase, accumulated, queue, frameSteps, issued, executed>>

EndFrame ==
    /\ phase = "menus"
    /\ phase' = "frame"
    /\ UNCHANGED <<accumulated, scale, queue, frameSteps, issued, executed>>

(* The window was asked to close during this frame: Game::Update returns   *)
(* TerminateGame, after all the rest.  Commands in the queue are lost.     *)
Quit ==
    /\ phase = "menus"
    /\ phase' = "stopped"
    /\ UNCHANGED <<accumulated, scale, queue, frameSteps, issued, executed>>

Stopped == phase = "stopped" /\ UNCHANGED vars

Frame == BeginFrame \/ TimeStep \/ StepsDone \/ EndFrame

Next == Frame \/ Quit \/ IssueCommand \/ SelectSpeed \/ Stopped

(* The thread keeps running; the player need not do anything.              *)
Spec == Init /\ [][Next]_vars
FairSpec == Spec /\ WF_vars(Frame)

-----------------------------------------------------------------------------
(* Properties.                                                             *)

(* The accumulator is never negative, and the bookkeeping stays in type.   *)
TypeOK ==
    /\ phase \in {"frame", "stepping", "menus", "stopped"}
    /\ accumulated \in Nat
    /\ scale \in DtScales
    /\ queue \in Seq(1..MaxIssued) /\ executed \in Seq(1..MaxIssued)
    /\ frameSteps \in Nat /\ issued \in 0..MaxIssued

(* The state is drawn between the two last time steps: when the world is   *)
(* interpolated the accumulator is at most one time step, so the           *)
(* interpolation factor never leaves 0..1.                                 *)
InterpolationInRange == phase # "stepping" => accumulated <= Fixed

(* However many time steps a frame runs - none, one, several - every       *)
(* command of the menus is executed exactly once, in the order of issue.   *)
ExactlyOnceInOrder == executed \o queue = [i \in 1..issued |-> i]

(* The "spiral of death" of the comment above the loop cannot start on a   *)
(* machine that executes a time step, at the fastest speed, in less than   *)
(* the time it simulates: the time steps of a frame are then bounded, and  *)
(* the bound does not grow from frame to frame.                            *)
NoSpiralOfDeath ==
    frameSteps * (Fixed - StepCost * Fastest) <= Fixed + FrameCost * Fastest

(* A paused game runs no time step, whatever is left in the accumulator.   *)
PausedRunsNothing == [][frameSteps' > frameSteps => scale > 0]_vars

(* While the game is not paused, what the menus ordered gets done, however *)
(* short the frames are, unless the player quits.                          *)
CommandsRun == <>[](scale > 0) => (queue # <<>> ~> queue = <<>> \/ phase = "stopped")

=============================================================================
