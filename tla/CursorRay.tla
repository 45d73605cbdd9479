----------------------------- MODULE CursorRay -----------------------------
(***************************************************************************)
(* The start of the interface's frame, UIBindings::NewFrame                *)
(* (ui_bindings.cpp), between the events and Game::Update (TilePicking):   *)
(* what Im3d is told about the cursor, with the camera the last update     *)
(* left behind.                                                            *)
(***************************************************************************)
EXTENDS TilePicking

VARIABLES
    uiReady,            \* NewFrame has run in this frame
    cursorRay           \* m_cursorRayOrigin, in half pixels

rayVars == <<vars, uiReady, cursorRay>>

(* Relative to the middle of the window, y upwards.                        *)
Centred(m) == [x |-> 2 * m.x - WindowX, y |-> WindowY - 2 * m.y]

(* What the view matrix makes of a point: it takes the position away.      *)
Viewed(p) == [x |-> p.x - 2 * Snapped(position.x), y |-> p.y - 2 * Snapped(position.y)]

RayInit == Init /\ uiReady = FALSE /\ cursorRay = [x |-> 0, y |-> 0]

NewFrame ==
    /\ phase = "camera" /\ ~uiReady
    /\ \E sx \in 0..WindowX, sy \in 0..WindowY : mouse' = [x |-> sx, y |-> sy]
    /\ cursorRay' = Viewed(Centred(mouse'))
    /\ uiReady' = TRUE
    /\ UNCHANGED <<phase, unread, grid, scaleFactorIdx, position, ppu, order>>

Load == (LoadTile \/ Loaded) /\ UNCHANGED <<uiReady, cursorRay>>

UpdateCamera == uiReady /\ MoveCamera /\ UNCHANGED <<uiReady, cursorRay>>

EndUpdate == Pick /\ uiReady' = FALSE /\ UNCHANGED cursorRay

RayNext == Load \/ NewFrame \/ UpdateCamera \/ EndUpdate

RaySpec == RayInit /\ [][RayNext]_rayVars

-----------------------------------------------------------------------------
(* Properties.                                                             *)

(* "World space cursor ray from mouse position" (ui_bindings.cpp:139): as  *)
(* NewFrame leaves it, the ray begins where ScreenPointToWorld sees the    *)
(* cursor.                                                                 *)
RayFromCursor == phase = "camera" /\ uiReady => cursorRay = ScreenPointToWorld(mouse)

=============================================================================
