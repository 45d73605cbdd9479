---------------------------- MODULE TilePicking ----------------------------
(***************************************************************************)
(* From the mouse to a tile: BuildableMap (map_data.h) is filled from the  *)
(* map's base layer, and every frame Game::Update (game.cpp) moves and     *)
(* zooms the camera (camera.cpp) and asks which tile is under the cursor.  *)
(*                                                                         *)
(* Arithmetic is exact: the rounding of floats, and of the inverted view   *)
(* matrix, is left out.  Points of the world are pairs of integers, in     *)
(* half pixels at the current zoom; the camera's position is in fractions  *)
(* of a tile, 1/Grain.                                                     *)
(***************************************************************************)
EXTENDS Integers, Sequences

CONSTANTS
    Width, Height,      \* of the map, in tiles
    BuildingAllowed,    \* the tiles of the base layer that have the property
    WindowX, WindowY,   \* windowDimensions
    PixelsPerUnit,      \* basePPU * SCALE_FACTORS, as far as they are whole numbers
    InitialScale,       \* the factor 1, as a 0-based index
    CoordRange,         \* one more than the largest u32
    Grain,
    MaxWheel, MaxMove, MaxPosition, Overshoot   \* bounds of the instance

MapTiles == (0..Width - 1) \X (0..Height - 1)
NoTile == <<>>      \* a frame without a BuildTower command

ASSUME PickingAssumption ==
    /\ Width \in Nat \ {0} /\ Height \in Nat \ {0}
    /\ BuildingAllowed \subseteq MapTiles
    /\ WindowX \in Nat \ {0} /\ WindowY \in Nat \ {0}
    /\ PixelsPerUnit \in Seq(Nat \ {0})
    /\ InitialScale \in 0..Len(PixelsPerUnit) - 1
    /\ Grain \in Nat \ {0} /\ CoordRange \in Nat \ {0}
    /\ {MaxWheel, MaxMove, MaxPosition, Overshoot} \subseteq Nat

(* No window, and no map with what lies around it, is 2^32 pixels wide.    *)
ASSUME ScreenAssumption ==
    \A k \in 1..Len(PixelsPerUnit) :
      Overshoot + WindowX + WindowY + (Width + MaxPosition) * PixelsPerUnit[k] < CoordRange

VARIABLES
    phase,              \* "load", then alternating "camera" and "pick"
    unread,             \* tiles of the base layer not visited yet
    grid,               \* m_Grid
    scaleFactorIdx,
    position, ppu,      \* the camera's position and pixelsPerUnit
    mouse,              \* the cursor when it was last looked at
    order               \* the tile of the BuildTower command of the last frame

vars == <<phase, unread, grid, scaleFactorIdx, position, ppu, mouse, order>>

-----------------------------------------------------------------------------
(* Rounding and conversion as C++ does them.                               *)

Sign(n) == IF n > 0 THEN 1 ELSE IF n < 0 THEN -1 ELSE 0
Trunc(n, d) == IF n >= 0 THEN n \div d ELSE -((-n) \div d)
AsU32(n) == n % CoordRange

-----------------------------------------------------------------------------
(* The camera, snapped to whole pixels, y upwards.                         *)

Snapped(p) == Trunc(p * ppu, Grain)

ScreenPointToWorld(m) ==
    [x |-> 2 * Snapped(position.x) + 2 * AsU32(m.x) - WindowX,
     y |-> 2 * Snapped(position.y) + 2 * AsU32(WindowY - AsU32(m.y)) - WindowY]

(* In half pixels from the top left corner. *)
WorldPointToScreen(w) ==
    [x |-> w.x - 2 * Snapped(position.x) + WindowX,
     y |-> 2 * WindowY - (w.y - 2 * Snapped(position.y) + WindowY)]

-----------------------------------------------------------------------------
(* The grid.                                                               *)

CellOf(x, y) == y * Width + x

(* Seeded fault: the half tile is always added. *)
Nearest_AlwaysUp(n) == Trunc(n + ppu, 2 * ppu)
Nearest(n) == Trunc(2 * n + Sign(n) * 2 * ppu, 4 * ppu)

WorldToTile(w) == <<Nearest(w.x), Nearest(w.y)>>

(* Seeded fault: y is not turned. *)
Query_Upright(w) ==
    LET tile == WorldToTile(w)
    IN  /\ tile[1] \in 0..Width - 1 /\ tile[2] \in 0..Height - 1
        /\ grid[CellOf(tile[1], tile[2])] = 1

Query(w) ==
    LET tile == WorldToTile(w)
    IN  /\ tile[1] \in 0..Width - 1 /\ -tile[2] \in 0..Height - 1
        /\ grid[CellOf(tile[1], -tile[2])] = 1

-----------------------------------------------------------------------------
Init ==
    /\ phase = "load"
    /\ unread = MapTiles
    /\ grid = [cell \in 0..Width * Height - 1 |-> 0]
    /\ scaleFactorIdx = InitialScale
    /\ position = [x |-> 0, y |-> 0]
    /\ ppu = PixelsPerUnit[InitialScale + 1]
    /\ mouse = [x |-> 0, y |-> 0]
    /\ order = NoTile

LoadTile ==
    /\ phase = "load"
    /\ \E t \in unread :
         /\ grid' = [grid EXCEPT ![CellOf(t[1], t[2])] = IF t \in BuildingAllowed THEN 1 ELSE 0]
         /\ unread' = unread \ {t}
    /\ UNCHANGED <<phase, scaleFactorIdx, position, ppu, mouse, order>>

Loaded ==
    /\ phase = "load" /\ unread = {}
    /\ phase' = "camera"
    /\ UNCHANGED <<unread, grid, scaleFactorIdx, position, ppu, mouse, order>>

Clamped(idx) ==
    IF idx < 0 THEN 0
    ELSE IF idx > Len(PixelsPerUnit) - 1 THEN Len(PixelsPerUnit) - 1 ELSE idx

(* The wheel zooms, and the keys move the camera by some multiple of the   *)
(* frame's duration, the same in both directions on a diagonal.            *)
MoveCamera ==
    /\ phase = "camera"
    /\ \E motion \in -MaxWheel..MaxWheel :
         scaleFactorIdx' = Clamped(scaleFactorIdx - motion)
    /\ \E dx, dy \in -1..1, distance \in 1..MaxMove :
         /\ position' = [x |-> position.x + dx * distance, y |-> position.y + dy * distance]
         /\ {position'.x, position'.y} \subseteq -MaxPosition..MaxPosition
    /\ ppu' = IF scaleFactorIdx' < Len(PixelsPerUnit) THEN PixelsPerUnit[scaleFactorIdx' + 1] ELSE 1
    /\ phase' = "pick"
    /\ UNCHANGED <<unread, grid, mouse, order>>

(* The cursor is where it is now, even out of the window; a click orders a *)
(* tower on the tile it is over, if that is buildable.                     *)
Pick ==
    /\ phase = "pick"
    /\ \E sx \in -Overshoot..WindowX + Overshoot, sy \in -Overshoot..WindowY + Overshoot :
         mouse' = [x |-> sx, y |-> sy]
    /\ \E clicked \in BOOLEAN :
         LET world == ScreenPointToWorld(mouse')
         IN  order' = IF clicked /\ Query(world) THEN WorldToTile(world) ELSE NoTile
    /\ phase' = "camera"
    /\ UNCHANGED <<unread, grid, scaleFactorIdx, position, ppu>>

Next == LoadTile \/ Loaded \/ MoveCamera \/ Pick

Spec == Init /\ [][Next]_vars

-----------------------------------------------------------------------------
(* Properties.                                                             *)

TypeOK ==
    /\ phase \in {"load", "camera", "pick"}
    /\ unread \subseteq MapTiles
    /\ grid \in [0..Width * Height - 1 -> {0, 1}]
    /\ scaleFactorIdx \in 0..Len(PixelsPerUnit) - 1
    /\ position \in [x : Int, y : Int] /\ mouse \in [x : Int, y : Int]
    /\ ppu \in Nat \ {0}
    /\ order = NoTile \/ order \in Int \X Int

(* RenderTileLayer draws tile (x, y) as the unit square around (x, -y):    *)
(* the cursor is at most, or less than, half a tile from its centre.       *)
FromCursor(t) ==
    LET centre == WorldPointToScreen([x |-> 2 * ppu * t[1], y |-> -(2 * ppu * t[2])])
    IN  [x |-> 2 * mouse.x - centre.x, y |-> 2 * mouse.y - centre.y]

Covers(t) == LET d == FromCursor(t) IN {d.x, d.y} \subseteq -ppu..ppu
StrictlyCovers(t) == LET d == FromCursor(t) IN {d.x, d.y} \subseteq 1 - ppu..ppu - 1

(* A tower is ordered only on a tile that allows it, and only on the one   *)
(* that this frame draws under the cursor, wherever camera and cursor are. *)
OrdersUnderCursor ==
    order # NoTile /\ phase = "camera" =>
      LET t == <<order[1], -order[2]>> IN t \in BuildingAllowed /\ Covers(t)

(* No buildable tile has a spot where a click does nothing: not at the     *)
(* window's edge, not across the axes, where rounding changes direction.   *)
CursorInWindow == mouse.x \in 0..WindowX /\ mouse.y \in 0..WindowY

NoDeadSpots ==
    phase = "camera" /\ CursorInWindow =>
      \A t \in BuildingAllowed : StrictlyCovers(t) => Query(ScreenPointToWorld(mouse))

=============================================================================
