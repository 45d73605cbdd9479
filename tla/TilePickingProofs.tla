------------------------- MODULE TilePickingProofs -------------------------
(***************************************************************************)
(* A click, proved for every map, window, zoom and position of the camera: *)
(* it orders a tower on the tile under the cursor, or none, and reaches    *)
(* every buildable tile.  What it takes: the grid holds one cell per tile; *)
(* rounding to the nearest tile; and coordinates that wrap around 2^32     *)
(* end up far from the map.                                                *)
(***************************************************************************)
EXTENDS TilePicking, ListProofs

LEMMA ScreenIsSmall ==
    ASSUME NEW k \in 1..Len(PixelsPerUnit)
    PROVE  /\ PixelsPerUnit[k] \in Nat \ {0}
           /\ Overshoot + WindowX + WindowY + (Width + MaxPosition) * PixelsPerUnit[k] < CoordRange
<1>1. PixelsPerUnit \in Seq(Nat \ {0})
  BY PickingAssumption
<1> QED BY <1>1, ElementOfSeq, ScreenAssumption

-----------------------------------------------------------------------------
(* The grid.                                                               *)

LEMMA CellsAreApart ==
    ASSUME NEW t \in MapTiles
    PROVE  /\ CellOf(t[1], t[2]) \in 0..Width * Height - 1
           /\ \A u \in MapTiles : CellOf(u[1], u[2]) = CellOf(t[1], t[2]) => u = t
<1>0. Width \in Nat \ {0} /\ Height \in Nat \ {0}
  BY PickingAssumption
<1>1. \A u \in MapTiles : u = <<u[1], u[2]>> /\ u[1] \in 0..Width - 1 /\ u[2] \in 0..Height - 1
  BY DEF MapTiles
<1>2. \A x \in 0..Width - 1, y \in 0..Height - 1 :
        CellOf(x, y) = Width * y + x /\ Width * y \in Int
  BY <1>0 DEF CellOf
<1>3. \A y, z \in 0..Height - 1 : y < z => Width * y + Width <= Width * z
  <2> SUFFICES ASSUME NEW y \in 0..Height - 1, NEW z \in 0..Height - 1, y < z
               PROVE  Width * y + Width <= Width * z
    OBVIOUS
  <2>1. Width * (y + 1) <= Width * z
    BY <1>0, MoreIsMore
  <2> QED BY <1>0, <2>1
<1>4. \A y \in 0..Height - 1 : 0 <= Width * y /\ Width * y + Width <= Width * Height
  <2> TAKE y \in 0..Height - 1
  <2>1. Width * (y + 1) <= Width * Height /\ Width * 0 <= Width * y
    BY <1>0, MoreIsMore
  <2> QED BY <1>0, <2>1
<1>5. CellOf(t[1], t[2]) \in 0..Width * Height - 1
  <2>1. Width * Height \in Int
    BY <1>0
  <2> QED BY <1>0, <1>1, <1>2, <1>4, <2>1
<1>6. ASSUME NEW u \in MapTiles, CellOf(u[1], u[2]) = CellOf(t[1], t[2])
      PROVE  u = t
  <2>1. ~(u[2] < t[2]) /\ ~(t[2] < u[2])
    BY <1>0, <1>1, <1>2, <1>3, <1>6
  <2>2. u[2] = t[2]
    BY <1>0, <1>1, <2>1
  <2>3. u[1] = t[1]
    <3>1. PICK m \in Int : m = Width * t[2]
      BY <1>1, <1>2
    <3>2. CellOf(t[1], t[2]) = m + t[1] /\ CellOf(u[1], u[2]) = m + u[1]
      BY <1>1, <1>2, <2>2, <3>1
    <3>3. t[1] \in Int /\ u[1] \in Int
      BY <1>0, <1>1
    <3>4. \A a, b, c \in Int : c + a = c + b => a = b
      OBVIOUS
    <3> QED BY <1>6, <3>1, <3>2, <3>3, <3>4
  <2> QED BY <1>1, <2>2, <2>3
<1> QED BY <1>5, <1>6

Read(t) == IF t \in BuildingAllowed THEN 1 ELSE 0

PickingInv ==
    /\ TypeOK
    /\ phase # "load" => unread = {}
    /\ phase = "load" => order = NoTile
    /\ \A t \in MapTiles \ unread : grid[CellOf(t[1], t[2])] = Read(t)
    /\ position \in [x : -MaxPosition..MaxPosition, y : -MaxPosition..MaxPosition]
    /\ ppu = PixelsPerUnit[scaleFactorIdx + 1]
    /\ mouse \in [x : -Overshoot..WindowX + Overshoot, y : -Overshoot..WindowY + Overshoot]
    /\ phase = "camera" /\ order # NoTile =>
         LET world == ScreenPointToWorld(mouse) IN Query(world) /\ order = WorldToTile(world)

LEMMA WorldIsInts ==
    ASSUME PickingInv
    PROVE  /\ ppu \in Nat \ {0}
           /\ Snapped(position.x) \in Int /\ Snapped(position.y) \in Int
           /\ ScreenPointToWorld(mouse).x \in Int /\ ScreenPointToWorld(mouse).y \in Int
<1>1. /\ ppu \in Nat \ {0} /\ position.x \in Int /\ position.y \in Int
      /\ mouse.x \in Int /\ mouse.y \in Int
  BY DEF PickingInv, TypeOK
<1>2. Grain \in Nat \ {0} /\ CoordRange \in Nat \ {0} /\ WindowX \in Int /\ WindowY \in Int
  BY PickingAssumption
<1>3. \A p \in Int : Snapped(p) \in Int
  <2> TAKE p \in Int
  <2>1. p * ppu \in Int
    BY <1>1
  <2>2. \A n \in Int : Trunc(n, Grain) \in Int
    BY <1>2 DEF Trunc
  <2> QED BY <2>1, <2>2 DEF Snapped
<1>4. \A n \in Int : AsU32(n) \in Int
  BY <1>2 DEF AsU32
<1>5. WindowY - AsU32(mouse.y) \in Int
  BY <1>1, <1>2, <1>4
<1>6. /\ 2 * Snapped(position.x) + 2 * AsU32(mouse.x) - WindowX \in Int
      /\ 2 * Snapped(position.y) + 2 * AsU32(WindowY - AsU32(mouse.y)) - WindowY \in Int
  BY <1>1, <1>2, <1>3, <1>4, <1>5
<1> QED BY <1>1, <1>3, <1>6 DEF ScreenPointToWorld

LEMMA PickingInvariant == Spec => []PickingInv
<1>0. /\ PixelsPerUnit \in Seq(Nat \ {0}) /\ Len(PixelsPerUnit) \in Nat
      /\ InitialScale \in 0..Len(PixelsPerUnit) - 1
      /\ \A k \in 1..Len(PixelsPerUnit) : PixelsPerUnit[k] \in Nat \ {0}
      /\ WindowX \in Nat /\ WindowY \in Nat /\ Overshoot \in Nat /\ MaxPosition \in Nat
  BY PickingAssumption, ScreenIsSmall, LenProperties
<1>1. Init => PickingInv
  <2> SUFFICES ASSUME Init PROVE PickingInv
    OBVIOUS
  <2>1. grid \in [0..Width * Height - 1 -> {0, 1}]
    BY DEF Init
  <2>2. /\ InitialScale + 1 \in 1..Len(PixelsPerUnit) /\ ppu \in Nat \ {0}
        /\ ppu = PixelsPerUnit[scaleFactorIdx + 1]
    BY <1>0 DEF Init
  <2>3. /\ position \in [x : -MaxPosition..MaxPosition, y : -MaxPosition..MaxPosition]
        /\ mouse \in [x : -Overshoot..WindowX + Overshoot, y : -Overshoot..WindowY + Overshoot]
        /\ position \in [x : Int, y : Int] /\ mouse \in [x : Int, y : Int]
    BY <1>0 DEF Init
  <2> QED BY <1>0, <2>1, <2>2, <2>3 DEF Init, PickingInv, TypeOK
<1>2. PickingInv /\ [Next]_vars => PickingInv'
  <2> SUFFICES ASSUME PickingInv, [Next]_vars PROVE PickingInv'
    OBVIOUS
  <2>1. CASE LoadTile
    <3>1. PICK t \in unread :
            /\ grid' = [grid EXCEPT ![CellOf(t[1], t[2])] = Read(t)]
            /\ unread' = unread \ {t}
      BY <2>1 DEF LoadTile, Read
    <3>2. /\ phase = "load" /\ phase' = "load"
          /\ UNCHANGED <<scaleFactorIdx, position, ppu, mouse, order>>
          /\ t \in MapTiles /\ unread \subseteq MapTiles
          /\ grid \in [0..Width * Height - 1 -> {0, 1}]
      BY <2>1 DEF LoadTile, PickingInv, TypeOK
    <3>3. /\ CellOf(t[1], t[2]) \in 0..Width * Height - 1
          /\ \A u \in MapTiles : CellOf(u[1], u[2]) = CellOf(t[1], t[2]) => u = t
      BY <3>2, CellsAreApart
    <3>4. grid' \in [0..Width * Height - 1 -> {0, 1}]
      BY <3>1, <3>2 DEF Read
    <3>5. ASSUME NEW u \in MapTiles \ unread'
          PROVE  grid'[CellOf(u[1], u[2])] = Read(u)
      <4>1. CASE u = t
        BY <3>1, <3>2, <3>3, <4>1
      <4>2. CASE u # t
        <5>1. u \in MapTiles \ unread /\ CellOf(u[1], u[2]) # CellOf(t[1], t[2])
          BY <3>1, <3>3, <4>2
        <5>2. CellOf(u[1], u[2]) \in 0..Width * Height - 1
          BY CellsAreApart
        <5>3. grid[CellOf(u[1], u[2])] = Read(u)
          BY <5>1 DEF PickingInv
        <5> QED BY <3>1, <3>2, <5>1, <5>2, <5>3
      <4> QED BY <4>1, <4>2
    <3> QED BY <3>1, <3>2, <3>4, <3>5 DEF PickingInv, TypeOK, Read
  <2>2. CASE Loaded
    <3>1. /\ phase = "load" /\ unread = {} /\ phase' = "camera"
          /\ UNCHANGED <<unread, grid, scaleFactorIdx, position, ppu, mouse, order>>
      BY <2>2 DEF Loaded
    <3>2. order = NoTile
      BY <3>1 DEF PickingInv
    <3> QED BY <3>1, <3>2 DEF PickingInv, TypeOK, Read
  <2>3. CASE MoveCamera
    <3>1. /\ phase = "camera" /\ phase' = "pick" /\ UNCHANGED <<unread, grid, mouse, order>>
      BY <2>3 DEF MoveCamera
    <3>2. scaleFactorIdx' \in 0..Len(PixelsPerUnit) - 1
      <4>1. PICK motion \in -MaxWheel..MaxWheel :
               scaleFactorIdx' = Clamped(scaleFactorIdx - motion)
        BY <2>3 DEF MoveCamera
      <4>2. scaleFactorIdx - motion \in Int
        BY PickingAssumption DEF PickingInv, TypeOK
      <4>3. \A n \in Int : Clamped(n) \in 0..Len(PixelsPerUnit) - 1
        BY <1>0 DEF Clamped
      <4> QED BY <4>1, <4>2, <4>3
    <3>3. /\ ppu' = PixelsPerUnit[scaleFactorIdx' + 1] /\ ppu' \in Nat \ {0}
      <4>1. /\ scaleFactorIdx' < Len(PixelsPerUnit)
            /\ scaleFactorIdx' + 1 \in 1..Len(PixelsPerUnit)
        <5>1. PICK n \in Nat : n = Len(PixelsPerUnit)
          BY <1>0
        <5>2. scaleFactorIdx' \in 0..n - 1
          BY <3>2, <5>1
        <5>3. scaleFactorIdx' < n /\ scaleFactorIdx' + 1 \in 1..n
          <6>1. \A l \in Nat : \A k \in 0..l - 1 : k < l /\ k + 1 \in 1..l
            OBVIOUS
          <6> QED BY <5>2, <6>1
        <5> QED BY <5>1, <5>3
      <4> QED BY <1>0, <2>3, <4>1 DEF MoveCamera
    <3>4. /\ position' \in [x : -MaxPosition..MaxPosition, y : -MaxPosition..MaxPosition]
          /\ position' \in [x : Int, y : Int]
      <4>1. PICK dx \in -1..1, dy \in -1..1, distance \in 1..MaxMove :
              /\ position' = [x |-> position.x + dx * distance, y |-> position.y + dy * distance]
              /\ {position'.x, position'.y} \subseteq -MaxPosition..MaxPosition
        BY <2>3 DEF MoveCamera
      <4>2. PICK a, b : /\ position' = [x |-> a, y |-> b]
                        /\ a \in -MaxPosition..MaxPosition /\ b \in -MaxPosition..MaxPosition
        BY <4>1
      <4>3. a \in Int /\ b \in Int
        BY <4>2
      <4> QED BY <4>2, <4>3
    <3> QED BY <3>1, <3>2, <3>3, <3>4 DEF PickingInv, TypeOK, Read
  <2>4. CASE Pick
    <3>1. /\ phase = "pick" /\ phase' = "camera"
          /\ UNCHANGED <<unread, grid, scaleFactorIdx, position, ppu>>
      BY <2>4 DEF Pick
    <3>2. PICK sx \in -Overshoot..WindowX + Overshoot, sy \in -Overshoot..WindowY + Overshoot :
            mouse' = [x |-> sx, y |-> sy]
      BY <2>4 DEF Pick
    <3>3. mouse' \in [x : Int, y : Int]
      BY <3>2
    <3>4. /\ ScreenPointToWorld(mouse)' = ScreenPointToWorld(mouse')
          /\ \A w : Query(w)' = Query(w) /\ WorldToTile(w)' = WorldToTile(w)
      BY <3>1 DEF ScreenPointToWorld, Snapped, Query, WorldToTile, Nearest
    <3>5. PICK clicked \in BOOLEAN :
            order' = IF clicked /\ Query(ScreenPointToWorld(mouse'))
                     THEN WorldToTile(ScreenPointToWorld(mouse')) ELSE NoTile
      BY <2>4 DEF Pick
    <3>6. order' # NoTile =>
            /\ (Query(ScreenPointToWorld(mouse)))'
            /\ order' = (WorldToTile(ScreenPointToWorld(mouse)))'
      BY <3>1, <3>5 DEF ScreenPointToWorld, Snapped, Query, WorldToTile, Nearest
    <3>7. order' = NoTile \/ order' \in Int \X Int
      <4>1. /\ Snapped(position.x) \in Int /\ Snapped(position.y) \in Int /\ ppu \in Nat \ {0}
        BY WorldIsInts
      <4>2. \A n \in Int : AsU32(n) \in Int
        BY PickingAssumption DEF AsU32
      <4>3. /\ ScreenPointToWorld(mouse').x \in Int /\ ScreenPointToWorld(mouse').y \in Int
        <5>1. mouse'.x \in Int /\ mouse'.y \in Int
          BY <3>2
        <5>2. PICK a, b : a = Snapped(position.x) /\ b = Snapped(position.y)
          OBVIOUS
        <5>3. PICK c \in Int : c = AsU32(mouse'.x)
          BY <4>2, <5>1
        <5>4. PICK d \in Int : d = WindowY - AsU32(mouse'.y)
          <6>1. AsU32(mouse'.y) \in Int
            BY <4>2, <5>1
          <6> QED BY <1>0, <6>1
        <5>5. PICK e \in Int : e = AsU32(d)
          BY <4>2
        <5>6. 2 * a + 2 * c - WindowX \in Int /\ 2 * b + 2 * e - WindowY \in Int
          <6>1. \A i, j, k \in Int : 2 * i + 2 * j - k \in Int
            OBVIOUS
          <6>2. a \in Int /\ b \in Int /\ WindowX \in Int /\ WindowY \in Int
            BY <1>0, <4>1, <5>2
          <6> QED BY <5>3, <5>5, <6>1, <6>2
        <5> QED BY <5>2, <5>3, <5>4, <5>5, <5>6 DEF ScreenPointToWorld
      <4>4. \A n \in Int : Nearest(n) \in Int
        BY <4>1 DEF Nearest, Trunc, Sign
      <4> QED BY <3>5, <4>3, <4>4 DEF WorldToTile
    <3>8. TypeOK'
      BY <3>1, <3>3, <3>7 DEF PickingInv, TypeOK
    <3> QED BY <3>1, <3>2, <3>6, <3>8 DEF PickingInv, Read
  <2>5. CASE UNCHANGED vars
    BY <2>5 DEF PickingInv, TypeOK, Read, ScreenPointToWorld, Snapped, Query, WorldToTile,
                Nearest, vars
  <2> QED BY <2>1, <2>2, <2>3, <2>4, <2>5 DEF Next
<1> QED BY <1>1, <1>2, PTL DEF Spec

-----------------------------------------------------------------------------
(* Rounding.                                                               *)

LEMMA NearestIsNear ==
    ASSUME ppu \in Nat \ {0}, NEW n \in Int
    PROVE  \E q \in Int : q = Nearest(n) /\ n - 2 * ppu * q \in -ppu..ppu
<1>1. PICK p \in Nat \ {0} : p = ppu
  OBVIOUS
<1>2. 4 * p \in Nat \ {0} /\ 2 * n + 2 * p \in Int /\ -(2 * n - 2 * p) \in Int
  BY <1>1
<1>3. CASE n > 0
  <2>1. PICK q \in Int, r \in 0..4 * p - 1 :
          2 * n + 2 * p = 4 * p * q + r /\ q = (2 * n + 2 * p) \div (4 * p)
    BY <1>2, Division
  <2>2. Nearest(n) = q
    BY <1>1, <1>3, <2>1 DEF Nearest, Trunc, Sign
  <2>3. PICK m \in Int : m = p * q
    BY <1>1
  <2>4. 4 * p * q = 4 * m /\ 2 * p * q = 2 * m
    BY <1>1, <2>3
  <2>5. n - 2 * m \in -p..p
    BY <1>1, <2>1, <2>4
  <2> QED BY <1>1, <2>2, <2>4, <2>5
<1>4. CASE n = 0
  <2>1. Nearest(n) = 0
    BY <1>1, <1>4 DEF Nearest, Trunc, Sign
  <2> QED BY <1>1, <1>4, <2>1
<1>5. CASE n < 0
  <2>1. PICK q \in Int, r \in 0..4 * p - 1 :
          -(2 * n - 2 * p) = 4 * p * q + r /\ q = (-(2 * n - 2 * p)) \div (4 * p)
    BY <1>2, Division
  <2>2. Nearest(n) = -q
    BY <1>1, <1>5, <2>1 DEF Nearest, Trunc, Sign
  <2>3. PICK m \in Int : m = p * q
    BY <1>1
  <2>4. 4 * p * q = 4 * m /\ 2 * p * (-q) = -(2 * m)
    BY <1>1, <2>3
  <2>5. n - (-(2 * m)) \in -p..p
    BY <1>1, <2>1, <2>4
  <2> QED BY <1>1, <2>2, <2>4, <2>5
<1> QED BY <1>3, <1>4, <1>5

(* A point less than half a tile from a tile's centre is nearest to it.    *)
LEMMA NearestIsUnique ==
    ASSUME ppu \in Nat \ {0}, NEW n \in Int, NEW t \in Int,
           n - 2 * ppu * t \in 1 - ppu..ppu - 1
    PROVE  Nearest(n) = t
<1>1. PICK p \in Nat \ {0} : p = ppu
  OBVIOUS
<1>2. PICK q \in Int : q = Nearest(n) /\ n - 2 * p * q \in -p..p
  BY <1>1, NearestIsNear
<1>3. t < q => 2 * p * (t + 1) <= 2 * p * q
  BY <1>1, MoreIsMore
<1>4. q < t => 2 * p * (q + 1) <= 2 * p * t
  BY <1>1, MoreIsMore
<1>5. /\ 2 * p * (t + 1) = 2 * p * t + 2 * p /\ 2 * p * (q + 1) = 2 * p * q + 2 * p
      /\ 2 * p * t \in Int /\ 2 * p * q \in Int
  BY <1>1
<1>6. n - 2 * p * t \in 1 - p..p - 1
  BY <1>1
<1>7. ~(t < q) /\ ~(q < t)
  BY <1>2, <1>3, <1>4, <1>5, <1>6
<1> QED BY <1>2, <1>7

LEMMA NearestIsFar ==
    ASSUME ppu \in Nat \ {0}, NEW n \in Int, NEW t \in Int, n >= 2 * ppu * t
    PROVE  Nearest(n) >= t
<1>1. PICK p \in Nat \ {0} : p = ppu
  OBVIOUS
<1>2. PICK q \in Int : q = Nearest(n) /\ n - 2 * p * q \in -p..p
  BY <1>1, NearestIsNear
<1>3. q < t => 2 * p * (q + 1) <= 2 * p * t
  BY <1>1, MoreIsMore
<1>4. 2 * p * (q + 1) = 2 * p * q + 2 * p /\ 2 * p * t \in Int /\ 2 * p * q \in Int
  BY <1>1
<1>5. n >= 2 * p * t
  BY <1>1
<1>6. ~(q < t)
  BY <1>1, <1>2, <1>3, <1>4, <1>5
<1> QED BY <1>2, <1>6

-----------------------------------------------------------------------------
(* Coordinates of the cursor as the code keeps them.                       *)

LEMMA Wraps ==
    ASSUME NEW n \in Int
    PROVE  /\ n \in 0..CoordRange - 1 => AsU32(n) = n
           /\ n \in -CoordRange..-1 => AsU32(n) = n + CoordRange
<1>1. PICK R \in Nat \ {0} : R = CoordRange
  BY PickingAssumption
<1>2. PICK q \in Int, r \in 0..R - 1 : n = R * q + r /\ r = n % R
  BY <1>1, Division
<1>3. /\ q >= 1 => R * 1 <= R * q
      /\ q >= 0 => R * 0 <= R * q
      /\ q <= -1 => R * q <= R * (-1)
      /\ q <= -2 => R * q <= R * (-2)
  BY <1>1, MoreIsMore
<1>4. R * 1 = R /\ R * 0 = 0 /\ R * (-1) = -R /\ R * (-2) = -(2 * R) /\ R * q \in Int
  BY <1>1
<1>5. n \in 0..R - 1 => q = 0
  BY <1>1, <1>2, <1>3, <1>4
<1>6. n \in -R..-1 => q = -1
  BY <1>1, <1>2, <1>3, <1>4
<1> QED BY <1>1, <1>2, <1>4, <1>5, <1>6 DEF AsU32

(* The camera is not further from the map than its position says.          *)
LEMMA SnappedIsBounded ==
    ASSUME ppu \in Nat \ {0}, NEW p \in -MaxPosition..MaxPosition
    PROVE  Snapped(p) \in Int /\ -(MaxPosition * ppu) <= Snapped(p)
<1>0. Grain \in Nat \ {0} /\ MaxPosition \in Nat
  BY PickingAssumption
<1>1. PICK u \in Nat \ {0} : u = ppu
  OBVIOUS
<1>2. PICK n \in Int : n = p * u
  BY <1>0, <1>1
<1>3. PICK m \in Nat : m = MaxPosition * u
  BY <1>0, <1>1
<1>4. -m <= n
  <2>1. u * (-p) <= u * MaxPosition
    BY <1>0, <1>1, MoreIsMore
  <2>2. u * (-p) = -n /\ u * MaxPosition = m
    BY <1>0, <1>1, <1>2, <1>3
  <2> QED BY <1>2, <1>3, <2>1, <2>2
<1>5. \A a \in Nat : a \div Grain \in Nat /\ a \div Grain <= a
  <2> TAKE a \in Nat
  <2>1. PICK q \in Int, r \in 0..Grain - 1 : a = Grain * q + r /\ q = a \div Grain
    BY <1>0, Division
  <2>2. q <= -1 => Grain * q <= Grain * (-1)
    BY <1>0, MoreIsMore
  <2>3. Grain * (-1) = -Grain /\ Grain * q \in Int
    BY <1>0
  <2>4. q \in Nat
    BY <1>0, <2>1, <2>2, <2>3
  <2>5. q * 1 <= q * Grain
    BY <1>0, <2>4, MoreIsMore
  <2>6. q * 1 = q /\ q * Grain = Grain * q
    BY <1>0, <2>4
  <2> QED BY <1>0, <2>1, <2>3, <2>4, <2>5, <2>6
<1>6. Snapped(p) = IF n >= 0 THEN n \div Grain ELSE -((-n) \div Grain)
  BY <1>1, <1>2 DEF Snapped, Trunc
<1>7. Snapped(p) \in Int /\ -m <= Snapped(p)
  <2>1. CASE n >= 0
    BY <1>2, <1>3, <1>5, <1>6, <2>1
  <2>2. CASE n < 0
    <3>1. -n \in Nat
      BY <1>2, <2>2
    <3>2. (-n) \div Grain \in Nat /\ (-n) \div Grain <= -n
      BY <1>5, <3>1
    <3> QED BY <1>2, <1>3, <1>4, <1>6, <2>2, <3>2
  <2> QED BY <1>2, <2>1, <2>2
<1> QED BY <1>1, <1>3, <1>7

(* Where the cursor is in the world, if it is not beyond the left or the   *)
(* lower edge of the window; beyond them it is found right of the map, or  *)
(* above it.                                                               *)
LEMMA CursorInWorld ==
    ASSUME PickingInv
    PROVE  /\ mouse.x >= 0 =>
                ScreenPointToWorld(mouse).x = 2 * Snapped(position.x) + 2 * mouse.x - WindowX
           /\ mouse.x < 0 => ScreenPointToWorld(mouse).x >= 2 * ppu * Width
           /\ mouse.y <= WindowY =>
                ScreenPointToWorld(mouse).y
                  = 2 * Snapped(position.y) + 2 * (WindowY - mouse.y) - WindowY
           /\ mouse.y > WindowY => ScreenPointToWorld(mouse).y >= 2 * ppu * 1
<1>0. /\ WindowX \in Nat /\ WindowY \in Nat /\ Overshoot \in Nat /\ MaxPosition \in Nat
      /\ CoordRange \in Nat \ {0} /\ Width \in Nat \ {0}
  BY PickingAssumption
<1>1. PICK u \in Nat \ {0} : u = ppu
  BY WorldIsInts
<1>2. Overshoot + WindowX + WindowY + (Width + MaxPosition) * u < CoordRange
  <2>1. scaleFactorIdx + 1 \in 1..Len(PixelsPerUnit) /\ ppu = PixelsPerUnit[scaleFactorIdx + 1]
    <3>1. PICK n \in Nat : n = Len(PixelsPerUnit)
      BY PickingAssumption, LenProperties
    <3>2. scaleFactorIdx \in 0..n - 1
      BY <3>1 DEF PickingInv, TypeOK
    <3>3. scaleFactorIdx + 1 \in 1..n
      BY <3>1, <3>2
    <3> QED BY <3>1, <3>3 DEF PickingInv
  <2> QED BY <1>1, <2>1, ScreenIsSmall
<1>3. PICK sx \in -Overshoot..WindowX + Overshoot : sx = mouse.x
  BY DEF PickingInv
<1>4. PICK sy \in -Overshoot..WindowY + Overshoot : sy = mouse.y
  BY DEF PickingInv
<1>5. PICK m \in Nat : m = MaxPosition * u
  BY <1>0, <1>1
<1>6. PICK w \in Nat : w = Width * u
  BY <1>0, <1>1
<1>7. (Width + MaxPosition) * u = w + m /\ 2 * u * Width = 2 * w /\ u <= w
  <2>1. u * 1 <= u * Width
    BY <1>0, <1>1, MoreIsMore
  <2> QED BY <1>0, <1>1, <1>5, <1>6, <2>1
<1>8. Overshoot + WindowX + WindowY + w + m < CoordRange
  BY <1>0, <1>2, <1>5, <1>6, <1>7
<1>9. PICK a \in Int : a = Snapped(position.x) /\ -m <= a
  <2>1. position.x \in -MaxPosition..MaxPosition
    BY DEF PickingInv
  <2> QED BY <1>1, <1>5, <2>1, SnappedIsBounded
<1>10. PICK b \in Int : b = Snapped(position.y) /\ -m <= b
  <2>1. position.y \in -MaxPosition..MaxPosition
    BY DEF PickingInv
  <2> QED BY <1>1, <1>5, <2>1, SnappedIsBounded
<1>11. /\ ScreenPointToWorld(mouse).x = 2 * a + 2 * AsU32(sx) - WindowX
       /\ ScreenPointToWorld(mouse).y = 2 * b + 2 * AsU32(WindowY - AsU32(sy)) - WindowY
  BY <1>3, <1>4, <1>9, <1>10 DEF ScreenPointToWorld
<1>12. /\ sx >= 0 => AsU32(sx) = sx
       /\ sx < 0 => AsU32(sx) = sx + CoordRange
  <2>1. /\ sx >= 0 => sx \in 0..CoordRange - 1
        /\ sx < 0 => sx \in -CoordRange..-1
    BY <1>0, <1>3, <1>5, <1>6, <1>8
  <2> QED BY <1>0, <1>3, <2>1, Wraps
<1>13. /\ sy <= WindowY => AsU32(WindowY - AsU32(sy)) = WindowY - sy
       /\ sy > WindowY => AsU32(WindowY - AsU32(sy)) = WindowY - sy + CoordRange
  <2>1. CASE sy < 0
    <3>1. /\ sy \in -CoordRange..-1 /\ WindowY - (sy + CoordRange) \in -CoordRange..-1
          /\ (WindowY - (sy + CoordRange)) + CoordRange = WindowY - sy /\ sy <= WindowY
      BY <1>0, <1>4, <1>5, <1>6, <1>8, <2>1
    <3>2. AsU32(sy) = sy + CoordRange
      BY <1>4, <3>1, Wraps
    <3>3. WindowY - (sy + CoordRange) \in Int
      BY <1>0, <1>4
    <3>4. AsU32(WindowY - (sy + CoordRange)) = (WindowY - (sy + CoordRange)) + CoordRange
      BY <3>1, <3>3, Wraps
    <3> QED BY <1>0, <1>4, <2>1, <3>1, <3>2, <3>4
  <2>2. CASE sy >= 0
    <3>1. /\ sy \in 0..CoordRange - 1
          /\ sy <= WindowY => WindowY - sy \in 0..CoordRange - 1
          /\ sy > WindowY => WindowY - sy \in -CoordRange..-1
      BY <1>0, <1>4, <1>5, <1>6, <1>8, <2>2
    <3>2. AsU32(sy) = sy
      BY <1>4, <3>1, Wraps
    <3>3. WindowY - sy \in Int
      BY <1>0, <1>4
    <3> QED BY <3>1, <3>2, <3>3, Wraps
  <2> QED BY <1>4, <2>1, <2>2
<1>14. /\ sx >= 0 => 2 * a + 2 * AsU32(sx) - WindowX = 2 * a + 2 * sx - WindowX
       /\ sx < 0 => 2 * a + 2 * AsU32(sx) - WindowX >= 2 * w
  <2>1. sx < 0 => 2 * a + 2 * (sx + CoordRange) - WindowX >= 2 * w
    BY <1>0, <1>3, <1>5, <1>6, <1>8, <1>9
  <2> QED BY <1>12, <2>1
<1>15. /\ sy <= WindowY =>
            2 * b + 2 * AsU32(WindowY - AsU32(sy)) - WindowY = 2 * b + 2 * (WindowY - sy) - WindowY
       /\ sy > WindowY => 2 * b + 2 * AsU32(WindowY - AsU32(sy)) - WindowY >= 2 * u * 1
  <2>1. sy > WindowY => 2 * b + 2 * (WindowY - sy + CoordRange) - WindowY >= 2 * u * 1
    BY <1>0, <1>1, <1>4, <1>5, <1>6, <1>7, <1>8, <1>10
  <2> QED BY <1>13, <2>1
<1> QED BY <1>1, <1>3, <1>4, <1>7, <1>9, <1>10, <1>11, <1>14, <1>15

-----------------------------------------------------------------------------
(* How far the cursor is from the tile that is looked up, on the screen    *)
(* and in the world.                                                       *)
LEMMA SameDistance ==
    ASSUME PickingInv, mouse.x >= 0, mouse.y <= WindowY, NEW t \in Int \X Int
    PROVE  /\ FromCursor(t).x = ScreenPointToWorld(mouse).x - 2 * ppu * t[1]
           /\ FromCursor(t).y = -(ScreenPointToWorld(mouse).y + 2 * ppu * t[2])
<1>1. PICK u \in Nat \ {0} : u = ppu
  BY WorldIsInts
<1>2. PICK a \in Int : a = Snapped(position.x)
  BY WorldIsInts
<1>3. PICK b \in Int : b = Snapped(position.y)
  BY WorldIsInts
<1>4. PICK sx \in Int : sx = mouse.x
  BY DEF PickingInv, TypeOK
<1>5. PICK sy \in Int : sy = mouse.y
  BY DEF PickingInv, TypeOK
<1>6. PICK m \in Int : m = 2 * u * t[1]
  BY <1>1
<1>7. PICK n \in Int : n = 2 * u * t[2]
  BY <1>1
<1>8. WindowX \in Int /\ WindowY \in Int
  BY PickingAssumption
<1>9. /\ FromCursor(t).x = 2 * sx - (m - 2 * a + WindowX)
      /\ FromCursor(t).y = 2 * sy - (2 * WindowY - (-n - 2 * b + WindowY))
  BY <1>1, <1>2, <1>3, <1>4, <1>5, <1>6, <1>7 DEF FromCursor, WorldPointToScreen
<1>10. /\ ScreenPointToWorld(mouse).x = 2 * a + 2 * sx - WindowX
       /\ ScreenPointToWorld(mouse).y = 2 * b + 2 * (WindowY - sy) - WindowY
  BY <1>2, <1>3, <1>4, <1>5, CursorInWorld
<1>11. /\ 2 * sx - (m - 2 * a + WindowX) = (2 * a + 2 * sx - WindowX) - m
       /\ 2 * sy - (2 * WindowY - (-n - 2 * b + WindowY))
            = -((2 * b + 2 * (WindowY - sy) - WindowY) + n)
  BY <1>2, <1>3, <1>4, <1>5, <1>6, <1>7, <1>8
<1> QED BY <1>1, <1>6, <1>7, <1>9, <1>10, <1>11

LEMMA GridIsRead ==
    ASSUME PickingInv, phase # "load", NEW t \in MapTiles
    PROVE  grid[CellOf(t[1], t[2])] = 1 <=> t \in BuildingAllowed
BY DEF PickingInv, Read

(* A click orders a tower on the tile under the cursor, or none.           *)
THEOREM ClicksHitTheirTile == Spec => []OrdersUnderCursor
<1>1. PickingInv => OrdersUnderCursor
  <2> SUFFICES ASSUME PickingInv, order # NoTile, phase = "camera"
               PROVE  /\ <<order[1], -order[2]>> \in BuildingAllowed
                      /\ Covers(<<order[1], -order[2]>>)
    BY DEF OrdersUnderCursor
  <2>0. Width \in Nat \ {0} /\ Height \in Nat \ {0} /\ ppu \in Nat \ {0}
    BY PickingAssumption, WorldIsInts
  <2>1. PICK wx \in Int : wx = ScreenPointToWorld(mouse).x
    BY WorldIsInts
  <2>2. PICK wy \in Int : wy = ScreenPointToWorld(mouse).y
    BY WorldIsInts
  <2>3. PICK x \in Int : x = Nearest(wx) /\ wx - 2 * ppu * x \in -ppu..ppu
    BY <2>0, <2>1, NearestIsNear
  <2>4. PICK y \in Int : y = Nearest(wy) /\ wy - 2 * ppu * y \in -ppu..ppu
    BY <2>0, <2>2, NearestIsNear
  <2>5. Query(ScreenPointToWorld(mouse)) /\ order = WorldToTile(ScreenPointToWorld(mouse))
    BY DEF PickingInv
  <2>6. WorldToTile(ScreenPointToWorld(mouse)) = <<x, y>>
    BY <2>1, <2>2, <2>3, <2>4 DEF WorldToTile
  <2>7. /\ x \in 0..Width - 1 /\ -y \in 0..Height - 1 /\ grid[CellOf(x, -y)] = 1
        /\ order[1] = x /\ order[2] = y
    BY <2>5, <2>6 DEF Query
  <2>8. <<x, -y>> \in BuildingAllowed
    <3>1. <<x, -y>> \in MapTiles
      BY <2>7 DEF MapTiles
    <3> QED BY <2>7, <3>1, GridIsRead
  <2>9. mouse.x >= 0 /\ mouse.y <= WindowY
    <3>1. mouse.x \in Int /\ mouse.y \in Int /\ WindowY \in Int
      BY PickingAssumption DEF PickingInv, TypeOK
    <3>2. ~(mouse.x < 0)
      <4>1. mouse.x < 0 => wx >= 2 * ppu * Width
        BY <2>1, CursorInWorld
      <4>2. mouse.x < 0 => x >= Width
        BY <2>0, <2>1, <2>3, <4>1, NearestIsFar
      <4> QED BY <2>0, <2>3, <2>7, <4>2
    <3>3. ~(mouse.y > WindowY)
      <4>1. mouse.y > WindowY => wy >= 2 * ppu * 1
        BY <2>2, CursorInWorld
      <4>2. mouse.y > WindowY => y >= 1
        BY <2>0, <2>2, <2>4, <4>1, NearestIsFar
      <4> QED BY <2>0, <2>4, <2>7, <4>2
    <3> QED BY <3>1, <3>2, <3>3
  <2>10. /\ FromCursor(<<x, -y>>).x = wx - 2 * ppu * x
         /\ FromCursor(<<x, -y>>).y = -(wy + 2 * ppu * (-y))
    <3>1. <<x, -y>> \in Int \X Int
      BY <2>3, <2>4
    <3> QED BY <2>1, <2>2, <2>9, <3>1, SameDistance
  <2>11. {FromCursor(<<x, -y>>).x, FromCursor(<<x, -y>>).y} \subseteq -ppu..ppu
    <3>1. PICK u \in Nat \ {0} : u = ppu
      BY <2>0
    <3>2. PICK n \in Int : n = 2 * u * y
      BY <2>4, <3>1
    <3>3. 2 * u * (-y) = -n
      BY <2>4, <3>1, <3>2
    <3>4. -(wy + -n) \in -u..u
      BY <2>2, <2>4, <3>1, <3>2
    <3> QED BY <2>3, <2>10, <3>1, <3>3, <3>4
  <2> QED BY <2>7, <2>8, <2>11 DEF Covers
<1> QED BY <1>1, PickingInvariant, PTL

(* A click inside of the outline of a buildable tile is never lost.        *)
THEOREM NoClickIsLost == Spec => []NoDeadSpots
<1>1. PickingInv => NoDeadSpots
  <2> SUFFICES ASSUME PickingInv, phase = "camera", CursorInWindow,
                      NEW t \in BuildingAllowed, StrictlyCovers(t)
               PROVE  Query(ScreenPointToWorld(mouse))
    BY DEF NoDeadSpots
  <2>0. Width \in Nat \ {0} /\ Height \in Nat \ {0} /\ ppu \in Nat \ {0}
    BY PickingAssumption, WorldIsInts
  <2>1. /\ t \in MapTiles /\ t = <<t[1], t[2]>>
        /\ t[1] \in 0..Width - 1 /\ t[2] \in 0..Height - 1
        /\ t \in Int \X Int /\ t[1] \in Int /\ t[2] \in Int
    BY <2>0, PickingAssumption DEF MapTiles
  <2>2. PICK wx \in Int : wx = ScreenPointToWorld(mouse).x
    BY WorldIsInts
  <2>3. PICK wy \in Int : wy = ScreenPointToWorld(mouse).y
    BY WorldIsInts
  <2>4. mouse.x >= 0 /\ mouse.y <= WindowY
    BY PickingAssumption DEF CursorInWindow
  <2>5. /\ FromCursor(t).x = wx - 2 * ppu * t[1]
        /\ FromCursor(t).y = -(wy + 2 * ppu * t[2])
    BY <2>1, <2>2, <2>3, <2>4, SameDistance
  <2>6. Nearest(wx) = t[1]
    <3>1. wx - 2 * ppu * t[1] \in 1 - ppu..ppu - 1
      BY <2>5 DEF StrictlyCovers
    <3> QED BY <2>0, <2>1, <2>2, <3>1, NearestIsUnique
  <2>7. Nearest(wy) = -t[2]
    <3>1. -(wy + 2 * ppu * t[2]) \in 1 - ppu..ppu - 1
      BY <2>5 DEF StrictlyCovers
    <3>2. PICK u \in Nat \ {0} : u = ppu
      BY <2>0
    <3>3. PICK n \in Int : n = 2 * u * t[2]
      BY <2>1, <3>2
    <3>4. 2 * u * (-t[2]) = -n
      BY <2>1, <3>2, <3>3
    <3>5. wy - -n \in 1 - u..u - 1
      BY <2>3, <3>1, <3>2, <3>3
    <3>6. -t[2] \in Int /\ wy - 2 * ppu * (-t[2]) \in 1 - ppu..ppu - 1
      BY <2>1, <3>2, <3>4, <3>5
    <3> QED BY <2>0, <2>3, <3>6, NearestIsUnique
  <2>8. WorldToTile(ScreenPointToWorld(mouse)) = <<t[1], -t[2]>> /\ -(-t[2]) = t[2]
    BY <2>1, <2>2, <2>3, <2>6, <2>7 DEF WorldToTile
  <2>9. grid[CellOf(t[1], t[2])] = 1
    BY <2>1, GridIsRead
  <2> QED BY <2>1, <2>8, <2>9 DEF Query
<1> QED BY <1>1, PickingInvariant, PTL

=============================================================================
