------------------------------ MODULE MapLoad ------------------------------
(***************************************************************************)
(* GameSession::FromMap: what the parsed map becomes.  TilesetHelper       *)
(* (tileset_helper.cpp) loads the tilesets and turns the tile layers into  *)
(* the list of sprites that is drawn every frame; MapData::Load            *)
(* (map_data.cpp) reads the enemies' path and the types of entities        *)
(* (entity_types.cpp).  The grid of buildable tiles is in TilePicking.     *)
(*                                                                         *)
(* Texture coordinates are in texels.  A path's points are in pixels of    *)
(* the map, its waypoints in half pixels of the world, y upwards; a map    *)
(* whose path is rotated is left out, and segments run along the axes.     *)
(***************************************************************************)
EXTENDS Integers, Sequences, SequencesExt, Tally

CONSTANTS
    Maps,               \* the parsed maps: tilesets, layers, path, enemies, towers
    TileSize            \* map.getTileSize(), in pixels

Cells == Nat \X Nat
Points == [x : Int, y : Int]

Sizes == Nat \ {0}
Layouts ==
    [first : Nat, count : Sizes, columns : Sizes, margin : Nat, spacing : Nat,
     width : Sizes, height : Sizes, described : SUBSET Nat]

GidsOf(tileset) == tileset.first..tileset.first + tileset.count - 1

IsTileLayer(layer) == layer.type = "tile"

(* What Tiled writes: ranges of tile ids from 1 in ascending order, and no *)
(* tile outside of them.  No tile is flipped: Tileson would hand out a     *)
(* null tile, or none.                                                     *)
WellFormed(map) ==
    /\ map.tilesets \in Seq(Layouts)
    /\ \A k \in 1..Len(map.tilesets) :
         LET ts == map.tilesets[k]
         IN  /\ ts.described \subseteq 0..ts.count - 1
             /\ k = 1 => ts.first = 1
             /\ \A l \in k + 1..Len(map.tilesets) : Max(GidsOf(ts)) < map.tilesets[l].first
    /\ map.layers \in Seq(ToSet(map.layers))
    /\ \A l \in 1..Len(map.layers) : IsTileLayer(map.layers[l]) =>
         /\ IsFiniteSet(DOMAIN map.layers[l].tiles)
         /\ \A c \in DOMAIN map.layers[l].tiles :
              c \in Cells /\ \E k \in 1..Len(map.tilesets) :
                               map.layers[l].tiles[c] \in GidsOf(map.tilesets[k])
    /\ map.path \in [x : Int, y : Int, points : Seq(Points)]

ASSUME MapAssumption == TileSize \in Nat \ {0} /\ \A map \in Maps : WellFormed(map)

VARIABLES
    map,                \* the parsed map
    phase,
    tilesets,           \* m_Tilesets
    layersRendered, spriteLayer,
    unread,             \* cells of the layer being rendered, not visited yet
    drawList,           \* m_StaticMapDrawList
    waypoints, distancesToGoal,
    toSum,              \* i + 1 of the loop over the distances
    enemyTypes, towerTypes, projectileTypes

tileVars == <<tilesets, layersRendered, spriteLayer, unread, drawList>>
pathVars == <<waypoints, distancesToGoal, toSum>>
typeVars == <<enemyTypes, towerTypes, projectileTypes>>
sessionVars == <<map, phase, tileVars, pathVars, typeVars>>

SessionInit ==
    /\ map \in Maps
    /\ phase = "tilesets"
    /\ tilesets = <<>>
    /\ layersRendered = 0 /\ spriteLayer = 0 /\ unread = {} /\ drawList = <<>>
    /\ waypoints = <<>> /\ distancesToGoal = <<>> /\ toSum = 0
    /\ enemyTypes = <<>> /\ towerTypes = <<>> /\ projectileTypes = <<>>

-----------------------------------------------------------------------------
(* Tileson's table of tiles, as far as the code reads it.  A tile that the *)
(* file describes is filed under its place in its tileset plus one, any    *)
(* other tile under its id; later tilesets overwrite earlier ones.         *)
Plain == <<>>

TileMap(id) ==
    LET Files(k) == \/ id - 1 \in map.tilesets[k].described
                    \/ id \in GidsOf(map.tilesets[k])
        k == Max({n \in 1..Len(map.tilesets) : Files(n)})
    IN  IF id - 1 \in map.tilesets[k].described THEN <<k, id - 1>> ELSE Plain

(* Seeded fault: the loop reads the first tile over and over.              *)
BaseRotations_OfFirst(tileset) == [i \in 1..tileset.count |-> TileMap(tileset.first)]
BaseRotations(tileset) == [i \in 1..tileset.count |-> TileMap(i - 1 + tileset.first)]

LoadTileset ==
    /\ phase = "tilesets" /\ Len(tilesets) < Len(map.tilesets)
    /\ LET tileset == map.tilesets[Len(tilesets) + 1]
       IN  tilesets' = Append(tilesets, [layout |-> tileset, texture |-> Len(tilesets) + 1,
                                         rotations |-> BaseRotations(tileset)])
    /\ UNCHANGED <<map, phase, layersRendered, spriteLayer, unread, drawList, pathVars, typeVars>>

TilesetsDone ==
    /\ phase = "tilesets" /\ Len(tilesets) = Len(map.tilesets)
    /\ phase' = "layers"
    /\ UNCHANGED <<map, tileVars, pathVars, typeVars>>

(* Seeded fault: the range of a tileset is closed at both ends.            *)
Owns_OneMore(tileset, id) == id \in tileset.first..tileset.first + tileset.count
Owns(tileset, id) == tileset.first <= id /\ id < tileset.first + tileset.count

(* Where a tile lies in the texture of its tileset.                        *)
TexelRect(ts, i) ==
    [x |-> ts.margin + ts.width * (i % ts.columns) + ts.spacing * (i % ts.columns),
     y |-> ts.margin + ts.height * (i \div ts.columns) + ts.spacing * (i \div ts.columns),
     width |-> ts.width, height |-> ts.height]

NoSource == [texture |-> 0]     \* a sprite without a texture

GetTileSpriteSrc(id) ==
    LET owners == {k \in 1..Len(tilesets) : Owns(tilesets[k].layout, id)}
        ts == tilesets[Min(owners)]
        i == id - ts.layout.first
    IN  IF owners = {} THEN NoSource
        ELSE [texture |-> ts.texture, uv |-> TexelRect(ts.layout, i),
              baseRotation |-> ts.rotations[i + 1]]

(* Seeded fault: y is not turned.                                          *)
TileSprite_Upright(layer, c) ==
    [position |-> c, layer |-> spriteLayer, src |-> GetTileSpriteSrc(layer.tiles[c])]
TileSprite(layer, c) ==
    [position |-> <<c[1], -c[2]>>, layer |-> spriteLayer, src |-> GetTileSpriteSrc(layer.tiles[c])]

(* Tileson keeps the cells of a layer sorted by x, then y.                 *)
Before(c, d) == c[1] < d[1] \/ (c[1] = d[1] /\ c[2] < d[2])

Layer == map.layers[layersRendered + 1]

SkipLayer ==
    /\ phase = "layers" /\ layersRendered < Len(map.layers) /\ ~IsTileLayer(Layer)
    /\ layersRendered' = layersRendered + 1
    /\ UNCHANGED <<map, phase, tilesets, spriteLayer, unread, drawList, pathVars, typeVars>>

RenderTileLayer ==
    /\ phase = "layers" /\ layersRendered < Len(map.layers) /\ IsTileLayer(Layer)
    /\ unread' = DOMAIN Layer.tiles
    /\ phase' = "tiles"
    /\ UNCHANGED <<map, tilesets, layersRendered, spriteLayer, drawList, pathVars, typeVars>>

RenderTile ==
    /\ phase = "tiles"
    /\ \E c \in unread :
         /\ \A d \in unread \ {c} : Before(c, d)
         /\ drawList' = Append(drawList, TileSprite(Layer, c))
         /\ unread' = unread \ {c}
    /\ UNCHANGED <<map, phase, tilesets, layersRendered, spriteLayer, pathVars, typeVars>>

TileLayerDone ==
    /\ phase = "tiles" /\ unread = {}
    /\ spriteLayer' = (spriteLayer + 1) % 256
    /\ layersRendered' = layersRendered + 1
    /\ phase' = "layers"
    /\ UNCHANGED <<map, tilesets, unread, drawList, pathVars, typeVars>>

LayersDone ==
    /\ phase = "layers" /\ layersRendered = Len(map.layers)
    /\ phase' = "path"
    /\ UNCHANGED <<map, tileVars, pathVars, typeVars>>

-----------------------------------------------------------------------------
(* EnemyPath::Load into a fresh path.                                      *)

Waypoint(p) ==
    [x |-> 2 * (map.path.x + p.x) - TileSize, y |-> -(2 * (map.path.y + p.y)) + TileSize]

LoadWaypoint ==
    /\ phase = "path" /\ Len(waypoints) < Len(map.path.points)
    /\ waypoints' = Append(waypoints, Waypoint(map.path.points[Len(waypoints) + 1]))
    /\ UNCHANGED <<map, phase, tileVars, distancesToGoal, toSum, typeVars>>

WaypointsDone ==
    /\ phase = "path" /\ Len(waypoints) = Len(map.path.points)
    /\ distancesToGoal' = [k \in 1..Len(waypoints) |-> 0]
    /\ toSum' = Len(waypoints) - 1
    /\ phase' = "distances"
    /\ UNCHANGED <<map, tileVars, waypoints, typeVars>>

Abs(n) == IF n < 0 THEN -n ELSE n
Distance(a, b) == Abs(a.x - b.x) + Abs(a.y - b.y)

SumDistance ==
    /\ phase = "distances" /\ toSum >= 1
    /\ distancesToGoal' = [distancesToGoal EXCEPT ![toSum] =
         distancesToGoal[toSum + 1] + Distance(waypoints[toSum], waypoints[toSum + 1])]
    /\ toSum' = toSum - 1
    /\ UNCHANGED <<map, phase, tileVars, waypoints, typeVars>>

(* Seeded fault: the loop stops before the first waypoint.                 *)
DistancesDone_BeforeFirst ==
    /\ phase = "distances" /\ toSum < 2
    /\ phase' = "enemies"
    /\ UNCHANGED <<map, tileVars, pathVars, typeVars>>
DistancesDone ==
    /\ phase = "distances" /\ toSum < 1
    /\ phase' = "enemies"
    /\ UNCHANGED <<map, tileVars, pathVars, typeVars>>

-----------------------------------------------------------------------------
(* LoadEntityTypes: of the objects of a layer only those of Tiled's type   *)
(* Object are taken.                                                       *)
ObjectsIn(layer) == SelectSeq(layer, LAMBDA o : o.type = "object")

LoadEnemyType ==
    /\ phase = "enemies" /\ Len(enemyTypes) < Len(ObjectsIn(map.enemies))
    /\ enemyTypes' = Append(enemyTypes, ObjectsIn(map.enemies)[Len(enemyTypes) + 1].data)
    /\ UNCHANGED <<map, phase, tileVars, pathVars, towerTypes, projectileTypes>>

EnemyTypesDone ==
    /\ phase = "enemies" /\ Len(enemyTypes) = Len(ObjectsIn(map.enemies))
    /\ phase' = "towers"
    /\ UNCHANGED <<map, tileVars, pathVars, typeVars>>

(* Seeded fault: the size is taken for the index of the last.              *)
NewestIndex_Size(types) == Len(types)
NewestIndex(types) == Len(types) - 1

LoadTowerType ==
    /\ phase = "towers" /\ Len(towerTypes) < Len(ObjectsIn(map.towers))
    /\ LET data == ObjectsIn(map.towers)[Len(towerTypes) + 1].data
       IN  /\ projectileTypes' = Append(projectileTypes, data)
           /\ towerTypes' = Append(towerTypes, [data |-> data, projectileTypeIdx |-> NewestIndex(projectileTypes')])
    /\ UNCHANGED <<map, phase, tileVars, pathVars, enemyTypes>>

TowerTypesDone ==
    /\ phase = "towers" /\ Len(towerTypes) = Len(ObjectsIn(map.towers))
    /\ phase' = "loaded"
    /\ UNCHANGED <<map, tileVars, pathVars, typeVars>>

FromMap ==
    \/ LoadTileset \/ TilesetsDone
    \/ SkipLayer \/ RenderTileLayer \/ RenderTile \/ TileLayerDone \/ LayersDone
    \/ LoadWaypoint \/ WaypointsDone \/ SumDistance \/ DistancesDone
    \/ LoadEnemyType \/ EnemyTypesDone \/ LoadTowerType \/ TowerTypesDone

-----------------------------------------------------------------------------
(* Properties.                                                             *)

(* Every tile of every tileset is found again by its id, as a rectangle    *)
(* inside its own tileset's image that overlaps no other tile's.           *)
ImageOf(ts) ==
    LET rows == (ts.count + ts.columns - 1) \div ts.columns
    IN  [width |-> ts.margin + ts.columns * (ts.width + ts.spacing) - ts.spacing,
         height |-> ts.margin + rows * (ts.height + ts.spacing) - ts.spacing]

Apart(r, s) ==
    \/ r.x + r.width <= s.x \/ s.x + s.width <= r.x
    \/ r.y + r.height <= s.y \/ s.y + s.height <= r.y

TilesKeepApart ==
    phase # "tilesets" =>
      \A k \in 1..Len(tilesets) :
        LET ts == map.tilesets[k]
            uv(id) == GetTileSpriteSrc(id).uv
        IN  \A id \in GidsOf(ts) :
              /\ GetTileSpriteSrc(id).texture = k
              /\ uv(id).x + uv(id).width <= ImageOf(ts).width
              /\ uv(id).y + uv(id).height <= ImageOf(ts).height
              /\ \A other \in GidsOf(ts) \ {id} : Apart(uv(id), uv(other))

(* A tile is turned as its description says, and a tile without one not at *)
(* all, as long as only the first tileset describes tiles: Tileson mixes   *)
(* up those of the others.                                                 *)
OnlyFirstDescribes == \A k \in 2..Len(map.tilesets) : map.tilesets[k].described = {}

TilesTurnedAsDescribed ==
    phase # "tilesets" /\ OnlyFirstDescribes =>
      \A k \in 1..Len(tilesets) : \A i \in 0..map.tilesets[k].count - 1 :
        GetTileSpriteSrc(map.tilesets[k].first + i).baseRotation =
          IF i \in map.tilesets[k].described THEN <<k, i>> ELSE Plain

TilesAsAuthored == TilesKeepApart /\ TilesTurnedAsDescribed

(* The static draw list, drawn unsorted, is the map: one sprite for every  *)
(* tile of every tile layer, where the tile is, and lower layers first.    *)
(* The layers are numbered in a byte.                                      *)
LayersBelow(l) == Cardinality({k \in 1..l - 1 : IsTileLayer(map.layers[k])})

TilesOf(layer) == IF IsTileLayer(layer) THEN Cardinality(DOMAIN layer.tiles) ELSE 0

LayersAsAuthored ==
    phase \notin {"tilesets", "layers", "tiles"} /\ LayersBelow(Len(map.layers) + 1) <= 256 =>
      /\ Len(drawList) = Total([l \in 1..Len(map.layers) |-> TilesOf(map.layers[l])])
      /\ \A l \in 1..Len(map.layers) : IsTileLayer(map.layers[l]) =>
           \A c \in DOMAIN map.layers[l].tiles : \E n \in 1..Len(drawList) :
             drawList[n] = [position |-> <<c[1], -c[2]>>, layer |-> LayersBelow(l),
                            src |-> GetTileSpriteSrc(map.layers[l].tiles[c])]
      /\ \A m, n \in 1..Len(drawList) : m < n => drawList[m].layer <= drawList[n].layer

(* The enemies walk where the path was drawn: a point inside a tile of the *)
(* map becomes a waypoint on the sprite of that tile.  And what a waypoint *)
(* says is left to the goal is the length of the path from there on, which *)
(* is how an enemy knows who is ahead of it.                               *)
OnItsTile(p, w) ==
    LET tx == p.x \div TileSize
        ty == p.y \div TileSize
    IN  p.x % TileSize # 0 /\ p.y % TileSize # 0 =>
          /\ Abs(w.x - 2 * TileSize * tx) < TileSize
          /\ Abs(w.y + 2 * TileSize * ty) < TileSize

PathAsDrawn ==
    phase \notin {"tilesets", "layers", "tiles", "path", "distances"} =>
      /\ \A k \in 1..Len(waypoints) :
           OnItsTile([x |-> map.path.x + map.path.points[k].x,
                      y |-> map.path.y + map.path.points[k].y], waypoints[k])
      /\ \A k \in 1..Len(waypoints) :
           distancesToGoal[k] =
             Total([n \in k..Len(waypoints) - 1 |-> Distance(waypoints[n], waypoints[n + 1])])

(* Towers fire the projectile their own object describes: the two lists,   *)
(* tied together by an index, stay in step although objects are skipped.   *)
OwnProjectile ==
    phase = "loaded" =>
      /\ enemyTypes = [k \in 1..Len(enemyTypes) |-> ObjectsIn(map.enemies)[k].data]
      /\ \A k \in 1..Len(towerTypes) :
           /\ towerTypes[k].projectileTypeIdx \in 0..Len(projectileTypes) - 1
           /\ projectileTypes[towerTypes[k].projectileTypeIdx + 1] = towerTypes[k].data

=============================================================================
