----------------------------- MODULE MCProcess -----------------------------
(* Small maps: one tileset or two, with and without borders and gaps, the  *)
(* second one described or not; up to two layers of tiles around a layer   *)
(* of objects; paths of up to four points; towers and enemies between      *)
(* objects of other kinds.                                                 *)
EXTENDS Process

Sheet(first, count, columns, border, described) ==
    [first |-> first, count |-> count, columns |-> columns, margin |-> border,
     spacing |-> 2 * border, width |-> 2, height |-> 3, described |-> described]

Tilesets ==
    {<<Sheet(1, 5, 3, 0, {4})>>, <<Sheet(1, 5, 2, 1, {0, 2})>>} \cup
    {<<Sheet(1, 3, 2, 1, {1}), Sheet(first, 4, 3, 0, described)>> :
       first \in {4, 6}, described \in {{}, {0, 1}}}

Objects == [type |-> "objects"]
Tiles(f) == [type |-> "tile", tiles |-> f]
Spots == {<<0, 0>>, <<1, 2>>}

LayerLists(sheets) ==
    LET last == sheets[Len(sheets)]
        some == [Spots -> {1, last.first + last.count - 1}] \cup {<<>>}
    IN  {<<Tiles(f)>> : f \in some} \cup {<<Tiles(f), Objects, Tiles(g)>> : f, g \in some}

Step(p, dx, dy) == [x |-> p.x + dx, y |-> p.y + dy]
Origin == [x |-> 0, y |-> 0]
Polylines ==
    {<<Origin, Step(Origin, dx, 0)>> : dx \in {2, 7}} \cup
    {<<Origin, Step(Origin, dx, 0), Step(Origin, dx, dy), Step(Origin, 0, dy)>> :
       dx \in {2, 7}, dy \in {1, 5}}
Paths == {[x |-> x, y |-> y, points |-> points] : x \in {0, 1}, y \in {1, 6}, points \in Polylines}

Object(data) == [type |-> "object", data |-> data]
Text == [type |-> "text"]
EnemyLayers == {<<Object("basic")>>, <<Text, Object("basic"), Object("tank")>>}
TowerLayers == {<<Object("gun")>>, <<Object("gun"), Text, Object("mortar"), Object("sniper")>>}

(* Tiles, paths and types do not meet in the code: each varies by itself.  *)
APath == CHOOSE path \in Paths : Len(path.points) = 2
MCMaps ==
    UNION {{[tilesets |-> sheets, layers |-> layers, path |-> APath,
             enemies |-> <<Object("basic")>>, towers |-> <<Object("gun")>>] :
              layers \in LayerLists(sheets)} : sheets \in Tilesets} \cup
    {[tilesets |-> <<Sheet(1, 5, 3, 0, {4})>>, layers |-> <<Objects>>, path |-> path,
      enemies |-> enemies, towers |-> towers] :
        path \in Paths, enemies \in EnemyLayers, towers \in TowerLayers}

=============================================================================
