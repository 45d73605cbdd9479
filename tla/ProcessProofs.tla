--------------------------- MODULE ProcessProofs ---------------------------
(***************************************************************************)
(* The process and its session, proved.  First the start and the end, for  *)
(* every way the start-up can go: what is held is always held together     *)
(* with what it was made from, and main returns with nothing held but      *)
(* ImGui.  Then what FromMap makes of a map, for every well-formed map:    *)
(* the types of entities, the path, the list of sprites and the tilesets.  *)
(***************************************************************************)
EXTENDS Process, ListProofs


(* The two orders, place by place.                                         *)
LEMMA StartupOrder ==
    /\ Len(Startup) = 13
    /\ Startup[1] = "sdl" /\ Startup[2] = "image" /\ Startup[3] = "window"
    /\ Startup[4] = "device" /\ Startup[5] = "missing" /\ Startup[6] = "swapchain"
    /\ Startup[7] = "pipeline" /\ Startup[8] = "imgui" /\ Startup[9] = "im3d"
    /\ Startup[10] = "audio" /\ Startup[11] = "session" /\ Startup[12] = "music"
    /\ Startup[13] = "effect"
BY DEF Startup, OfMain, OfEngine, OfRender, OfUi, OfGame

LEMMA TeardownOrder ==
    /\ Len(Teardown) = 12
    /\ Teardown[1] = "effect" /\ Teardown[2] = "music" /\ Teardown[3] = "session"
    /\ Teardown[4] = "audio" /\ Teardown[5] = "im3d" /\ Teardown[6] = "missing"
    /\ Teardown[7] = "pipeline" /\ Teardown[8] = "swapchain" /\ Teardown[9] = "device"
    /\ Teardown[10] = "window" /\ Teardown[11] = "image" /\ Teardown[12] = "sdl"
BY DEF Teardown

LEMMA AllResources ==
    /\ Resources = {"video", "sound", "image", "window", "device", "missing", "swapchain",
                    "pipeline", "context", "imgui", "im3d", "audio", "session", "music", "effect"}
    /\ \A i \in 1..13 : Makes(Startup[i]) \subseteq Resources
<1>1. DOMAIN Startup = 1..13
  BY DEF Startup, OfMain, OfEngine, OfRender, OfUi, OfGame
<1>2. \A i \in 1..13 : i \in {1, 2, 3, 4, 5, 6, 7, 8, 9, 10, 11, 12, 13}
  OBVIOUS
<1>3. ToSet(Startup) = {"sdl", "image", "window", "device", "missing", "swapchain", "pipeline",
                        "imgui", "im3d", "audio", "session", "music", "effect"}
  BY <1>1, <1>2, StartupOrder DEF ToSet
<1>4. Resources = {"video", "sound", "image", "window", "device", "missing", "swapchain",
                   "pipeline", "context", "imgui", "im3d", "audio", "session", "music", "effect"}
  BY <1>3 DEF Resources, Makes
<1>5. \A i \in 1..13 : Startup[i] \in ToSet(Startup)
  BY <1>1 DEF ToSet
<1>6. \A i \in 1..13 : Makes(Startup[i]) \subseteq Resources
  BY <1>5 DEF Resources
<1>7. QED
  BY <1>4, <1>6

-----------------------------------------------------------------------------
(* Whoever uses a resource is released before it.                          *)
LEMMA UsersGoFirst ==
    ASSUME NEW k \in 1..12, NEW r \in Resources \ {"imgui"}, NEW o \in Frees(Teardown[k]), o \in Uses(r)
    PROVE \E i \in 1..k - 1 : Frees(Teardown[i]) = {r}
<1>1. /\ 1 \in 1..4 - 1 /\ 2 \in 1..4 - 1 /\ 3 \in 1..9 - 1 /\ 3 \in 1..11 - 1
      /\ 4 \in 1..12 - 1 /\ 5 \in 1..9 - 1 /\ 6 \in 1..9 - 1 /\ 6 \in 1..11 - 1
      /\ 7 \in 1..9 - 1 /\ 8 \in 1..9 - 1 /\ 8 \in 1..10 - 1 /\ 10 \in 1..12 - 1
  OBVIOUS
<1>2. k \in {1, 2, 3, 4, 5, 6, 7, 8, 9, 10, 11, 12}
  OBVIOUS
<1>3. CASE k \in {1, 2, 3, 5, 6, 7, 8}
  BY <1>3, TeardownOrder, AllResources DEF Uses, Frees
<1>4. CASE k = 4
  BY <1>1, <1>4, TeardownOrder, AllResources DEF Uses, Frees
<1>5. CASE k = 9
  BY <1>1, <1>5, TeardownOrder, AllResources DEF Uses, Frees
<1>6. CASE k = 10
  BY <1>1, <1>6, TeardownOrder, AllResources DEF Uses, Frees
<1>7. CASE k = 11
  BY <1>1, <1>7, TeardownOrder, AllResources DEF Uses, Frees
<1>8. CASE k = 12
  BY <1>1, <1>8, TeardownOrder, AllResources DEF Uses, Frees
<1>9. QED
  BY <1>2, <1>3, <1>4, <1>5, <1>6, <1>7, <1>8

(* The steps whose failure does not end the start-up.                      *)
Passable == {"sdl", "window", "imgui", "audio", "music", "effect"}

StageInv ==
    /\ stage \in {"start", "run", "stop", "killed", "exited", "returned"}
    /\ dialog \in {"none", "fatal", "recoverable"}
    /\ dialog # "none" => stage = "start"
    /\ step \in Nat
    /\ stage = "start" => step <= 13
    /\ stage = "stop" => step <= 12
    /\ alive \subseteq Resources

(* A step that is behind the start-up has made what it makes, unless the   *)
(* code goes on without it.                                                *)
StartupInv ==
    /\ stage = "start" /\ dialog # "fatal" =>
         \A i \in 1..step : Startup[i] \in alive \cup Passable
    /\ stage = "start" /\ 8 <= step => "context" \in alive

PlayingInv ==
    /\ playing \subseteq {"music", "effect"}
    /\ \A sound \in playing : {"audio", sound} \subseteq alive

TeardownInv ==
    /\ stage = "stop" => \A i \in 1..step : Frees(Teardown[i]) \cap alive = {}
    /\ stage = "returned" => \A i \in 1..12 : Frees(Teardown[i]) \cap alive = {}

LifeInv ==
    /\ StageInv /\ StartupInv /\ PlayingInv /\ TeardownInv
    /\ OwnersOutliveUsers /\ CompleteWhenRunning

LEMMA LifeInvariant == ProcessSpec => []LifeInv
<1> USE DEF StageInv, StartupInv, PlayingInv, TeardownInv, OwnersOutliveUsers, CompleteWhenRunning
<1>1. ProcessInit => LifeInv
  BY DEF ProcessInit, LifeInv
<1>2. LifeInv /\ [ProcessNext]_processVars => LifeInv'
  <2> SUFFICES ASSUME LifeInv, [ProcessNext]_processVars PROVE LifeInv'
    OBVIOUS
  <2> USE DEF LifeInv
  <2>1. CASE Acquire
    <3>1. /\ stage = "start" /\ dialog = "none" /\ step < 13 /\ UNCHANGED <<stage, dialog, playing>>
          /\ step' = step + 1 /\ alive' = alive \cup Makes(Startup[step + 1])
          /\ \A r \in Makes(Startup[step + 1]) : Uses(r) \subseteq alive'
      BY <2>1, StartupOrder DEF Acquire, Starting
    <3>2. step + 1 \in 1..13 /\ step + 1 \in {1, 2, 3, 4, 5, 6, 7, 8, 9, 10, 11, 12, 13}
      BY <3>1
    <3>3. /\ Startup[step + 1] \in Makes(Startup[step + 1]) \cup Passable
          /\ step + 1 = 8 => "context" \in Makes(Startup[step + 1])
      BY <3>2, StartupOrder DEF Makes, Passable
    <3>4. \A i \in 1..step + 1 : i \in 1..step \/ i = step + 1
      BY <3>1
    <3>5. 8 <= step + 1 => 8 <= step \/ step + 1 = 8
      BY <3>1
    <3>6. StartupInv'
      BY <3>1, <3>3, <3>4, <3>5
    <3>7. alive' \subseteq Resources
      BY <3>1, <3>2, AllResources
    <3>8. OwnersOutliveUsers' /\ PlayingInv'
      BY <3>1
    <3>9. StageInv' /\ TeardownInv' /\ CompleteWhenRunning'
      BY <3>1, <3>7
    <3>10. QED
      BY <3>6, <3>8, <3>9
  <2>2. CASE Fail
    <3>1. /\ stage = "start" /\ step < 13 /\ UNCHANGED playing /\ step' = step + 1
          /\ stage' \in {"start", "killed"} /\ dialog = "none"
      BY <2>2, StartupOrder DEF Fail, Starting
    <3>2. PICK how \in OnFailure(Startup[step + 1]) :
            /\ dialog' = IF how = "fatal" \/ (how = "recoverable" /\ build = "debug") THEN how ELSE "none"
            /\ stage' = IF how = "crash" THEN "killed" ELSE "start"
      BY <2>2 DEF Fail
    <3>3. PICK left \in Leftovers(Startup[step + 1]) : alive' = alive \cup left
      BY <2>2 DEF Fail
    <3>4. step + 1 \in 1..13 /\ step + 1 \in {1, 2, 3, 4, 5, 6, 7, 8, 9, 10, 11, 12, 13}
      BY <3>1
    <3>5. /\ how \in {"fatal", "crash", "recoverable", "ignored"}
          /\ how \in {"recoverable", "ignored"} => Startup[step + 1] \in Passable
      BY <3>2, <3>4, StartupOrder DEF OnFailure, Unchecked, Sounds, Pictures, Passable
    <3>6. /\ left \subseteq {"video", "sound", "context"}
          /\ step + 1 = 8 => "context" \in left
      BY <3>3, <3>4, StartupOrder DEF Leftovers
    <3>7. \A i \in 1..step + 1 : i \in 1..step \/ i = step + 1
      BY <3>1
    <3>8. 8 <= step + 1 => 8 <= step \/ step + 1 = 8
      BY <3>1
    <3>9. StartupInv'
      BY <3>1, <3>2, <3>3, <3>5, <3>6, <3>7, <3>8
    <3>10. alive' \subseteq Resources
      BY <3>3, <3>6, AllResources
    <3>11. dialog' \in {"none", "fatal", "recoverable"} /\ (dialog' # "none" => stage' = "start")
      BY <3>2, <3>5
    <3>12. \A r \in left : Uses(r) = {}
      BY <3>6 DEF Uses
    <3>13. OwnersOutliveUsers' /\ PlayingInv'
      BY <3>1, <3>3, <3>12
    <3>14. StageInv' /\ TeardownInv' /\ CompleteWhenRunning'
      BY <3>1, <3>10, <3>11
    <3>15. QED
      BY <3>9, <3>13, <3>14
  <2>3. CASE AnswerDialog
    <3>1. /\ stage = "start" /\ dialog' = "none" /\ UNCHANGED <<step, alive, playing>>
          /\ stage' \in {"killed", "exited", "start"}
          /\ dialog = "fatal" => stage' # "start"
      BY <2>3 DEF AnswerDialog, Answers
    <3>2. QED
      BY <3>1
  <2>4. CASE StartFrames
    <3>1. /\ stage = "start" /\ dialog = "none" /\ step = 13 /\ stage' = "run"
          /\ UNCHANGED <<step, alive, dialog>>
          /\ playing' = IF CanPlay("music") THEN {"music"} ELSE {}
      BY <2>4, StartupOrder DEF StartFrames
    <3>2. (\A i \in 1..13 : Startup[i] \in alive \cup Passable) /\ "context" \in alive
      BY <3>1
    <3>3. /\ 2 \in 1..13 /\ 4 \in 1..13 /\ 5 \in 1..13 /\ 6 \in 1..13
          /\ 7 \in 1..13 /\ 9 \in 1..13 /\ 11 \in 1..13
      OBVIOUS
    <3>4. {"image", "device", "missing", "swapchain", "pipeline", "im3d", "session"} \subseteq alive
      BY <3>2, <3>3, StartupOrder DEF Passable
    <3>5. "window" \in alive /\ "video" \in alive
      <4>1. "window" \in alive
        BY <3>4 DEF Uses
      <4>2. QED
        BY <4>1 DEF Uses
    <3>6. Resources \ Optional \subseteq alive
      BY <3>2, <3>4, <3>5, AllResources DEF Optional
    <3>7. PlayingInv'
      BY <3>1 DEF CanPlay
    <3>8. QED
      BY <3>1, <3>6, <3>7
  <2>5. CASE EnemyDies
    BY <2>5 DEF EnemyDies, CanPlay
  <2>6. CASE EffectEnds
    BY <2>6 DEF EffectEnds
  <2>7. CASE QuitFrames
    BY <2>7 DEF QuitFrames
  <2>8. CASE Release
    <3>1. /\ stage = "stop" /\ step < 12 /\ step' = step + 1 /\ UNCHANGED <<stage, dialog>>
          /\ alive' = alive \ Frees(Teardown[step + 1]) /\ playing' = playing \ {Teardown[step + 1]}
      BY <2>8, TeardownOrder DEF Release
    <3>2. step + 1 \in 1..12 /\ step + 1 - 1 = step
      BY <3>1
    <3>3. \A r \in alive' \ {"imgui"} : Uses(r) \subseteq alive'
      <4> SUFFICES ASSUME NEW r \in alive' \ {"imgui"}, NEW o \in Frees(Teardown[step + 1])
                   PROVE o \notin Uses(r)
        BY <3>1
      <4>1. r \in Resources \ {"imgui"} /\ r \in alive
        BY <3>1
      <4>2. ~\E i \in 1..step : Frees(Teardown[i]) = {r}
        BY <3>1, <4>1
      <4>3. QED
        BY <3>2, <4>1, <4>2, UsersGoFirst
    <3>5. \A sound \in playing' : {"audio", sound} \subseteq alive'
      <4> SUFFICES ASSUME NEW sound \in playing' PROVE {"audio", sound} \subseteq alive'
        OBVIOUS
      <4>1. /\ sound \in {"music", "effect"} /\ sound \in alive /\ "audio" \in alive
            /\ sound # Teardown[step + 1]
        BY <3>1
      <4>2. sound \in Resources \ {"imgui"} /\ "audio" \in Uses(sound)
        BY <4>1, AllResources DEF Uses
      <4>3. ~\E i \in 1..step : Frees(Teardown[i]) = {sound}
        BY <3>1, <4>1
      <4>4. "audio" \notin Frees(Teardown[step + 1])
        BY <3>2, <4>2, <4>3, UsersGoFirst
      <4>5. sound \notin Frees(Teardown[step + 1])
        BY <4>1 DEF Frees
      <4>6. QED
        BY <3>1, <4>1, <4>4, <4>5
    <3>6. \A i \in 1..step + 1 : Frees(Teardown[i]) \cap alive' = {}
      <4>1. \A i \in 1..step + 1 : i \in 1..step \/ i = step + 1
        BY <3>1
      <4>2. QED
        BY <3>1, <4>1
    <3>7. StageInv' /\ StartupInv' /\ CompleteWhenRunning'
      BY <3>1
    <3>8. PlayingInv' /\ OwnersOutliveUsers'
      BY <3>1, <3>3, <3>5
    <3>9. TeardownInv'
      BY <3>1, <3>6
    <3>10. QED
      BY <3>7, <3>8, <3>9
  <2>9. CASE Return
    BY <2>9, TeardownOrder DEF Return
  <2>10. CASE UNCHANGED processVars
    BY <2>10 DEF processVars
  <2>11. QED
    BY <2>1, <2>2, <2>3, <2>4, <2>5, <2>6, <2>7, <2>8, <2>9, <2>10
    DEF ProcessNext, AfterStartup, Ended
<1>3. QED
  BY <1>1, <1>2, PTL DEF ProcessSpec

(* Whichever steps fail and whatever the player answers, nothing outlives  *)
(* what it was made from, and no sound is played that is not there.        *)
THEOREM NothingDangles == ProcessSpec => []OwnersOutliveUsers
<1>1. LifeInv => OwnersOutliveUsers
  BY DEF LifeInv
<1>2. QED
  BY <1>1, LifeInvariant, PTL

(* The frames only run with everything their sprites are drawn with,       *)
(* although nobody checks SDL and the window: without a window the swap    *)
(* chain has ended the process.                                            *)
THEOREM FramesAreComplete == ProcessSpec => []CompleteWhenRunning
<1>1. LifeInv => CompleteWhenRunning
  BY DEF LifeInv
<1>2. QED
  BY <1>1, LifeInvariant, PTL

(* When main returns, everything has been released but ImGui.              *)
THEOREM OnlyUiLeaks == ProcessSpec => []OnlyUiLeftBehind
<1>1. ASSUME LifeInv, stage = "returned"
      PROVE  alive \subseteq {"context", "imgui"} /\ playing = {}
  <2>1. \A i \in 1..12 : Frees(Teardown[i]) \cap alive = {}
    BY <1>1 DEF LifeInv, TeardownInv
  <2>2. /\ 1 \in 1..12 /\ 2 \in 1..12 /\ 3 \in 1..12 /\ 4 \in 1..12 /\ 5 \in 1..12 /\ 6 \in 1..12
        /\ 7 \in 1..12 /\ 8 \in 1..12 /\ 9 \in 1..12 /\ 10 \in 1..12 /\ 11 \in 1..12 /\ 12 \in 1..12
    OBVIOUS
  <2>3. \A i \in 1..12 : \A r \in alive : r \notin Frees(Teardown[i])
    BY <2>1
  <2>4. /\ Frees("sdl") = {"video", "sound"}
        /\ \A s : s # "sdl" => Frees(s) = {s}
    BY DEF Frees
  <2>5. alive \subseteq {"context", "imgui"}
    BY <1>1, <2>2, <2>3, <2>4, TeardownOrder, AllResources DEF LifeInv, StageInv
  <2>6. playing = {}
    BY <1>1, <2>5 DEF LifeInv, PlayingInv
  <2>7. QED
    BY <2>5, <2>6
<1>2. QED
  BY <1>1, LifeInvariant, PTL DEF OnlyUiLeftBehind

-----------------------------------------------------------------------------
(* The process with its session is a process: loading a map holds up the   *)
(* start, and changes nothing else of it.                                  *)
THEOREM SessionIsAStep == Spec => ProcessSpec
<1>1. Init => ProcessInit
  BY DEF Init
<1>2. [Next]_vars => [ProcessNext]_processVars
  <2>1. Next => ProcessNext \/ UNCHANGED processVars
    BY DEF Next, LoadSession, AcquireNext, FailNext, ProcessNext
  <2>2. UNCHANGED vars => UNCHANGED processVars
    BY DEF vars
  <2> QED BY <2>1, <2>2
<1> QED BY <1>1, <1>2, PTL DEF Spec, ProcessSpec

(* The session's variables change in FromMap only.                         *)
LEMMA OnlyFromMap ==
    ASSUME [Next]_vars
    PROVE  FromMap \/ UNCHANGED sessionVars
BY DEF Next, LoadSession, AcquireNext, FailNext, vars

-----------------------------------------------------------------------------
(* The types of entities.                                                  *)
TypesInv ==
    /\ IsList(enemyTypes)
    /\ \A k \in 1..Len(enemyTypes) : enemyTypes[k] = ObjectsIn(map.enemies)[k].data
    /\ IsList(projectileTypes) /\ IsList(towerTypes) /\ Len(towerTypes) = Len(projectileTypes)
    /\ \A k \in 1..Len(towerTypes) :
         towerTypes[k].projectileTypeIdx = k - 1 /\ projectileTypes[k] = towerTypes[k].data

LEMMA TypesInvariant == Spec => []TypesInv
<1>1. Init => TypesInv
  BY EmptyList DEF Init, SessionInit, TypesInv
<1>2. TypesInv /\ [Next]_vars => TypesInv'
  <2> SUFFICES ASSUME TypesInv, FromMap \/ UNCHANGED sessionVars PROVE TypesInv'
    BY OnlyFromMap
  <2>1. CASE LoadEnemyType
    <3> DEFINE new == ObjectsIn(map.enemies)[Len(enemyTypes) + 1].data
    <3>1. enemyTypes' = Append(enemyTypes, new) /\ UNCHANGED <<map, towerTypes, projectileTypes>>
      BY <2>1 DEF LoadEnemyType
    <3>2. /\ IsList(enemyTypes')
          /\ enemyTypes'[Len(enemyTypes) + 1] = new
          /\ \A k \in 1..Len(enemyTypes) : enemyTypes'[k] = enemyTypes[k]
          /\ \A k \in 1..Len(enemyTypes') : k \in 1..Len(enemyTypes) \/ k = Len(enemyTypes) + 1
      <4> HIDE DEF new
      <4> QED BY <3>1, ListGrows DEF TypesInv
    <3>3. \A k \in 1..Len(enemyTypes') : enemyTypes'[k] = ObjectsIn(map.enemies)[k].data
      BY <3>2 DEF TypesInv
    <3> QED BY <3>1, <3>2, <3>3 DEF TypesInv
  <2>2. CASE LoadTowerType
    <3> DEFINE new == ObjectsIn(map.towers)[Len(towerTypes) + 1].data
               tower == [data |-> new, projectileTypeIdx |-> NewestIndex(projectileTypes')]
               n == Len(towerTypes)
    <3>1. /\ projectileTypes' = Append(projectileTypes, new)
          /\ towerTypes' = Append(towerTypes, tower)
          /\ UNCHANGED <<map, enemyTypes>>
      BY <2>2 DEF LoadTowerType
    <3>2. n \in Nat /\ Len(projectileTypes) = n
      BY ListFacts DEF TypesInv
    <3>3. /\ IsList(projectileTypes') /\ Len(projectileTypes') = n + 1
          /\ projectileTypes'[n + 1] = new
          /\ \A k \in 1..n : projectileTypes'[k] = projectileTypes[k]
      <4> HIDE DEF new
      <4> QED BY <3>1, <3>2, ListGrows DEF TypesInv
    <3>4. tower.data = new /\ tower.projectileTypeIdx = n
      BY <3>2, <3>3 DEF NewestIndex
    <3>5. /\ IsList(towerTypes') /\ Len(towerTypes') = n + 1
          /\ towerTypes'[n + 1] = tower
          /\ \A k \in 1..n : towerTypes'[k] = towerTypes[k]
          /\ \A k \in 1..Len(towerTypes') : k \in 1..n \/ k = n + 1
      <4> HIDE DEF tower
      <4> QED BY <3>1, ListGrows DEF TypesInv
    <3> HIDE DEF new, tower
    <3>6. ASSUME NEW k \in 1..n
          PROVE  /\ towerTypes'[k].projectileTypeIdx = k - 1
                 /\ projectileTypes'[k] = towerTypes'[k].data
      BY <3>3, <3>5 DEF TypesInv
    <3>7. /\ towerTypes'[n + 1].projectileTypeIdx = (n + 1) - 1
          /\ projectileTypes'[n + 1] = towerTypes'[n + 1].data
      BY <3>2, <3>3, <3>4, <3>5
    <3>8. \A k \in 1..Len(towerTypes') :
            towerTypes'[k].projectileTypeIdx = k - 1 /\ projectileTypes'[k] = towerTypes'[k].data
      BY <3>5, <3>6, <3>7
    <3> QED BY <3>1, <3>3, <3>5, <3>8 DEF TypesInv
  <2>3. CASE UNCHANGED <<map, typeVars>>
    BY <2>3 DEF TypesInv, typeVars
  <2> QED
    BY <2>1, <2>2, <2>3
       DEF FromMap, LoadTileset, TilesetsDone, SkipLayer, RenderTileLayer, RenderTile,
           TileLayerDone, LayersDone, LoadWaypoint, WaypointsDone, SumDistance, DistancesDone,
           EnemyTypesDone, TowerTypesDone, sessionVars
<1> QED BY <1>1, <1>2, PTL DEF Spec

(* Every tower fires the projectile its own object describes.              *)
THEOREM TowersFireTheirOwn == Spec => []OwnProjectile
<1>1. TypesInv => OwnProjectile
  <2> SUFFICES ASSUME TypesInv PROVE OwnProjectile
    OBVIOUS
  <2>1. enemyTypes = [k \in 1..Len(enemyTypes) |-> enemyTypes[k]]
    BY ListFacts DEF TypesInv
  <2>2. enemyTypes = [k \in 1..Len(enemyTypes) |-> ObjectsIn(map.enemies)[k].data]
    BY <2>1 DEF TypesInv
  <2>3. \A k \in 1..Len(towerTypes) :
           /\ towerTypes[k].projectileTypeIdx \in 0..Len(projectileTypes) - 1
           /\ projectileTypes[towerTypes[k].projectileTypeIdx + 1] = towerTypes[k].data
    <3>1. /\ Len(towerTypes) = Len(projectileTypes) /\ Len(towerTypes) \in Nat
          /\ \A k \in 1..Len(towerTypes) :
               towerTypes[k].projectileTypeIdx = k - 1 /\ projectileTypes[k] = towerTypes[k].data
      BY ListFacts DEF TypesInv
    <3> SUFFICES ASSUME NEW k \in 1..Len(towerTypes)
                 PROVE  /\ towerTypes[k].projectileTypeIdx \in 0..Len(projectileTypes) - 1
                        /\ projectileTypes[towerTypes[k].projectileTypeIdx + 1] = towerTypes[k].data
      OBVIOUS
    <3>2. (k - 1) + 1 = k /\ k - 1 \in 0..Len(projectileTypes) - 1
      BY <3>1
    <3> QED BY <3>1, <3>2
  <2> QED BY <2>2, <2>3 DEF OwnProjectile
<1> QED BY <1>1, TypesInvariant, PTL

-----------------------------------------------------------------------------
(* The path.                                                               *)
Legs(list, k) == [n \in k..Len(list) - 1 |-> Distance(list[n], list[n + 1])]

Left(list, k) == Total(Legs(list, k))

Early == {"tilesets", "layers", "tiles", "path"}

PathInv ==
    /\ map \in Maps
    /\ waypoints \in Seq(Points) /\ Len(waypoints) <= Len(map.path.points)
    /\ \A k \in 1..Len(waypoints) : waypoints[k] = Waypoint(map.path.points[k])
    /\ phase \notin Early =>
         /\ distancesToGoal \in [1..Len(waypoints) -> Int]
         /\ toSum \in -1..Len(waypoints) - 1
         /\ \A k \in 1..Len(waypoints) :
              k > toSum => distancesToGoal[k] = Left(waypoints, k)
         /\ phase # "distances" => toSum < 1

LEMMA DistanceIsNumber ==
    ASSUME NEW a \in Points, NEW b \in Points
    PROVE  Distance(a, b) \in Nat
<1>1. \A n \in Int : Abs(n) \in Nat
  BY DEF Abs
<1>2. a.x - b.x \in Int /\ a.y - b.y \in Int
  BY DEF Points
<1> QED BY <1>1, <1>2 DEF Distance

LEMMA LegsAreNumbers ==
    ASSUME NEW list \in Seq(Points), NEW k \in Nat \ {0}
    PROVE  Legs(list, k) \in Numbers(k..Len(list) - 1)
<1>1. Len(list) \in Nat /\ \A n \in 1..Len(list) : list[n] \in Points
  BY LenProperties, ElementOfSeq
<1>2. \A n \in k..Len(list) - 1 : Distance(list[n], list[n + 1]) \in Nat
  <2> TAKE n \in k..Len(list) - 1
  <2>1. n \in 1..Len(list) /\ n + 1 \in 1..Len(list)
    BY <1>1
  <2> QED BY <1>1, <2>1, DistanceIsNumber
<1> QED BY <1>2 DEF Legs, Numbers

LEMMA LastHasNoneLeft ==
    ASSUME NEW list \in Seq(Points), Len(list) >= 1
    PROVE  Left(list, Len(list)) = 0
<1>1. Len(list) \in Nat \ {0} /\ Len(list)..Len(list) - 1 = {}
  BY LenProperties
<1>2. Legs(list, Len(list)) \in Numbers({})
  BY <1>1, LegsAreNumbers
<1> QED BY <1>2, TotalOfNothing DEF Left

LEMMA OneLegMore ==
    ASSUME NEW list \in Seq(Points), NEW k \in 1..Len(list) - 1
    PROVE  /\ Left(list, k + 1) \in Nat
           /\ Left(list, k) = Left(list, k + 1) + Distance(list[k], list[k + 1])
<1> DEFINE S == k + 1..Len(list) - 1
           f == Legs(list, k + 1)
           g == Legs(list, k)
<1>0. Len(list) \in Nat /\ k \in Nat \ {0} /\ k + 1 \in Nat \ {0}
  BY LenProperties
<1>1. IsFiniteSet(S) /\ k \notin S /\ S \cup {k} = k..Len(list) - 1
  <2>1. k + 1 \in Int /\ Len(list) - 1 \in Int
    BY <1>0
  <2>2. IsFiniteSet(S)
    BY <2>1, FS_Interval
  <2>3. k \notin S /\ S \cup {k} = k..Len(list) - 1
    BY <1>0
  <2> QED BY <2>2, <2>3
<1>2. f \in Numbers(S) /\ g \in Numbers(S \cup {k})
  BY <1>0, <1>1, LegsAreNumbers
<1>3. (\A n \in S : g[n] = f[n]) /\ g[k] = Distance(list[k], list[k + 1])
  BY <1>0 DEF Legs
<1> HIDE DEF S, f, g
<1>4. Total(f) \in Nat
  BY <1>1, <1>2, TotalIsNumber
<1>5. Total(g) = Total(f) + g[k]
  BY <1>1, <1>2, <1>3, TotalWithOneMore
<1> QED BY <1>3, <1>4, <1>5 DEF Left, f, g

LEMMA MapIsWellFormed ==
    ASSUME NEW m \in Maps
    PROVE  /\ m.path \in [x : Int, y : Int, points : Seq(Points)]
           /\ Len(m.path.points) \in Nat
           /\ \A k \in 1..Len(m.path.points) : m.path.points[k] \in Points
           /\ TileSize \in Nat \ {0}
<1>1. m.path \in [x : Int, y : Int, points : Seq(Points)] /\ TileSize \in Nat \ {0}
  BY MapAssumption DEF WellFormed
<1>2. m.path.points \in Seq(Points)
  BY <1>1
<1> QED BY <1>1, <1>2, LenProperties, ElementOfSeq

LEMMA PathStep ==
    ASSUME PathInv, FromMap
    PROVE  PathInv'
<1>0. /\ map \in Maps /\ map' = map
      /\ waypoints \in Seq(Points) /\ Len(waypoints) \in Nat
      /\ map.path \in [x : Int, y : Int, points : Seq(Points)]
      /\ Len(map.path.points) \in Nat
      /\ \A k \in 1..Len(map.path.points) : map.path.points[k] \in Points
      /\ TileSize \in Nat
  BY MapIsWellFormed, LenProperties
     DEF PathInv, FromMap, LoadTileset, TilesetsDone, SkipLayer, RenderTileLayer, RenderTile,
         TileLayerDone, LayersDone, LoadWaypoint, WaypointsDone, SumDistance, DistancesDone,
         LoadEnemyType, EnemyTypesDone, LoadTowerType, TowerTypesDone
<1>1. CASE LoadWaypoint
  <2> DEFINE n == Len(waypoints) + 1
             new == Waypoint(map.path.points[n])
  <2>1. /\ phase = "path" /\ phase' = "path" /\ n \in 1..Len(map.path.points)
        /\ waypoints' = Append(waypoints, new)
    BY <1>0, <1>1 DEF LoadWaypoint
  <2>2. new \in Points
    <3>1. map.path.points[n] \in Points /\ map.path.x \in Int /\ map.path.y \in Int
      BY <1>0, <2>1
    <3>2. PICK p \in Points : p = map.path.points[n]
      BY <3>1
    <3>3. p.x \in Int /\ p.y \in Int
      BY DEF Points
    <3>4. /\ 2 * (map.path.x + p.x) - TileSize \in Int
          /\ -(2 * (map.path.y + p.y)) + TileSize \in Int
      <4>1. \A a, b, t \in Int : 2 * (a + b) - t \in Int /\ -(2 * (a + b)) + t \in Int
        OBVIOUS
      <4>2. TileSize \in Int
        BY <1>0
      <4> QED BY <3>1, <3>3, <4>1, <4>2
    <3> QED BY <3>2, <3>4 DEF Waypoint, Points
  <2>3. /\ waypoints' \in Seq(Points) /\ Len(waypoints') = n /\ waypoints'[n] = new
        /\ \A k \in 1..Len(waypoints) : waypoints'[k] = waypoints[k]
    BY <1>0, <2>1, <2>2, AppendProperties
  <2>4. \A k \in 1..n : waypoints'[k] = Waypoint(map.path.points[k])
    <3>1. \A k \in 1..n : k \in 1..Len(waypoints) \/ k = n
      BY <1>0
    <3> QED BY <2>3, <3>1 DEF PathInv
  <2> QED BY <1>0, <2>1, <2>3, <2>4 DEF PathInv, Early, Waypoint
<1>2. CASE WaypointsDone
  <2>1. /\ UNCHANGED waypoints /\ phase' = "distances"
        /\ distancesToGoal' = [k \in 1..Len(waypoints) |-> 0] /\ toSum' = Len(waypoints) - 1
    BY <1>2 DEF WaypointsDone
  <2>2. \A k \in 1..Len(waypoints) :
          k > toSum' => distancesToGoal'[k] = Left(waypoints, k)
    <3> SUFFICES ASSUME NEW k \in 1..Len(waypoints), k > toSum'
                 PROVE  distancesToGoal'[k] = Left(waypoints, k)
      OBVIOUS
    <3>1. k = Len(waypoints) /\ Len(waypoints) >= 1
      BY <1>0, <2>1
    <3> QED BY <1>0, <2>1, <3>1, LastHasNoneLeft
  <2>3. toSum' \in -1..Len(waypoints) - 1 /\ distancesToGoal' \in [1..Len(waypoints) -> Int]
    BY <1>0, <2>1
  <2> QED BY <1>0, <2>1, <2>2, <2>3 DEF PathInv, Early, Waypoint
<1>3. CASE SumDistance
  <2> DEFINE d == distancesToGoal[toSum + 1]
                    + Distance(waypoints[toSum], waypoints[toSum + 1])
  <2>1. /\ UNCHANGED waypoints /\ phase = "distances" /\ phase' = "distances"
        /\ toSum >= 1 /\ toSum' = toSum - 1
        /\ distancesToGoal' = [distancesToGoal EXCEPT ![toSum] = d]
    BY <1>3 DEF SumDistance
  <2>2. /\ distancesToGoal \in [1..Len(waypoints) -> Int] /\ toSum \in 1..Len(waypoints) - 1
        /\ \A k \in 1..Len(waypoints) :
             k > toSum => distancesToGoal[k] = Left(waypoints, k)
    BY <1>0, <2>1 DEF PathInv, Early
  <2>3. d = Left(waypoints, toSum) /\ d \in Int
    <3>1. /\ Left(waypoints, toSum + 1) \in Nat
          /\ Left(waypoints, toSum) = Left(waypoints, toSum + 1)
                                        + Distance(waypoints[toSum], waypoints[toSum + 1])
      BY <1>0, <2>2, OneLegMore
    <3>2. distancesToGoal[toSum + 1] = Left(waypoints, toSum + 1)
      BY <1>0, <2>2
    <3>3. waypoints[toSum] \in Points /\ waypoints[toSum + 1] \in Points
      BY <1>0, <2>2, ElementOfSeq
    <3> QED BY <3>1, <3>2, <3>3, DistanceIsNumber
  <2> HIDE DEF d
  <2>4. \A k \in 1..Len(waypoints) :
          k > toSum - 1 => distancesToGoal'[k] = Left(waypoints, k)
    BY <1>0, <2>1, <2>2, <2>3
  <2>5. /\ distancesToGoal' \in [1..Len(waypoints) -> Int]
        /\ toSum - 1 \in -1..Len(waypoints) - 1
    BY <1>0, <2>1, <2>2, <2>3
  <2> QED BY <1>0, <2>1, <2>4, <2>5 DEF PathInv, Early, Waypoint
<1>4. CASE DistancesDone
  <2>1. /\ UNCHANGED <<waypoints, distancesToGoal, toSum>>
        /\ phase = "distances" /\ phase' = "enemies" /\ toSum < 1
    BY <1>4 DEF DistancesDone, pathVars
  <2> QED BY <1>0, <2>1 DEF PathInv, Early, Waypoint
<1>5. CASE LoadTileset \/ TilesetsDone \/ SkipLayer \/ RenderTileLayer \/ RenderTile
             \/ TileLayerDone \/ LayersDone
  <2>1. UNCHANGED waypoints /\ phase' \in Early
    BY <1>5 DEF LoadTileset, TilesetsDone, SkipLayer, RenderTileLayer, RenderTile,
                TileLayerDone, LayersDone, pathVars, Early
  <2> QED BY <1>0, <2>1 DEF PathInv, Waypoint
<1>6. CASE LoadEnemyType \/ EnemyTypesDone \/ LoadTowerType \/ TowerTypesDone
  <2>1. /\ UNCHANGED <<waypoints, distancesToGoal, toSum>>
        /\ phase \notin Early /\ phase # "distances" /\ phase' # "distances"
    BY <1>6 DEF LoadEnemyType, EnemyTypesDone, LoadTowerType, TowerTypesDone, pathVars, Early
  <2> QED BY <1>0, <2>1 DEF PathInv, Waypoint
<1> QED BY <1>1, <1>2, <1>3, <1>4, <1>5, <1>6 DEF FromMap

LEMMA PathInvariant == Spec => []PathInv
<1>1. Init => PathInv
  BY EmptySeq, MapIsWellFormed DEF Init, SessionInit, PathInv, Early
<1>2. PathInv /\ [Next]_vars => PathInv'
  <2>1. PathInv /\ UNCHANGED sessionVars => PathInv'
    BY DEF PathInv, Waypoint, sessionVars, pathVars
  <2> QED BY <2>1, PathStep, OnlyFromMap
<1> QED BY <1>1, <1>2, PTL DEF Spec

(* A point inside a tile, and the middle of that tile, in half pixels.     *)
LEMMA WithinHalfATile ==
    ASSUME NEW T \in Nat \ {0}, NEW n \in Int, n % T # 0
    PROVE  /\ Abs(2 * n - T - 2 * T * (n \div T)) < T
           /\ Abs(-(2 * n) + T + 2 * T * (n \div T)) < T
<1>1. PICK q \in Int, r \in 0..T - 1 : n = T * q + r /\ q = n \div T /\ r = n % T
  BY Division
<1>3. n = T * q + r /\ q = n \div T /\ r \in 1..T - 1
  BY <1>1
<1>4. PICK p \in Int : p = T * q
  OBVIOUS
<1>5. 2 * T * q = 2 * p /\ n = p + r
  BY <1>3, <1>4
<1>6. 2 * n - T - 2 * T * q = 2 * r - T /\ -(2 * n) + T + 2 * T * q = T - 2 * r
  BY <1>3, <1>4, <1>5
<1> QED BY <1>3, <1>6 DEF Abs

(* The enemies walk where the path was drawn, and know how far it is.      *)
THEOREM PathIsAsDrawn == Spec => []PathAsDrawn
<1>1. PathInv => PathAsDrawn
  <2> SUFFICES ASSUME PathInv, phase \notin Early, phase # "distances" PROVE PathAsDrawn
    BY DEF PathAsDrawn, Early
  <2>1. \A k \in 1..Len(waypoints) : distancesToGoal[k] = Left(waypoints, k)
    BY LenProperties DEF PathInv
  <2>2. ASSUME NEW k \in 1..Len(waypoints)
        PROVE  OnItsTile([x |-> map.path.x + map.path.points[k].x,
                          y |-> map.path.y + map.path.points[k].y], waypoints[k])
    <3> DEFINE X == map.path.x + map.path.points[k].x
               Y == map.path.y + map.path.points[k].y
    <3>1. waypoints[k] = [x |-> 2 * X - TileSize, y |-> -(2 * Y) + TileSize]
      BY DEF PathInv, Waypoint
    <3>2. X \in Int /\ Y \in Int /\ TileSize \in Nat \ {0}
      <4>1. /\ map.path \in [x : Int, y : Int, points : Seq(Points)]
            /\ map.path.points[k] \in Points /\ TileSize \in Nat \ {0}
        BY <2>2, MapIsWellFormed, LenProperties DEF PathInv
      <4> QED BY <4>1 DEF Points
    <3> HIDE DEF X, Y
    <3>3. X % TileSize # 0 => Abs(2 * X - TileSize - 2 * TileSize * (X \div TileSize)) < TileSize
      BY <3>2, WithinHalfATile
    <3>4. Y % TileSize # 0 => Abs(-(2 * Y) + TileSize + 2 * TileSize * (Y \div TileSize)) < TileSize
      BY <3>2, WithinHalfATile
    <3>5. OnItsTile([x |-> X, y |-> Y], waypoints[k])
      BY <3>1, <3>3, <3>4 DEF OnItsTile
    <3> QED BY <3>5 DEF X, Y
  <2> QED BY <2>1, <2>2 DEF PathAsDrawn, Left, Legs
<1> QED BY <1>1, PathInvariant, PTL

-----------------------------------------------------------------------------
(* The static draw list.                                                   *)
Shown(l, c) ==
    [position |-> <<c[1], -c[2]>>, layer |-> LayersBelow(l),
     src |-> GetTileSpriteSrc(map.layers[l].tiles[c])]

IsDrawn(l, c) == \E n \in 1..Len(drawList) : drawList[n] = Shown(l, c)

Counts(n) == [l \in 1..n |-> TilesOf(map.layers[l])]

FewLayers == LayersBelow(Len(map.layers) + 1) <= 256

InOrder ==
    /\ \A n \in 1..Len(drawList) :
         drawList[n].layer \in Nat /\ drawList[n].layer <= LayersBelow(layersRendered + 1)
    /\ \A m, n \in 1..Len(drawList) : m < n => drawList[m].layer <= drawList[n].layer

DrawnSoFar ==
    /\ \A l \in 1..layersRendered : IsTileLayer(map.layers[l]) =>
         \A c \in DOMAIN map.layers[l].tiles : IsDrawn(l, c)
    /\ phase = "tiles" =>
         \A c \in DOMAIN Layer.tiles \ unread : IsDrawn(layersRendered + 1, c)
    /\ InOrder

LayersInv ==
    /\ map \in Maps
    /\ IsList(drawList)
    /\ layersRendered \in 0..Len(map.layers)
    /\ spriteLayer = LayersBelow(layersRendered + 1) % 256
    /\ phase = "tilesets" => layersRendered = 0 /\ drawList = <<>>
    /\ phase = "tiles" => /\ layersRendered < Len(map.layers) /\ IsTileLayer(Layer)
                          /\ unread \subseteq DOMAIN Layer.tiles
    /\ phase \notin {"tilesets", "layers", "tiles"} => layersRendered = Len(map.layers)
    /\ Len(drawList) = Total(Counts(layersRendered))
                         + (IF phase = "tiles" THEN TilesOf(Layer) - Cardinality(unread) ELSE 0)
    /\ FewLayers => DrawnSoFar

LEMMA LayersAreWellFormed ==
    ASSUME NEW m \in Maps
    PROVE  /\ Len(m.layers) \in Nat
           /\ \A l \in 1..Len(m.layers) : IsTileLayer(m.layers[l]) =>
                /\ IsFiniteSet(DOMAIN m.layers[l].tiles)
                /\ DOMAIN m.layers[l].tiles \subseteq Cells
<1>1. IsList(m.layers)
  BY MapAssumption DEF WellFormed, IsList
<1> QED BY <1>1, ListFacts, MapAssumption DEF WellFormed

LEMMA TilesAreCounted ==
    ASSUME map \in Maps, NEW n \in 0..Len(map.layers)
    PROVE  Counts(n) \in Numbers(1..n)
<1>1. \A l \in 1..n : l \in 1..Len(map.layers)
  BY LayersAreWellFormed
<1>2. \A l \in 1..n : TilesOf(map.layers[l]) \in Nat
  BY <1>1, LayersAreWellFormed, FS_CardinalityType DEF TilesOf
<1> QED BY <1>2 DEF Counts, Numbers

(* One more layer.                                                         *)
LEMMA CountsGrow ==
    ASSUME map \in Maps, NEW n \in 0..Len(map.layers) - 1
    PROVE  /\ Total(Counts(n)) \in Nat /\ TilesOf(map.layers[n + 1]) \in Nat
           /\ Total(Counts(n + 1)) = Total(Counts(n)) + TilesOf(map.layers[n + 1])
<1>1. n \in Nat /\ n \in 0..Len(map.layers) /\ n + 1 \in 0..Len(map.layers) /\ n + 1 \in 1..n + 1
  BY LayersAreWellFormed
<1>2. Counts(n) \in Numbers(1..n) /\ Counts(n + 1) \in Numbers(1..n + 1)
  BY <1>1, TilesAreCounted
<1>3. \A l \in 1..n : Counts(n + 1)[l] = Counts(n)[l]
  BY <1>1 DEF Counts
<1>4. Counts(n + 1)[n + 1] = TilesOf(map.layers[n + 1])
  BY <1>1 DEF Counts
<1>5. Counts(n + 1)[n + 1] \in Nat
  BY <1>1, <1>2 DEF Numbers
<1>6. Total(Counts(n)) \in Nat
  BY <1>1, <1>2, FS_Interval, TotalIsNumber
<1>7. Total(Counts(n + 1)) = Total(Counts(n)) + Counts(n + 1)[n + 1]
  BY <1>1, <1>2, <1>3, TotalOfLonger
<1> QED BY <1>4, <1>5, <1>6, <1>7

LEMMA LayersAreNumbered ==
    ASSUME NEW l \in Nat
    PROVE  /\ LayersBelow(1) = 0
           /\ LayersBelow(l + 1) \in Nat
           /\ LayersBelow(l + 2)
                = LayersBelow(l + 1) + (IF IsTileLayer(map.layers[l + 1]) THEN 1 ELSE 0)
<1> DEFINE T == {k \in 1..l : IsTileLayer(map.layers[k])}
<1>1. LayersBelow(1) = 0
  <2>1. {k \in 1..1 - 1 : IsTileLayer(map.layers[k])} = {}
    OBVIOUS
  <2> QED BY <2>1, FS_EmptySet DEF LayersBelow
<1>2. LayersBelow(l + 1) = Cardinality(T)
  <2>1. (l + 1) - 1 = l
    OBVIOUS
  <2> QED BY <2>1 DEF LayersBelow
<1>3. LayersBelow(l + 2)
        = Cardinality(IF IsTileLayer(map.layers[l + 1]) THEN T \cup {l + 1} ELSE T)
  <2>1. (l + 2) - 1 = l + 1
    OBVIOUS
  <2>2. {k \in 1..l + 1 : IsTileLayer(map.layers[k])}
          = IF IsTileLayer(map.layers[l + 1]) THEN T \cup {l + 1} ELSE T
    <3>1. \A k : k \in 1..l + 1 <=> k \in 1..l \/ k = l + 1
      OBVIOUS
    <3> QED BY <3>1
  <2> QED BY <2>1, <2>2 DEF LayersBelow
<1>4. T \subseteq 1..l
  OBVIOUS
<1> HIDE DEF T
<1>5. Cardinality(T) \in Nat /\ Cardinality(T \cup {l + 1}) = Cardinality(T) + 1
  BY <1>4, CountOfLonger
<1> QED BY <1>1, <1>2, <1>3, <1>5

LEMMA LowerLayersAreFewer ==
    ASSUME NEW l \in Nat, NEW m \in Nat, l <= m
    PROVE  LayersBelow(l + 1) <= LayersBelow(m + 1)
<1> DEFINE S == {k \in 1..l : IsTileLayer(map.layers[k])}
           T == {k \in 1..m : IsTileLayer(map.layers[k])}
<1>1. (l + 1) - 1 = l /\ (m + 1) - 1 = m
  OBVIOUS
<1>2. LayersBelow(l + 1) = Cardinality(S) /\ LayersBelow(m + 1) = Cardinality(T)
  BY <1>1 DEF LayersBelow
<1>3. S \subseteq T /\ T \subseteq 1..m /\ IsFiniteSet(1..m)
  BY FS_Interval
<1> HIDE DEF S, T
<1>4. Cardinality(S) <= Cardinality(T)
  BY <1>3, FS_Subset
<1> QED BY <1>2, <1>4

(* What a sprite shows depends on the map and the tilesets only.           *)
LEMMA SpritesKept ==
    ASSUME UNCHANGED <<map, tilesets>>
    PROVE  /\ \A l : LayersBelow(l)' = LayersBelow(l)
           /\ \A l, c : Shown(l, c)' = Shown(l, c)
           /\ \A n : Counts(n)' = Counts(n)
           /\ FewLayers' <=> FewLayers
<1>1. \A l : LayersBelow(l)' = LayersBelow(l)
  BY DEF LayersBelow
<1>2. \A id : GetTileSpriteSrc(id)' = GetTileSpriteSrc(id)
  BY DEF GetTileSpriteSrc
<1>3. \A l, c : Shown(l, c)' = Shown(l, c)
  BY <1>1, <1>2 DEF Shown
<1>4. \A n : Counts(n)' = Counts(n)
  BY DEF Counts
<1> QED BY <1>1, <1>3, <1>4 DEF FewLayers

LEMMA DrawnKept ==
    ASSUME UNCHANGED <<map, tilesets, drawList>>
    PROVE  \A l, c : IsDrawn(l, c)' <=> IsDrawn(l, c)
BY SpritesKept DEF IsDrawn

LEMMA NothingShownYet ==
    ASSUME LayersInv, LoadTileset \/ TilesetsDone
    PROVE  LayersInv'
<1>1. /\ map \in Maps /\ layersRendered = 0 /\ drawList = <<>> /\ Len(drawList) = 0
      /\ UNCHANGED <<map, layersRendered, spriteLayer, drawList>>
      /\ phase = "tilesets" /\ phase' \in {"tilesets", "layers"}
  BY EmptyList DEF LayersInv, LoadTileset, TilesetsDone, tileVars
<1>2. /\ (spriteLayer = LayersBelow(layersRendered + 1) % 256)'
      /\ Len(drawList') = Total(Counts(layersRendered))'
  <2>1. Counts(0) \in Numbers({})
    BY DEF Counts, Numbers
  <2>2. Total(Counts(0)) = 0
    BY <2>1, TotalOfNothing
  <2>3. Total(Counts(layersRendered))' = Total(Counts(0))
    BY <1>1 DEF Counts
  <2>4. (spriteLayer = LayersBelow(layersRendered + 1) % 256)'
    BY <1>1 DEF LayersInv, LayersBelow
  <2> QED BY <1>1, <2>2, <2>3, <2>4
<1>3. InOrder'
  BY <1>1 DEF InOrder
<1> QED BY <1>1, <1>2, <1>3 DEF LayersInv, DrawnSoFar, Layer

LEMMA LayerBegun ==
    ASSUME LayersInv, RenderTileLayer
    PROVE  LayersInv'
<1>0. /\ map \in Maps /\ layersRendered \in 0..Len(map.layers) - 1 /\ IsTileLayer(Layer)
      /\ UNCHANGED <<map, tilesets, layersRendered, spriteLayer, drawList>>
      /\ phase = "layers" /\ phase' = "tiles" /\ unread' = DOMAIN Layer.tiles
  BY LayersAreWellFormed DEF LayersInv, RenderTileLayer
<1>1. /\ Layer' = Layer /\ Counts(layersRendered)' = Counts(layersRendered)
      /\ TilesOf(Layer) = Cardinality(unread') /\ TilesOf(Layer) \in Nat
      /\ Total(Counts(layersRendered)) \in Nat
  BY <1>0, SpritesKept, CountsGrow DEF Layer, TilesOf
<1>2. Len(drawList') = Total(Counts(layersRendered)') + (TilesOf(Layer)' - Cardinality(unread'))
  BY <1>0, <1>1 DEF LayersInv, TilesOf
<1>3. (spriteLayer = LayersBelow(layersRendered + 1) % 256)'
  BY <1>0, SpritesKept DEF LayersInv
<1>4. InOrder' <=> InOrder
  BY <1>0, SpritesKept DEF InOrder
<1>5. FewLayers' <=> FewLayers
  BY <1>0, SpritesKept
<1>6. DrawnSoFar => DrawnSoFar'
  BY <1>0, <1>1, <1>4, DrawnKept DEF DrawnSoFar
<1> QED BY <1>0, <1>1, <1>2, <1>3, <1>5, <1>6 DEF LayersInv

(* Behind the last of n tiles, or of none, there is another layer.         *)
LEMMA LayerPassed ==
    ASSUME LayersInv, SkipLayer \/ TileLayerDone
    PROVE  LayersInv'
<1> DEFINE n == layersRendered
<1>0. /\ map \in Maps /\ n \in 0..Len(map.layers) - 1 /\ n \in Nat
      /\ UNCHANGED <<map, tilesets, drawList>>
      /\ phase \in {"layers", "tiles"} /\ phase' = "layers" /\ layersRendered' = n + 1
      /\ phase = "tiles" <=> IsTileLayer(Layer)
      /\ phase = "tiles" => unread = {}
  BY LayersAreWellFormed DEF LayersInv, SkipLayer, TileLayerDone
<1>1. Len(drawList') = Total(Counts(layersRendered))'
  <2>1. /\ Total(Counts(n)) \in Nat /\ TilesOf(Layer) \in Nat
        /\ Total(Counts(n + 1)) = Total(Counts(n)) + TilesOf(Layer)
    BY <1>0, CountsGrow DEF Layer
  <2>2. phase # "tiles" => TilesOf(Layer) = 0
    BY <1>0 DEF TilesOf
  <2>3. phase = "tiles" => TilesOf(Layer) - Cardinality(unread) = TilesOf(Layer)
    <3>1. phase = "tiles" => Cardinality(unread) = 0
      BY <1>0, FS_EmptySet
    <3> QED BY <2>1, <3>1
  <2>4. Len(drawList) = Total(Counts(n + 1))
    BY <2>1, <2>2, <2>3 DEF LayersInv
  <2> QED BY <1>0, <2>4, SpritesKept
<1>2. /\ LayersBelow(n + 2) = LayersBelow(n + 1) + (IF IsTileLayer(Layer) THEN 1 ELSE 0)
      /\ LayersBelow(n + 1) \in Nat /\ LayersBelow(n + 2) \in Nat
  <2>1. /\ LayersBelow(n + 1) \in Nat
        /\ LayersBelow(n + 2)
             = LayersBelow(n + 1) + (IF IsTileLayer(map.layers[n + 1]) THEN 1 ELSE 0)
    BY <1>0, LayersAreNumbered
  <2> QED BY <2>1 DEF Layer
<1>3. (spriteLayer = LayersBelow(layersRendered + 1) % 256)'
  <2>1. spriteLayer = LayersBelow(n + 1) % 256
    BY DEF LayersInv
  <2>2. spriteLayer' = LayersBelow(n + 2) % 256
    <3>1. CASE SkipLayer
      BY <1>2, <2>1, <3>1 DEF SkipLayer
    <3>2. CASE TileLayerDone
      <4>1. spriteLayer' = (spriteLayer + 1) % 256 /\ LayersBelow(n + 2) = LayersBelow(n + 1) + 1
        BY <1>0, <1>2, <3>2 DEF TileLayerDone
      <4>2. \A k \in Nat : ((k % 256) + 1) % 256 = (k + 1) % 256
        OBVIOUS
      <4> QED BY <1>2, <2>1, <4>1, <4>2
    <3> QED BY <3>1, <3>2
  <2>3. layersRendered' + 1 = n + 2
    BY <1>0
  <2> QED BY <1>0, <2>2, <2>3, SpritesKept
<1>4. ASSUME FewLayers
      PROVE  /\ \A l \in 1..n + 1 : IsTileLayer(map.layers[l]) =>
                  \A c \in DOMAIN map.layers[l].tiles : IsDrawn(l, c)
             /\ InOrder'
  <2>1. \A l \in 1..n : IsTileLayer(map.layers[l]) =>
          \A c \in DOMAIN map.layers[l].tiles : IsDrawn(l, c)
    BY <1>4 DEF LayersInv, DrawnSoFar
  <2>2. IsTileLayer(Layer) => \A c \in DOMAIN Layer.tiles : IsDrawn(n + 1, c)
    BY <1>0, <1>4 DEF LayersInv, DrawnSoFar
  <2>3. InOrder /\ InOrder'
    <3>1. InOrder
      BY <1>4 DEF LayersInv, DrawnSoFar
    <3>2. (n + 1) + 1 = n + 2 /\ LayersBelow(n + 1) <= LayersBelow(n + 2)
      BY <1>0, <1>2
    <3>3. LayersBelow(layersRendered + 1)' = LayersBelow(n + 2)
      BY <1>0, <3>2, SpritesKept
    <3> QED BY <1>0, <1>2, <3>1, <3>2, <3>3 DEF InOrder
  <2>4. \A l \in 1..n + 1 : l \in 1..n \/ l = n + 1
    BY <1>0
  <2> QED BY <2>1, <2>2, <2>3, <2>4 DEF Layer
<1>5. layersRendered' \in 0..Len(map'.layers) /\ IsList(drawList')
  BY <1>0, LayersAreWellFormed DEF LayersInv, DrawnSoFar
<1>6. FewLayers' <=> FewLayers
  BY <1>0, SpritesKept
<1>7. FewLayers => DrawnSoFar'
  BY <1>0, <1>4, DrawnKept DEF DrawnSoFar
<1> QED BY <1>0, <1>1, <1>3, <1>5, <1>6, <1>7 DEF LayersInv

LEMMA TileShown ==
    ASSUME LayersInv, RenderTile
    PROVE  LayersInv'
<1>n. PICK n : n = layersRendered
  OBVIOUS
<1>0. /\ map \in Maps /\ layersRendered = n /\ layersRendered' = n /\ n \in 0..Len(map.layers) - 1 /\ n \in Nat /\ IsTileLayer(Layer)
      /\ UNCHANGED <<map, tilesets, layersRendered, spriteLayer>>
      /\ phase = "tiles" /\ phase' = "tiles"
      /\ IsFiniteSet(DOMAIN Layer.tiles) /\ DOMAIN Layer.tiles \subseteq Cells
      /\ unread \subseteq DOMAIN Layer.tiles
  BY <1>n, LayersAreWellFormed DEF LayersInv, RenderTile, Layer
<1>1. PICK c \in unread : /\ drawList' = Append(drawList, TileSprite(Layer, c))
                          /\ unread' = unread \ {c}
  BY DEF RenderTile
<1> DEFINE new == TileSprite(Layer, c)
<1>2. /\ IsList(drawList') /\ Len(drawList) \in Nat /\ Len(drawList') = Len(drawList) + 1
      /\ drawList'[Len(drawList) + 1] = new
      /\ \A k \in 1..Len(drawList) : k \in 1..Len(drawList') /\ drawList'[k] = drawList[k]
      /\ \A k \in 1..Len(drawList') : k \in 1..Len(drawList) \/ k = Len(drawList) + 1
  <2> HIDE DEF new
  <2> QED BY <1>1, ListGrows DEF LayersInv, new
<1>3. Layer' = Layer /\ Counts(n)' = Counts(n)
  BY <1>0, SpritesKept DEF Layer
<1>4. Len(drawList') = Total(Counts(n)') + (TilesOf(Layer)' - Cardinality(unread'))
  <2>1. IsFiniteSet(unread) /\ Cardinality(unread) \in Nat
    BY <1>0, FS_Subset, FS_CardinalityType
  <2>2. Cardinality(unread') = Cardinality(unread) - 1
    BY <1>1, <2>1, FS_RemoveElement
  <2>3. Total(Counts(n)) \in Nat /\ TilesOf(Layer) \in Nat
    BY <1>0, CountsGrow DEF Layer
  <2>4. Len(drawList) = Total(Counts(n)) + (TilesOf(Layer) - Cardinality(unread))
    BY <1>0 DEF LayersInv
  <2>5. TilesOf(Layer)' = TilesOf(Layer)
    BY <1>3 DEF TilesOf
  <2> QED BY <1>2, <1>3, <2>1, <2>2, <2>3, <2>4, <2>5
<1>5. (spriteLayer = LayersBelow(layersRendered + 1) % 256)'
  BY <1>0, SpritesKept DEF LayersInv
<1>6. ASSUME FewLayers
      PROVE  /\ new = Shown(n + 1, c) /\ new.layer = LayersBelow(n + 1)
             /\ LayersBelow(n + 1) \in Nat
  <2>1. /\ LayersBelow(n + 1) \in Nat /\ LayersBelow(n + 2) = LayersBelow(n + 1) + 1
    BY <1>0, LayersAreNumbered DEF Layer
  <2>2. LayersBelow(n + 2) <= LayersBelow(Len(map.layers) + 1)
    <3>1. n + 1 \in Nat /\ Len(map.layers) \in Nat /\ n + 1 <= Len(map.layers)
          /\ (n + 1) + 1 = n + 2
      BY <1>0, LayersAreWellFormed
    <3> QED BY <3>1, LowerLayersAreFewer
  <2>3. LayersBelow(n + 1) < 256
    <3>1. Len(map.layers) \in Nat
      BY <1>0, LayersAreWellFormed
    <3>2. LayersBelow(Len(map.layers) + 1) \in Nat
      BY <3>1, LayersAreNumbered
    <3> QED BY <1>6, <2>1, <2>2, <3>2 DEF FewLayers
  <2>4. spriteLayer = LayersBelow(n + 1)
    BY <1>0, <2>1, <2>3 DEF LayersInv
  <2> QED BY <1>0, <2>1, <2>4 DEF TileSprite, Shown, Layer
<1> HIDE DEF new
<1>7. \A l, d : IsDrawn(l, d) => IsDrawn(l, d)'
  BY <1>0, <1>2, SpritesKept DEF IsDrawn
<1>8. ASSUME FewLayers
      PROVE  /\ \A d \in DOMAIN Layer.tiles \ unread' : IsDrawn(n + 1, d)'
             /\ InOrder'
  <2>1. IsDrawn(n + 1, c)'
    <3>1. Len(drawList) + 1 \in 1..Len(drawList')
      BY <1>2
    <3>2. Shown(n + 1, c)' = Shown(n + 1, c)
      BY <1>0, SpritesKept
    <3> QED BY <1>2, <1>6, <1>8, <3>1, <3>2 DEF IsDrawn
  <2>2. \A d \in DOMAIN Layer.tiles \ unread' : d \in DOMAIN Layer.tiles \ unread \/ d = c
    BY <1>1
  <2>3. \A d \in DOMAIN Layer.tiles \ unread : IsDrawn(n + 1, d)
    BY <1>0, <1>8 DEF LayersInv, DrawnSoFar
  <2>4. InOrder'
    <3>1. InOrder /\ new.layer = LayersBelow(n + 1) /\ LayersBelow(n + 1) \in Nat
      BY <1>6, <1>8 DEF LayersInv, DrawnSoFar
    <3>2. LayersBelow(layersRendered + 1)' = LayersBelow(n + 1)
      BY <1>0, SpritesKept
    <3>3. \A k \in 1..Len(drawList') :
            drawList'[k].layer \in Nat /\ drawList'[k].layer <= LayersBelow(n + 1)
      BY <1>0, <1>2, <3>1 DEF InOrder
    <3>4. ASSUME NEW k \in 1..Len(drawList'), NEW m \in 1..Len(drawList'), k < m
          PROVE  drawList'[k].layer <= drawList'[m].layer
      <4>1. k \in 1..Len(drawList)
        BY <1>2, <3>4
      <4>2. CASE m = Len(drawList) + 1
        BY <1>2, <3>1, <3>3, <4>2
      <4>3. CASE m \in 1..Len(drawList)
        BY <1>2, <3>1, <3>4, <4>1, <4>3 DEF InOrder
      <4> QED BY <1>2, <4>2, <4>3
    <3> QED BY <3>2, <3>3, <3>4 DEF InOrder
  <2> QED BY <1>7, <2>1, <2>2, <2>3, <2>4
<1>9. FewLayers' <=> FewLayers
  BY <1>0, SpritesKept
<1>10. FewLayers =>
         \A l \in 1..n : IsTileLayer(map.layers[l]) =>
           \A d \in DOMAIN map.layers[l].tiles : IsDrawn(l, d)'
  BY <1>0, <1>7 DEF LayersInv, DrawnSoFar
<1>11. /\ layersRendered' \in 0..Len(map'.layers) /\ layersRendered' < Len(map'.layers)
       /\ unread' \subseteq DOMAIN Layer'.tiles
  BY <1>0, <1>1, <1>3, LayersAreWellFormed DEF LayersInv
<1>12. FewLayers => DrawnSoFar'
  BY <1>0, <1>3, <1>8, <1>10 DEF DrawnSoFar
<1> QED BY <1>0, <1>2, <1>3, <1>4, <1>5, <1>9, <1>11, <1>12 DEF LayersInv

LEMMA LayersInvariant == Spec => []LayersInv
<1>1. Init => LayersInv
  <2> SUFFICES ASSUME Init PROVE LayersInv
    OBVIOUS
  <2>1. /\ map \in Maps /\ phase = "tilesets" /\ layersRendered = 0 /\ spriteLayer = 0
        /\ drawList = <<>> /\ IsList(drawList) /\ Len(drawList) = 0 /\ Len(map.layers) \in Nat
    BY EmptyList, LayersAreWellFormed DEF Init, SessionInit
  <2>2. LayersBelow(0 + 1) % 256 = 0
    BY LayersAreNumbered
  <2>3. Total(Counts(0)) = 0
    <3>1. Counts(0) \in Numbers({})
      BY DEF Counts, Numbers
    <3> QED BY <3>1, TotalOfNothing
  <2>4. InOrder
    BY <2>1 DEF InOrder
  <2> QED BY <2>1, <2>2, <2>3, <2>4 DEF LayersInv, DrawnSoFar
<1>2. LayersInv /\ [Next]_vars => LayersInv'
  <2> SUFFICES ASSUME LayersInv, FromMap \/ UNCHANGED sessionVars PROVE LayersInv'
    BY OnlyFromMap
  <2>1. CASE /\ UNCHANGED <<map, tileVars>>
             /\ \/ phase' = phase
                \/ {phase, phase'} \cap {"tilesets", "layers", "tiles"} = {}
                \/ LayersDone
    <3>1. /\ UNCHANGED <<map, tilesets, layersRendered, spriteLayer, unread, drawList>>
          /\ Layer' = Layer
      BY <2>1 DEF LayersDone, tileVars, Layer
    <3>2. /\ phase' \in {"tilesets", "tiles"} <=> phase \in {"tilesets", "tiles"}
          /\ phase' = "tilesets" <=> phase = "tilesets"
          /\ phase' \notin {"tilesets", "layers", "tiles"} =>
               phase \notin {"tilesets", "layers", "tiles"} \/ layersRendered = Len(map.layers)
      BY <2>1 DEF LayersDone
    <3>3. InOrder' <=> InOrder
      BY <3>1, SpritesKept DEF InOrder
    <3>4. TilesOf(Layer)' = TilesOf(Layer)
      BY <3>1 DEF TilesOf
    <3>5. DrawnSoFar => DrawnSoFar'
      BY <3>1, <3>2, <3>3, DrawnKept DEF DrawnSoFar
    <3> QED BY <3>1, <3>2, <3>4, <3>5, SpritesKept DEF LayersInv
  <2>2. CASE LoadWaypoint \/ WaypointsDone \/ SumDistance \/ DistancesDone
             \/ LoadEnemyType \/ EnemyTypesDone \/ LoadTowerType \/ TowerTypesDone
    <3>1. UNCHANGED <<map, tileVars>> /\ {phase, phase'} \cap {"tilesets", "layers", "tiles"} = {}
      BY <2>2 DEF LoadWaypoint, WaypointsDone, SumDistance, DistancesDone, LoadEnemyType,
                  EnemyTypesDone, LoadTowerType, TowerTypesDone
    <3> QED BY <2>1, <3>1
  <2>3. UNCHANGED sessionVars => UNCHANGED <<map, tileVars, phase>>
    BY DEF sessionVars
  <2> QED
    <3>1. CASE UNCHANGED sessionVars
      BY <2>1, <2>3, <3>1
    <3>2. CASE LayersDone
      <4>1. UNCHANGED <<map, tileVars>>
        BY <3>2 DEF LayersDone
      <4> QED BY <2>1, <3>2, <4>1
    <3>3. CASE FromMap /\ ~LayersDone
      BY <2>2, <3>3, NothingShownYet, LayerBegun, LayerPassed, TileShown DEF FromMap
    <3> QED BY <3>1, <3>2, <3>3
<1> QED BY <1>1, <1>2, PTL DEF Spec

(* The static draw list is the map, whatever the map's layers.             *)
THEOREM DrawListIsTheMap == Spec => []LayersAsAuthored
<1>1. LayersInv => LayersAsAuthored
  <2> SUFFICES ASSUME LayersInv, phase \notin {"tilesets", "layers", "tiles"}, FewLayers
               PROVE  LayersAsAuthored
    BY DEF LayersAsAuthored, FewLayers
  <2>1. /\ layersRendered = Len(map.layers) /\ map \in Maps /\ Len(map.layers) \in Nat
        /\ Len(drawList) = Total(Counts(Len(map.layers))) + 0
    BY LayersAreWellFormed DEF LayersInv
  <2>2. Len(drawList) = Total(Counts(Len(map.layers)))
    <3>1. Counts(Len(map.layers)) \in Numbers(1..Len(map.layers))
      BY <2>1, TilesAreCounted
    <3>2. Total(Counts(Len(map.layers))) \in Nat
      <4>1. IsFiniteSet(1..Len(map.layers))
        BY <2>1, FS_Interval
      <4> QED BY <3>1, <4>1, TotalIsNumber
    <3> QED BY <2>1, <3>2
  <2>3. \A l \in 1..Len(map.layers) : IsTileLayer(map.layers[l]) =>
          \A c \in DOMAIN map.layers[l].tiles : IsDrawn(l, c)
    BY <2>1 DEF LayersInv, DrawnSoFar
  <2>4. \A m, n \in 1..Len(drawList) : m < n => drawList[m].layer <= drawList[n].layer
    BY DEF LayersInv, DrawnSoFar, InOrder
  <2> QED BY <2>2, <2>3, <2>4 DEF LayersAsAuthored, Counts, IsDrawn, Shown
<1> QED BY <1>1, LayersInvariant, PTL

-----------------------------------------------------------------------------
(* The tilesets.                                                           *)
Loaded(k) ==
    [layout |-> map.tilesets[k], texture |-> k, rotations |-> BaseRotations(map.tilesets[k])]

TilesInv ==
    /\ map \in Maps
    /\ IsList(tilesets) /\ Len(tilesets) <= Len(map.tilesets)
    /\ \A k \in 1..Len(tilesets) : tilesets[k] = Loaded(k)
    /\ phase # "tilesets" => Len(tilesets) = Len(map.tilesets)

LEMMA TilesInvariant == Spec => []TilesInv
<1>1. \A m \in Maps : Len(m.tilesets) \in Nat
  BY MapAssumption, LenProperties DEF WellFormed
<1>2. Init => TilesInv
  BY <1>1, EmptyList DEF Init, SessionInit, TilesInv
<1>3. TilesInv /\ [Next]_vars => TilesInv'
  <2> SUFFICES ASSUME TilesInv, FromMap \/ UNCHANGED sessionVars PROVE TilesInv'
    BY OnlyFromMap
  <2>1. map' = map => \A k : Loaded(k)' = Loaded(k)
    BY DEF Loaded, BaseRotations, TileMap
  <2>2. CASE LoadTileset
    <3> DEFINE n == Len(tilesets)
               new == Loaded(n + 1)
    <3>1. tilesets' = Append(tilesets, new) /\ UNCHANGED <<map, phase>> /\ phase = "tilesets"
      BY <2>2 DEF LoadTileset, Loaded
    <3>2. /\ IsList(tilesets') /\ n \in Nat /\ Len(tilesets') = n + 1
          /\ tilesets'[n + 1] = new
          /\ \A k \in 1..n : tilesets'[k] = tilesets[k]
          /\ \A k \in 1..Len(tilesets') : k \in 1..n \/ k = n + 1
      <4> HIDE DEF new
      <4> QED BY <3>1, ListGrows DEF TilesInv
    <3>3. n + 1 <= Len(map.tilesets)
      BY <1>1, <2>2, <3>2 DEF LoadTileset, TilesInv
    <3>4. \A k \in 1..Len(tilesets') : tilesets'[k] = Loaded(k)
      BY <3>2 DEF TilesInv
    <3> QED BY <2>1, <3>1, <3>2, <3>3, <3>4 DEF TilesInv
  <2>3. CASE UNCHANGED <<map, tilesets>> /\ (phase = "tilesets" => phase' = "tilesets" \/ TilesetsDone)
    BY <2>1, <2>3 DEF TilesInv, TilesetsDone
  <2> QED
    BY <2>2, <2>3
       DEF FromMap, TilesetsDone, SkipLayer, RenderTileLayer, RenderTile, TileLayerDone,
           LayersDone, LoadWaypoint, WaypointsDone, SumDistance, DistancesDone, LoadEnemyType,
           EnemyTypesDone, LoadTowerType, TowerTypesDone, tileVars, sessionVars
<1> QED BY <1>2, <1>3, PTL DEF Spec

LEMMA LayoutsAreLayouts ==
    ASSUME NEW m \in Maps, NEW k \in 1..Len(m.tilesets)
    PROVE  /\ m.tilesets[k] \in Layouts
           /\ m.tilesets[k].described \subseteq 0..m.tilesets[k].count - 1
           /\ k = 1 => m.tilesets[k].first = 1
BY MapAssumption, ElementOfSeq DEF WellFormed

LEMMA LastOfInterval ==
    ASSUME NEW a \in Nat, NEW b \in Nat, a <= b
    PROVE  Max(a..b) = b
<1>1. b \in a..b /\ \A x \in a..b : b >= x
  OBVIOUS
<1>2. \A x \in a..b : (\A y \in a..b : x >= y) => x = b
  OBVIOUS
<1> QED BY <1>1, <1>2 DEF Max

(* No id is in two tilesets.                                               *)
LEMMA RangesAreApart ==
    ASSUME NEW m \in Maps, NEW k \in 1..Len(m.tilesets), NEW l \in 1..Len(m.tilesets),
           NEW id, id \in GidsOf(m.tilesets[k]), id \in GidsOf(m.tilesets[l])
    PROVE  k = l
<1>1. ASSUME NEW i \in 1..Len(m.tilesets), NEW j \in 1..Len(m.tilesets), i < j,
             id \in GidsOf(m.tilesets[i]), id \in GidsOf(m.tilesets[j])
      PROVE  FALSE
  <2>1. PICK s \in Layouts : s = m.tilesets[i]
    BY LayoutsAreLayouts
  <2>2. PICK t \in Layouts : t = m.tilesets[j]
    BY LayoutsAreLayouts
  <2>3. s.first \in Nat /\ s.count \in Nat \ {0} /\ t.first \in Nat /\ t.count \in Nat
    BY <2>1, <2>2 DEF Layouts, Sizes
  <2>4. Max(GidsOf(s)) = s.first + s.count - 1
    <3>1. s.first + s.count - 1 \in Nat /\ s.first <= s.first + s.count - 1
      BY <2>3
    <3> QED BY <2>3, <3>1, LastOfInterval DEF GidsOf
  <2>5. Max(GidsOf(s)) < t.first
    <3>1. j \in i + 1..Len(m.tilesets)
      BY <1>1
    <3> QED BY <2>1, <2>2, <3>1, MapAssumption DEF WellFormed
  <2>6. id \in GidsOf(s) /\ id \in GidsOf(t)
    BY <1>1, <2>1, <2>2
  <2>7. id <= s.first + s.count - 1 /\ t.first <= id /\ id \in Int
    BY <2>3, <2>6 DEF GidsOf
  <2> QED BY <2>3, <2>4, <2>5, <2>7
<1>2. k < l \/ l < k \/ k = l
  OBVIOUS
<1> QED BY <1>1, <1>2

(* A tile is found in its own tileset.                                     *)
LEMMA OwnTileset ==
    ASSUME TilesInv, phase # "tilesets",
           NEW k \in 1..Len(tilesets), NEW id \in GidsOf(map.tilesets[k])
    PROVE  GetTileSpriteSrc(id) =
             [texture |-> k, uv |-> TexelRect(map.tilesets[k], id - map.tilesets[k].first),
              baseRotation |-> BaseRotations(map.tilesets[k])[id - map.tilesets[k].first + 1]]
<1> DEFINE owners == {l \in 1..Len(tilesets) : Owns(tilesets[l].layout, id)}
<1>1. Len(tilesets) = Len(map.tilesets) /\ map \in Maps
  BY DEF TilesInv
<1>2. \A l \in 1..Len(tilesets) :
        /\ tilesets[l].layout = map.tilesets[l] /\ tilesets[l].texture = l
        /\ tilesets[l].rotations = BaseRotations(map.tilesets[l])
  <2>1. \A l : /\ Loaded(l).layout = map.tilesets[l] /\ Loaded(l).texture = l
               /\ Loaded(l).rotations = BaseRotations(map.tilesets[l])
    BY DEF Loaded
  <2> QED BY <2>1 DEF TilesInv
<1>3. \A l \in 1..Len(tilesets) : Owns(map.tilesets[l], id) <=> id \in GidsOf(map.tilesets[l])
  <2> TAKE l \in 1..Len(tilesets)
  <2>1. PICK t \in Layouts : t = map.tilesets[l]
    BY <1>1, LayoutsAreLayouts
  <2>2. PICK s \in Layouts : s = map.tilesets[k]
    BY <1>1, LayoutsAreLayouts
  <2>3. id \in Int
    BY <2>2 DEF Layouts, Sizes, GidsOf
  <2>4. t.first \in Nat /\ t.count \in Nat
    BY <2>1 DEF Layouts, Sizes
  <2> QED BY <2>1, <2>3, <2>4 DEF Owns, GidsOf
<1>4. owners = {k}
  <2>1. \A l \in 1..Len(tilesets) : id \in GidsOf(map.tilesets[l]) => l = k
    BY <1>1, RangesAreApart
  <2> QED BY <1>2, <1>3, <2>1
<1>5. Min(owners) = k
  <2>1. k \in Int
    OBVIOUS
  <2> QED BY <1>4, <2>1 DEF Min
<1>6. GetTileSpriteSrc(id) =
        [texture |-> tilesets[k].texture,
         uv |-> TexelRect(tilesets[k].layout, id - tilesets[k].layout.first),
         baseRotation |-> tilesets[k].rotations[id - tilesets[k].layout.first + 1]]
  <2>1. owners # {}
    BY <1>4
  <2> QED BY <1>5, <2>1 DEF GetTileSpriteSrc
<1> QED BY <1>2, <1>6

(* Column and row of a tile.                                               *)
LEMMA Grid ==
    ASSUME NEW columns \in Sizes, NEW count \in Sizes, NEW i \in 0..count - 1
    PROVE  /\ i % columns \in 0..columns - 1
           /\ i \div columns \in Nat
           /\ i \div columns + 1 <= (count + columns - 1) \div columns
           /\ (count + columns - 1) \div columns \in Nat
           /\ i = columns * (i \div columns) + (i % columns)
<1>1. columns \in Nat \ {0} /\ count \in Nat \ {0} /\ i \in Int
  BY DEF Sizes
<1>2. PICK q \in Int, r \in 0..columns - 1 :
         i = columns * q + r /\ q = i \div columns /\ r = i % columns
  BY <1>1, Division
<1>3. PICK n \in Int, s \in 0..columns - 1 :
         /\ count + columns - 1 = columns * n + s
         /\ n = (count + columns - 1) \div columns /\ s = (count + columns - 1) % columns
  BY <1>1, Division
<1>4. q \in Nat
  <2>1. q <= -1 => columns * q <= columns * (-1)
    BY <1>1, MoreIsMore
  <2>2. columns * (-1) = -columns /\ columns * q \in Int
    BY <1>1
  <2> QED BY <1>1, <1>2, <2>1, <2>2
<1>5. q + 1 <= n
  <2>1. n <= q => columns * n <= columns * q
    BY <1>1, MoreIsMore
  <2>2. columns * q \in Int /\ columns * n \in Int
    BY <1>1
  <2> QED BY <1>1, <1>2, <1>3, <2>1, <2>2
<1> QED BY <1>2, <1>3, <1>4, <1>5

(* Along one axis: tile a lies inside the image, and before the tiles      *)
(* after it.                                                               *)
LEMMA AlongAnAxis ==
    ASSUME NEW margin \in Nat, NEW size \in Nat, NEW spacing \in Nat,
           NEW a \in Nat, NEW b \in Nat, a + 1 <= b
    PROVE  /\ margin + size * a + spacing * a + size
                <= margin + b * (size + spacing) - spacing
           /\ margin + size * a + spacing * a + size <= margin + size * b + spacing * b
<1>1. size * (a + 1) <= size * b /\ spacing * (a + 1) <= spacing * b
  BY MoreIsMore
<1>2. size * (a + 1) = size * a + size /\ spacing * (a + 1) = spacing * a + spacing
  OBVIOUS
<1>3. b * (size + spacing) = size * b + spacing * b
  OBVIOUS
<1>4. size * a \in Int /\ spacing * a \in Int /\ size * b \in Int /\ spacing * b \in Int
  OBVIOUS
<1> QED BY <1>1, <1>2, <1>3, <1>4

LEMMA TilesFit ==
    ASSUME NEW ts \in Layouts, NEW i \in 0..ts.count - 1
    PROVE  /\ TexelRect(ts, i).x + TexelRect(ts, i).width <= ImageOf(ts).width
           /\ TexelRect(ts, i).y + TexelRect(ts, i).height <= ImageOf(ts).height
<1>1. /\ ts.columns \in Sizes /\ ts.count \in Sizes
      /\ ts.margin \in Nat /\ ts.spacing \in Nat /\ ts.width \in Nat /\ ts.height \in Nat
  BY DEF Layouts, Sizes
<1>2. PICK col : col = i % ts.columns
  OBVIOUS
<1>3. PICK row : row = i \div ts.columns
  OBVIOUS
<1>4. PICK rows : rows = (ts.count + ts.columns - 1) \div ts.columns
  OBVIOUS
<1>5. /\ col \in Nat /\ ts.columns \in Nat /\ col + 1 <= ts.columns
      /\ row \in Nat /\ rows \in Nat /\ row + 1 <= rows
  <2>1. /\ i % ts.columns \in 0..ts.columns - 1
        /\ i \div ts.columns \in Nat
        /\ i \div ts.columns + 1 <= (ts.count + ts.columns - 1) \div ts.columns
        /\ (ts.count + ts.columns - 1) \div ts.columns \in Nat
    BY <1>1, Grid
  <2> QED BY <1>1, <1>2, <1>3, <1>4, <2>1 DEF Sizes
<1>6. ts.margin + ts.width * col + ts.spacing * col + ts.width
        <= ts.margin + ts.columns * (ts.width + ts.spacing) - ts.spacing
  BY <1>1, <1>5, AlongAnAxis
<1>7. ts.margin + ts.height * row + ts.spacing * row + ts.height
        <= ts.margin + rows * (ts.height + ts.spacing) - ts.spacing
  BY <1>1, <1>5, AlongAnAxis
<1>8. /\ TexelRect(ts, i).x = ts.margin + ts.width * col + ts.spacing * col
      /\ TexelRect(ts, i).width = ts.width
      /\ TexelRect(ts, i).y = ts.margin + ts.height * row + ts.spacing * row
      /\ TexelRect(ts, i).height = ts.height
  BY <1>2, <1>3 DEF TexelRect
<1>9. /\ ImageOf(ts).width = ts.margin + ts.columns * (ts.width + ts.spacing) - ts.spacing
      /\ ImageOf(ts).height = ts.margin + rows * (ts.height + ts.spacing) - ts.spacing
  BY <1>4 DEF ImageOf
<1> QED BY <1>6, <1>7, <1>8, <1>9

LEMMA TilesAreApart ==
    ASSUME NEW ts \in Layouts, NEW i \in 0..ts.count - 1, NEW j \in 0..ts.count - 1, i # j
    PROVE  Apart(TexelRect(ts, i), TexelRect(ts, j))
<1>1. /\ ts.columns \in Sizes /\ ts.count \in Sizes
      /\ ts.margin \in Nat /\ ts.spacing \in Nat /\ ts.width \in Nat /\ ts.height \in Nat
  BY DEF Layouts, Sizes
<1>2. PICK ci, ri : ci = i % ts.columns /\ ri = i \div ts.columns
  OBVIOUS
<1>3. PICK cj, rj : cj = j % ts.columns /\ rj = j \div ts.columns
  OBVIOUS
<1>4. ci \in Nat /\ ri \in Nat /\ i = ts.columns * ri + ci
  <2>1. i % ts.columns \in 0..ts.columns - 1 /\ i \div ts.columns \in Nat
        /\ i = ts.columns * (i \div ts.columns) + (i % ts.columns)
    BY <1>1, Grid
  <2> QED BY <1>1, <1>2, <2>1 DEF Sizes
<1>5. cj \in Nat /\ rj \in Nat /\ j = ts.columns * rj + cj
  <2>1. j % ts.columns \in 0..ts.columns - 1 /\ j \div ts.columns \in Nat
        /\ j = ts.columns * (j \div ts.columns) + (j % ts.columns)
    BY <1>1, Grid
  <2> QED BY <1>1, <1>3, <2>1 DEF Sizes
<1>6. \/ ci + 1 <= cj \/ cj + 1 <= ci
      \/ ri + 1 <= rj \/ rj + 1 <= ri
  <2>1. ci # cj \/ ri # rj
    BY <1>4, <1>5
  <2> QED BY <1>4, <1>5, <2>1
<1>7. \A a, b \in Nat : a + 1 <= b =>
        /\ ts.margin + ts.width * a + ts.spacing * a + ts.width
             <= ts.margin + ts.width * b + ts.spacing * b
        /\ ts.margin + ts.height * a + ts.spacing * a + ts.height
             <= ts.margin + ts.height * b + ts.spacing * b
  BY <1>1, AlongAnAxis
<1>8. /\ TexelRect(ts, i).x = ts.margin + ts.width * ci + ts.spacing * ci
      /\ TexelRect(ts, i).y = ts.margin + ts.height * ri + ts.spacing * ri
      /\ TexelRect(ts, i).width = ts.width /\ TexelRect(ts, i).height = ts.height
  BY <1>2 DEF TexelRect
<1>9. /\ TexelRect(ts, j).x = ts.margin + ts.width * cj + ts.spacing * cj
      /\ TexelRect(ts, j).y = ts.margin + ts.height * rj + ts.spacing * rj
      /\ TexelRect(ts, j).width = ts.width /\ TexelRect(ts, j).height = ts.height
  BY <1>3 DEF TexelRect
<1>10. CASE ci + 1 <= cj
  BY <1>4, <1>5, <1>7, <1>8, <1>9, <1>10 DEF Apart
<1>11. CASE cj + 1 <= ci
  BY <1>4, <1>5, <1>7, <1>8, <1>9, <1>11 DEF Apart
<1>12. CASE ri + 1 <= rj
  BY <1>4, <1>5, <1>7, <1>8, <1>9, <1>12 DEF Apart
<1>13. CASE rj + 1 <= ri
  BY <1>4, <1>5, <1>7, <1>8, <1>9, <1>13 DEF Apart
<1> QED BY <1>6, <1>10, <1>11, <1>12, <1>13

(* As long as only the first tileset describes tiles, no other tileset's   *)
(* tile is filed under an id.                                              *)
LEMMA FiledOnce ==
    ASSUME map \in Maps, OnlyFirstDescribes,
           NEW k \in 1..Len(map.tilesets), NEW i \in 0..map.tilesets[k].count - 1
    PROVE  TileMap(map.tilesets[k].first + i) =
             IF i \in map.tilesets[k].described THEN <<k, i>> ELSE Plain
<1> DEFINE id == map.tilesets[k].first + i
           filed == {n \in 1..Len(map.tilesets) : \/ id - 1 \in map.tilesets[n].described
                                                  \/ id \in GidsOf(map.tilesets[n])}
<1>1. PICK s \in Layouts : s = map.tilesets[k]
  BY LayoutsAreLayouts
<1>2. /\ s.first \in Nat /\ s.count \in Nat \ {0} /\ id = s.first + i /\ i \in 0..s.count - 1
      /\ id \in GidsOf(s) /\ id \in Nat
  <2>1. s.first \in Nat /\ s.count \in Nat \ {0} /\ i \in 0..s.count - 1
    BY <1>1 DEF Layouts, Sizes
  <2>2. s.first + i \in s.first..s.first + s.count - 1 /\ s.first + i \in Nat
    BY <2>1
  <2> QED BY <1>1, <2>1, <2>2 DEF GidsOf
<1>3. ASSUME NEW n \in filed PROVE n = k
  <2>1. n \in 1..Len(map.tilesets)
    OBVIOUS
  <2>2. CASE id \in GidsOf(map.tilesets[n])
    BY <1>1, <1>2, <2>1, <2>2, RangesAreApart
  <2>3. CASE id - 1 \in map.tilesets[n].described
    <3>1. n = 1
      BY <2>1, <2>3 DEF OnlyFirstDescribes
    <3>2. PICK t \in Layouts : t = map.tilesets[n]
      BY <2>1, LayoutsAreLayouts
    <3>3. t.first = 1 /\ id - 1 \in 0..t.count - 1 /\ t.count \in Nat
      BY <2>1, <2>3, <3>1, <3>2, LayoutsAreLayouts DEF Layouts, Sizes
    <3>4. id \in GidsOf(t)
      <4>1. PICK x \in Nat : x = id
        BY <1>2
      <4>2. 1 <= x /\ x <= 1 + t.count - 1
        BY <3>3, <4>1
      <4>3. x \in 1..1 + t.count - 1
        BY <3>3, <4>2
      <4> QED BY <3>3, <4>1, <4>3 DEF GidsOf
    <3> QED BY <1>1, <1>2, <2>1, <3>2, <3>4, RangesAreApart
  <2> QED BY <2>2, <2>3
<1>4. filed = {k}
  BY <1>1, <1>2, <1>3
<1>5. Max(filed) = k
  <2>1. k \in Int
    OBVIOUS
  <2> QED BY <1>4, <2>1 DEF Max
<1>6. TileMap(id) = IF id - 1 \in map.tilesets[k].described THEN <<k, id - 1>> ELSE Plain
  BY <1>5 DEF TileMap
<1>7. CASE k = 1
  <2>1. s.first = 1
    BY <1>1, <1>7, LayoutsAreLayouts
  <2>2. id - 1 = i
    BY <1>2, <2>1
  <2> QED BY <1>6, <2>2
<1>8. CASE k # 1
  <2>1. map.tilesets[k].described = {}
    BY <1>8 DEF OnlyFirstDescribes
  <2> QED BY <1>6, <2>1
<1> QED BY <1>7, <1>8

(* Every tile is found, whole and apart from the others, in its own        *)
(* tileset's image, and turned as described.                               *)
THEOREM TilesAreFound == Spec => []TilesAsAuthored
<1>1. ASSUME TilesInv, phase # "tilesets" PROVE TilesKeepApart
  <2> SUFFICES ASSUME NEW k \in 1..Len(tilesets), NEW id \in GidsOf(map.tilesets[k])
               PROVE  /\ GetTileSpriteSrc(id).texture = k
                      /\ GetTileSpriteSrc(id).uv.x + GetTileSpriteSrc(id).uv.width
                           <= ImageOf(map.tilesets[k]).width
                      /\ GetTileSpriteSrc(id).uv.y + GetTileSpriteSrc(id).uv.height
                           <= ImageOf(map.tilesets[k]).height
                      /\ \A other \in GidsOf(map.tilesets[k]) \ {id} :
                           Apart(GetTileSpriteSrc(id).uv, GetTileSpriteSrc(other).uv)
    BY DEF TilesKeepApart
  <2>1. map \in Maps /\ Len(tilesets) = Len(map.tilesets)
    BY <1>1 DEF TilesInv
  <2>2. PICK ts \in Layouts : ts = map.tilesets[k]
    BY <2>1, LayoutsAreLayouts
  <2>3. \A n \in GidsOf(ts) : n - ts.first \in 0..ts.count - 1
    <3>1. ts.first \in Nat /\ ts.count \in Nat
      BY DEF Layouts, Sizes
    <3> QED BY <3>1 DEF GidsOf
  <2>4. \A n \in GidsOf(ts) : /\ GetTileSpriteSrc(n).texture = k
                              /\ GetTileSpriteSrc(n).uv = TexelRect(ts, n - ts.first)
    BY <1>1, <2>2, OwnTileset
  <2>5. \A other \in GidsOf(ts) \ {id} : id - ts.first # other - ts.first
    <3>1. ts.first \in Nat /\ ts.count \in Nat
      BY DEF Layouts, Sizes
    <3> QED BY <2>2, <3>1 DEF GidsOf
  <2> QED BY <2>2, <2>3, <2>4, <2>5, TilesFit, TilesAreApart
<1>2. ASSUME TilesInv, phase # "tilesets", OnlyFirstDescribes
      PROVE  TilesTurnedAsDescribed
  <2> SUFFICES ASSUME NEW k \in 1..Len(tilesets), NEW i \in 0..map.tilesets[k].count - 1
               PROVE  GetTileSpriteSrc(map.tilesets[k].first + i).baseRotation =
                        IF i \in map.tilesets[k].described THEN <<k, i>> ELSE Plain
    BY DEF TilesTurnedAsDescribed
  <2>1. map \in Maps /\ k \in 1..Len(map.tilesets)
    BY <1>2 DEF TilesInv
  <2>2. PICK ts \in Layouts : ts = map.tilesets[k]
    BY <2>1, LayoutsAreLayouts
  <2>3. /\ ts.first \in Nat /\ ts.count \in Nat /\ ts.first + i \in GidsOf(ts)
        /\ (ts.first + i) - ts.first + 1 = i + 1 /\ i + 1 \in 1..ts.count
        /\ (i + 1) - 1 + ts.first = ts.first + i
    <3>1. ts.first \in Nat /\ ts.count \in Nat \ {0} /\ i \in 0..ts.count - 1
      BY <2>2 DEF Layouts, Sizes
    <3>2. ts.first + i \in ts.first..ts.first + ts.count - 1
      BY <3>1
    <3> QED BY <3>1, <3>2 DEF GidsOf
  <2>4. GetTileSpriteSrc(ts.first + i).baseRotation
          = BaseRotations(ts)[(ts.first + i) - ts.first + 1]
    BY <1>2, <2>2, <2>3, OwnTileset
  <2>5. BaseRotations(ts)[i + 1] = TileMap(ts.first + i)
    BY <2>3 DEF BaseRotations
  <2> QED BY <1>2, <2>1, <2>2, <2>3, <2>4, <2>5, FiledOnce
<1>3. TilesInv => TilesAsAuthored
  BY <1>1, <1>2 DEF TilesAsAuthored, TilesKeepApart, TilesTurnedAsDescribed
<1> QED BY <1>3, TilesInvariant, PTL

=============================================================================
