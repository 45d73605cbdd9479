# classic_game_template in TLA+

Specifications of the logic in this repository: the engine template under `src/src/engine`
and the tower-defence game under `src/src/examples/tower_defence`. Line numbers below are
those of the files under `src/src`; `PROJECT.json` maps every definition to its lines.

## 1. Inventory

The program is one thread: `main` constructs the engine, whose members open everything the
game needs, the game loads its session, and then everything happens in the frame loop of
`Engine::RunInternal` (`engine.cpp:26`): clock, event loop, `Game::Update`, user interface,
present. What makes it hard is therefore not parallel code but *data that is read at another time than it was
written*: two world buffers that swap roles, indices that outlive the list they point into,
a command queue that waits for a time step which may not come in this frame, capture flags
that are one frame old, a graphics context that keeps the bindings of whoever drew last,
start-up steps that fail while what they need, or what needs them, is half there, and devices
that act between any two instructions.

| component | state | operations | interacts with |
|---|---|---|---|
| `GameState::TimeStep` (`game_state.cpp:7`) | enemies, towers, projectiles, gold, `nextObjectId` | enemy, tower, projectile and command loops | reads the previous buffer, writes the next; reads the command queue, fills the event queue |
| `GameSession` (`game_session.cpp`) | two `GameState` buffers, the pointers to them | `FromMap` (with a warm-up step), `TimeStep` (swap), `InterpolateState` | owned by `Game` |
| `GameState::Interpolate` (`game_state.cpp:321`) | two list indices | one walk over both lists of each kind | its result is what is drawn |
| `Game::Update` (`game.cpp:17`) | accumulated time, selected speed, command and event queues | fixed-time-step loop, menus, build click, quitting | called once a frame by the engine |
| Engine loop (`engine.cpp:26`) | quit flag, statistics switch | event loop, shortcut, update, present | SDL, UI, Input, Game, renderer |
| `Input` (`input.cpp`) | pressed, released, held bit sets; scancode table | `ProcessWindowEvent`, `NewFrame`, `Reset` | fed by the event loop after the UI, read by the game |
| `UIBindings` (`ui_bindings.cpp`) | ImGui's capture flags, the ray of the cursor | `ProcessWindowEvent`, `NewFrame`, `RenderUi`, `Shutdown` | sees every event first; draws last |
| Sprite submission (`render_context_dx11.cpp`) | instance buffer, textures, bindings of the context, frame statistics | `Create`, `Clear`, `Submit` (sort, batch, draw), `Present` | called by the game several times a frame; shares the context with Im3d |
| Im3d back end (`im3d_dx11.cpp`) | shader sets, a vertex buffer that grows | creation, `Render` | draws after the game's update, on the same context |
| Map data, entity types (`map_data.*`, `entity_types.*`) | constant after loading | parsing, `Query`, `WorldToTile` | read by `TimeStep` and the menus |
| Tileset helper (`tileset_helper.*`) | tilesets with their textures | `LoadMapTilesets`, `GetTileSpriteSrc`, `RenderTileLayers` | makes the static draw list of the session |
| Camera (`camera.cpp`) | position, pixels per unit | `ScreenPointToWorld`, `WorldPointToScreen` | moved by `Game::Update` before the tile is picked; its view read by `UIBindings` |
| Maths (`math.h`) | none | `VectorAngle`, `AngleVector`, `AngleLerp` | used by the time step and by interpolation |
| Audio (`audio.*`) | the device, a track, sounds | loading, `PlayMusic`, `PlaySoundEffect`, destructors | used by the game, whose music and effects must go before the device |
| Panics (`system.*`) | none | panics, assertions (of which a release build keeps the `ALWAYS` ones), the dialog | every step of the start-up |
| Assets, window | handles | construction, destruction | opened by the engine's members |
| Vendored code (Tracy, Im3d, metrics_gui, Tileson), shaders, pictures | | | |

What must be right about each:

* **TimeStep**: object ids are never reused; nobody is lost or invented by copying between
  buffers; a projectile that remembers a list position never hits the wrong enemy; the
  player is paid exactly for what dies; gold balances; every loop ends.
* **Interpolate**: an entity is blended only with itself; everything that exists in both
  states is drawn, unless the code's one-pass walk says otherwise - then we say so exactly.
* **Frame loop**: commands run once and in order, however many steps a frame has; the
  interpolation factor stays in range; pausing pauses; no spiral of death on a machine that
  is fast enough.
* **Input**: no sticky keys; a tap that is over before the frame is still reaches the game, unless
  the interface takes an event of that frame; one click is at most one tower; closing the window
  always ends the program.
* **Picking**: a click builds on the tile drawn under the cursor, and nowhere else.
* **Submission**: every sprite drawn once, in order, with its own texture, inside the buffer,
  and with its own pipeline, whatever Im3d left bound in the frame before.
* **Loading**: the draw list is the authored map; waypoints lie on the path as drawn, and know how
  far the goal is; a tower type and its projectile type stay together.
* **Start-up and shutdown**: whatever fails, nothing is used before it is made, nothing outlives
  what it was made from, and what was acquired is released.

`PROJECT.json` lists every hazard at its line, with the properties that would catch it.

### What the model showed about the code

Two runs end in a counterexample, because a comment in the source says otherwise:

* `ray`: the ray Im3d is given does not begin under the cursor once the camera has moved.
  `NewFrame` (`ui_bindings.cpp:150`) multiplies a view-space point by the view matrix, which
  takes the camera's position away instead of adding it. No gizmo is drawn yet, so nobody sees it.
* `angles_away`: `AngleLerp` (`math.h:110`) is not "free of artifacts (?)" (`math.h:112`): of the
  blend of two unit vectors, which is shorter than 1, it takes the `acos` of x as it is. An
  entity that turns across the axis that points left is first drawn turning the other way.

All other properties hold. These are behaviours of the code which the models contain, because
the code has them, and which a reader might not expect:

* An enemy killed in a step stays in the list, with zero health, until the next step. A
  second projectile that reaches it in the same step only compares ids
  (`game_state.cpp:223`): the enemy "dies" again and pays again. `bounties` counts this;
  `EventsTellTheStep` states that events and bounties agree, `CorpsesSwept` that it cannot
  go on for longer than that step. `Battlefield!Strike` has the same rule.
* A projectile remembers its target's index. When an enemy in front of the target leaves, the
  index becomes stale and the target is lost for good, though alive (`LostForGood`); if the
  index is past the end the projectile vanishes (`game_state.cpp:218`).
* Launched projectiles are stored before those in flight. Since interpolation pairs entities
  by one walk, *no* projectile is drawn after a step in which any tower fired
  (`LaunchHidesProjectiles`).
* The steering rules normalise vectors that can be zero (`game_state.cpp:100, 110, 116`). The
  model lets any enemy's position become "not a number" at any step; nothing in the code
  turns it back, no radius query finds it, and it never reaches the goal.
* The unmapped entries of the scancode table are uninitialised (`input.cpp:157`): an unknown
  key may act as any key, even as the left mouse button, or throw.
* The sort before rendering uses a comparison that is not a strict weak order
  (`sprite_draw_list.cpp:17`); the game itself never asks for the sort. The standard then promises
  nothing. The model has what Microsoft's library, which a Direct3D build uses, makes of it: its sort
  checks its bounds itself, so it leaves some permutation, or a debug build notices and aborts.
* When the interface takes an event, `Reset` (`engine.cpp:55`) clears all three bit sets: a key or
  button pressed and released earlier in the same frame is lost. `ClicksReachGame` says which clicks are not.
* Commands that wait when the player quits are dropped.
* `VectorAngle` is 0 degrees for a vector that points exactly left, since the sign of y, which is
  0 there, is a factor (`math.h`).
* Tileson files a tile that the map describes under its place in its tileset plus one, not under
  its id (`TileMap`). With descriptions in the second tileset, tiles of the first can be drawn
  turned as those say; `TilesTurnedAsDescribed` is therefore about maps in which only the first
  tileset describes tiles; the shipped map has only one.
* `UIBindings::Shutdown` is called by nobody: ImGui's context and back ends are what a normal end
  of the process leaves behind (`OnlyUiLeftBehind` says: nothing else).
* Nobody looks at what `SDL_Init`, `SDL_CreateWindow` and ImGui's back ends return (`Lifecycle`,
  `Unchecked`). SDL starts a subsystem that is missing when a window or the audio device is made; if
  that fails too there is no window, and the swap chain ends the start-up with a fatal panic. The
  game may run without ImGui's back ends, as it may without sound (`Optional`). A picture that cannot be decoded is read through a null pointer instead.
* Without an audio device the game runs on in a release build, and in a debug build if the
  player chooses to continue; it plays nothing.

## 2. Modules

```
Lifecycle                            GameState
   \                                   |    \
    Process --- MCProcess              |     GameStateRefinement (INSTANCE Battlefield)
   /     \                             |         \
MapLoad   ProcessProofs*          GameStateView --- MCGameState (three configurations)
                                       |    \      /
Interpolation --- Drawing -------------'     GameStateProofs*
   |    \
   |     InterpolationProofs*        TilePicking --- TilePickingProofs*
   MCInterpolation                      |    \
                                        |     CursorRay --- MCCursorRay
SpriteBatch                             MCTilePicking
   \
    Frame --- FrameProofs*           GameLoop --- GameLoopProofs*, MCGameLoop
      \
       MCFrame                       EventPump --- EventPumpProofs*, MCEventPump

Angles --- MCAngles (two)

Tally: used by GameState, SpriteBatch, MapLoad
ListProofs*: used by GameStateProofs, InterpolationProofs, FrameProofs, ProcessProofs, TilePickingProofs

* checked by TLAPS
```

**GameState** - the session. `prev` and `next` are the two buffers as `TimeStep` sees them
after the swap. `phase` and `cursor` are the program counter: the loop and the element it is
at; `target` and `splash` are the locals of the firing and splash loops. One action is one
iteration: `RemoveEnemy`, `MoveEnemy` (`game_state.cpp:37-137`), `SkipTower`, `AimTower`,
`FireShot`, `HoldFire` (`141-187`), `DropProjectile`, `FlyProjectile`, `HitProjectile`,
`SplashEnemy` (`214-265`), one action per command (`268-318`); `BeginTimeStep` is the swap
and the preamble, `EndTimeStep` what the caller does after it. Positions are reduced to what
the code distinguishes - on the way, at the goal, not a number - and every comparison of
distances is a choice, except where no geometry could decide otherwise. Indices are 1-based.
`bounties` and `income` are history variables. Because the time step is sequential and touches
nothing but its arguments, the interleaving with the menus is at its boundaries:
`IssueCommand` between steps, the queue emptied after each.

**Battlefield** - the same session as a player understands it: a purse, a set of enemies, a
set of towers, and ids that are used up. **GameStateRefinement** maps `GameState` to it. The
mapping is where the double buffer shows: while the enemy loop runs, enemies not reached yet
still live in the previous buffer; until the tower loop is through, the towers do.

**Interpolation** - `InterpolateEntities`, one iteration per step, with indices that wrap at
`IndexRange` as `u32` does. **Drawing** is its closed form (the longest beginning of the new
list that survives, in order, from the old one), which the run `interpolation` establishes on
all small lists, and which **GameStateView** then uses to say what is drawn of the states
`GameState` reaches.

**GameLoop** - the accumulator. Time is in ticks, the accumulator in quarter ticks since the
slowest speed is 0.25. A frame takes at most `FrameCost` ticks and `StepCost` more per time
step it ran (the frame before pays for them, `BeginFrame`). Steps are `GameState`'s
business; here they execute the queue.

**EventPump** - devices, SDL's queue, the UI's capture, Input's bit sets, the build click, the
quit flag. Devices act at any moment of the frame. Which events ImGui uses, and what it wants
to capture next frame, is external and left open.

**SpriteBatch** - `Submit` sprite by sprite, the sort, and the statistics until `Present`.

**Frame** - a whole frame on the one Direct3D context: `Clear`, the sprite lists of the game's
update (SpriteBatch's actions, composed with the bindings), Im3d's lists, ImGui, `Present`. A
binding is named after the pass or the primitive it belongs to; a pass changes the bindings it
sets and inherits the others from whatever ran before, in this frame or the last. `lastDraw`
remembers what the last draw call saw.

**MapLoad** - `GameSession::FromMap` loop by loop: tilesets, tile layers, the path with its
distances, enemy, tower and projectile types, from parsed maps (`Maps`) of which `MapAssumption`
says what Tiled guarantees. A tile layer is rendered tile by tile, in the order in which Tileson's
map of tiles is walked (by column, then by row); the layer of a sprite is a byte.

**Lifecycle** - `main`, the engine's members in the order of their declaration,
`Game::Initialize`, the frames as far as sounds play in them, and the destructors; every step may
fail, `SDL_Init` and what else nobody checks included, leaving behind what it does (`Leftovers`), and the
panic dialog is answered in every way it offers. **Process**
composes the two: the session is loaded as one of the steps of the start-up, and that step can
fail at any point of the loading.

**Tally** - `Total`, the sum of the values of a function as a number of items, which needs no order
to add in: the prices of the towers in `GameState`'s ledger, the sprites of the draw calls, the
sprites of the layers, the legs of a path. Sums written this way can be proved about without
induction over data.

**Angles** - one entity's rotation from time step to time step, and what is drawn in between, on
the directions with whole coordinates, in exact arithmetic.

**TilePicking** - `BuildableMap` filled tile by tile, then frame by frame: `MoveCamera` (wheel,
keys, pixels per unit) and `Pick` (cursor to world, world to tile, tile to grid, click to order).
World coordinates are in half pixels, so that the centre of a window of odd size is a point of
the model. `WorldPointToScreen` is the direction in which the map is drawn; the properties
compare the pick with it. **CursorRay** adds what happens earlier in the frame: `NewFrame` gives
Im3d the cursor, with the camera the last update left behind.

Definitions named `X_Something` are seeded faults: each is `X` with a plausible bug. They are
used by nothing; replacing `X` by one of them makes the property it is paired with in
`PROJECT.json` fail.

## 3. Runs

| run | configuration | shows |
|---|---|---|
| `combat` | one tower whose splash shots can be fired twice a step, two enemies with 2 health, ids for three shots, under `FairSpec` | types and unchecked indices, payment for the dead, copying between buffers, events against what happened; a step that has begun returns |
| `economy` | one enemy type, two tower types, two commands a step, debug gold, a bounty that pays for a second tower | the ledger balances, towers are kept; the session implements `Battlefield`, with its shots, wounds, deaths and rewards |
| `targeting` | one gun, several enemies, three waypoints | ids, stale indices, no projectile hits another than its target, waypoints in bounds, what is drawn of the world |
| `interpolation` | all pairs of lists of up to four of four ids, indices modulo 8 | the walk, against its closed form; it ends |
| `loop` | all six speeds, frames of up to 2 ticks and one per step, steps of 5 ticks, under `FairSpec` | exactly-once, pausing, spiral; commands run in the end |
| `pump` | two shortcut keys, an unmapped key, a known and an unknown button, four events, under `FairSpec` | sticky keys, double builds; quitting is honoured; a click that waits while the interface captures nothing is seen by the game |
| `frame` | two lists of up to three sprites a frame, two textures and none, two layers, batches of two; then up to two Im3d lists of two sizes, under fairness of `Submit` | every sprite once, with its own texture; every draw call sees its own bindings; no buffer is overrun; `Submit` returns |
| `picking` | map of 3 by 2 tiles, window of 7 by 4 pixels, three zooms, camera moved in half tiles | the tile picked is the tile drawn, no dead spots on the map |
| `process` | one or two tilesets with and without borders, up to two tile layers around an object layer, paths of up to four points, all failures, both builds | what is held against what is used, what is left at the end; draw list, path and types against the authored map |
| `angles` | twelve directions, six amounts | what is drawn meets both ends and does not turn back, as long as the turn stays on one side of the axis |
| `ray` | one tile, a window of 3 by 2 pixels | *counterexample*: `RayFromCursor` |
| `angles_away` | twelve directions, four amounts | *counterexample*: `NeverTurnsAway` |

*Bounds.* `MaxObjectId` bounds a session: a step begins only below it (a step may then use
several ids more). With 6 (`combat`) two enemies, a tower and three shots exist: a splash has two
victims, two shots of one step meet the same corpse, and the dead are removed. With 4 (`economy`) an
enemy is shot at twice, dies and is removed, and its reward buys a second tower. With 5
(`targeting`) a projectile's index goes stale while its target lives. `MaxCommands` bounds a step's queue,
`MaxIncome` the gold that keeps states apart. `MaxIssued`, `MaxArrivals`, `MaxSprites`,
`MaxSubmits`, `MaxLists`, `MaxEntities` bound the other instances. `IndexRange` is 2^32 in the code; the
walk depends only on its being larger than the lists. `CoordRange` is 2^32 too; here it is larger
than anything the small window reaches. `Grain`, `MaxWheel`, `MaxMove`, `MaxPosition` and `Overshoot`
bound the camera and the cursor: both axes, both edges of the map, all four sides of the window
and even and odd tile sizes are in the instance. `VertexCounts` of two sizes let Im3d's buffer be
made, kept and made again. `Radius` 5 is the smallest circle with whole points off the axes;
`Frames` is how finely the amount is divided. `Maps` of `process` are described in `MCProcess`:
tiles, paths and types do not meet in the code, so each is varied by itself. `Lifecycle` needs no
bound. The instances were inspected for the interesting cases, by asking TLC for a state that has them: a corpse
hit twice, a splash with two victims and two shots in a step (`combat`); a wound, a kill whose reward
is spent on a tower, the removal of the dead (`economy`); a stale index that survives and a living
target lost (`targeting`); frames of no, one and several steps (`loop`).

Constants of the maps are small numbers instead of the shipped ones (100 gold, 50 to 100
health); the code only adds, subtracts and compares them. Shots twice a step do not occur with
the shipped rates at 30 steps a second, two towers hitting one enemy do; the instance has the
former because it is the smaller world with the same effect.

*Deadlock* is checked in all runs. The states in which a program really ends (`quit`,
`stopped`, `crashed`, `aborted`, `killed`, `exited`, `returned`) stutter explicitly.

*Fairness.* `GameState`, `Interpolation` and the sprites of `Frame`: a call that has begun runs
on (weak fairness of the steps inside the call), as sequential code without blocking does; nothing is assumed of the
caller. `GameLoop` and `EventPump`: the thread takes its next step; nothing is assumed of
devices, menus or the operating system. `CommandsRun` needs the game not to stay paused and
excuses quitting. `QuitHonoured` is about finitely many events: with devices that never fall
silent the event loop may poll forever, in the code as in the model.

## 4. Proofs

TLAPS checks, for every value of the constants that meets the named assumptions:

*The session* (`GameStateProofs`)

* `TypeCorrect` - `TypeOK` is inductive once the places of the program counter at which the code
  indexes without a check are part of it (`IndicesOK`). `WorldFields`, `WoundedTypes` and
  `DamageTypes` are the lemmas; the last says what `applyDamageToEnemy` does to the world.
* `WaypointsInBounds`, `PaidForTheDead`, `DeadAreSwept` - from `EnemiesInv`: the enemies of *both*
  buffers are `Sound` (the previous buffer is where the next survivors come from), and nobody in
  the new one is dead until the projectiles fly. `DeadAreSwept` (`CorpsesSwept`) is no longer in
  a run: the proof covers every instance.
* `IdsStayFresh`, `TargetsStayApart` - from `IdsInv`. `ObjectIdsFresh` alone is not inductive: that
  a copied tower's id differs from every enemy's rests on the copies being in their old places
  (`TowersInPlace`), and that a survivor's id is fresh on its coming from the old list
  (`Survivors`). `Survivors` also says that an enemy stands at or before its old place, because
  removals only move the others forward. This is why a stale target index is never in front of its
  target (`StillAimed`), the heart of the second theorem: a remembered index may lose the target,
  it cannot find another.
* `HitsStrikeTheirTarget` - an action property: a direct hit changes only the enemy whose id the
  projectile carries.
* `NoTowerIsLost` - from `CopyInv`, which says of both buffers that no tower has an unfired shot, and
  of the new one how far the copy has got.
* `NobodyIsLost` - from `PassageInv`: in the enemy loop, of those it has passed, exactly the dead and
  those at the goal are missing. It needs `IdsInv`, since "missing" is about ids (`MovedAreOlder`).
* `SessionIsBattlefield` - the refinement. Each visible step has its lemma (`MoveWalks`, `DamageStrikes`,
  `CommandBuilds`, ...), each invisible one falls under `Unseen`, or is a boundary at which the mapping
  changes from one buffer to the other (`NewStepUnseen`, `EnemiesDoneUnseen`, `TowersDoneUnseen`).
  `NextInLine` is the point of the enemy loop: the enemy taken out of the part ahead is like no
  other, so the world loses or changes exactly one. It rests on `IdsInv`, `EnemiesInv` and `CopyInv`.
* `GoldAccountedFor` - the ledger: the purse is the starting gold and what was credited, less the
  price of every tower that stands. `GoldLedger` reads the towers of the old buffer until the new
  one has its copies; that the sum does not change at the end of the copy is `CopyInv`, and `WarmUp`
  says it of the step `FromMap` takes before there are towers. The sums are `Total`s:
  `PriceWithOneMore` (a tower is built) and `SamePrice` (its timers are not its price) are all the
  proof needs of them.
* `EventsAreTrue` - from `TellInv`: the queue is empty between steps, and keeps pace with ids and
  bounties from the first loop on. A corpse that is hit again is `BountiesWithAnother`: one more
  bounty on an enemy already paid for, and one more event.
* `SurvivorsAreDrawn` - from `NewcomersInv`: in the enemy list whatever is new stands behind
  whatever survived. `SurvivorsFound` turns this into what the walk of `Interpolate` needs, since
  survivors keep their order (`IdsInv`) and the walk stops at the first newcomer
  (`ListProofs!DrawnUpToNewcomer`). Towers are never removed (`CopyInv`), so the same holds of them.
* `LaunchHidesThem` - from `FlightInv`: launched projectiles come first, and those in flight follow in
  their old order. So a launch puts a newcomer in front, and the walk ends there.

*The frame* (`GameLoopProofs`, `EventPumpProofs`)

* `GameLoopProofs!TypeCorrect`, `DrawnBetweenSteps`, `CommandsExactlyOnce`, `PausedIsPaused`,
  `NoSpiral`. The last is the interesting one: the invariant relates the accumulator to the
  steps already run in this frame (what has been consumed plus what is left never exceeds what
  one frame, including the steps of the frame before, can bring in). `DrawnBetweenSteps`
  (`InterpolationInRange`) is proved and not in a run.
* `EventPumpProofs!TypeCorrect`, `OneTowerPerClick`, `KeysDoNotStick`. The last
  needs `PressesBacked`: behind every queued press of a key that is up again, its release is
  queued. That is what `Reset` on a captured event relies on: it may forget a key that is down,
  but a press it leaves in the queue is never without its release.

*Interpolation* (`InterpolationProofs`)

* `LongestPrefixDrawn` - from `WalkInv`: the first `j` entities of the new list
  have been found, in order, among the first `i` of the old one (`Found`), and nobody who finds more
  of them finds the next one before `i` (`NoneAhead`). That speaks of *every* way to find the list,
  which is why no induction over lists is needed to see that the one-pass walk draws the longest
  beginning there is (`LongestIsDrawn`). `j` is decremented before it is incremented
  (`game_state.cpp:330`), so on a mismatch at 0 it passes through the largest `u32`; `BackAndForth`
  is the arithmetic of that.

*Drawing* (`FrameProofs`)

* `TypeCorrect`, `FitsBuffer`, `DrawnWithOwnTexture`, `BatchesAreMaximal`,
  `FrameStatistics`. `BatchInv` says of the batch being copied what is claimed of the finished
  ones; `FirstOfBatch` makes the `do-while` safe: the first sprite always matches the bound
  texture, so no draw call is empty. `NoWasteInv` remembers why the last batch ended. The proof
  takes the sort to be any permutation, so it does not depend on the comparison being an order.
* `OwnTextureInFrame`, `SpritesOnceInFrame` - what a frame adds around `Submit` leaves its variables alone
  (the lemma `FrameImplementsSubmit`), so `SpriteBatch`'s invariants carry over.
* `OwnBindings` - from `PipelineInv`, which says at each stage which bindings are already its own.
  What a draw call depends on (`SpriteNeeds`, `Im3dNeeds`) is written down by itself, from what the
  pipeline reads when it draws, and not taken from the set-up the actions use: `SubmitBindsAll` and
  `ListBindsOwn` show that the passes set all of it and inherit only what the stage has set. `BuffersFit` - Im3d's vertex buffer is as large as what is read.

*The process* (`ProcessProofs`)

* `NothingDangles`, `FramesAreComplete`, `OnlyUiLeaks` - from `LifeInv`, which ties the step counter to
  what is held: a step behind the start-up has been taken unless it is one the game can do
  without (`StartupInv`), a step behind the teardown holds no more (`TeardownInv`). `UsersGoFirst` is the
  fact about the two orders: whatever is released, nothing that uses it is left. A step the code goes on
  after although it has failed is `Passable`: SDL, the window and ImGui's back ends because nobody looks,
  the sounds because the player may want to. Of these the frames need SDL's video and the window; what lets them do
  without a check is that the swap chain comes later and needs both.
* `SessionIsAStep` - `Process` implements `Lifecycle` (`ProcessSpec`): while the session loads, the start-up waits. So
  the three theorems above hold of the whole process.

*Loading a map* (`ProcessProofs`)

* `TowersFireTheirOwn` - from `TypesInv`: the lists of tower types and of projectile types grow by one
  each for the same object, so the index stored in the one (`entity_types.cpp`) is the
  place in the other.
* `PathIsAsDrawn` - from `PathInv`. What a waypoint says is left is the `Total` of the legs
  from it on. The loop sums backwards: `LastHasNoneLeft` is where it starts, `OneLegMore` its step. That a
  point drawn inside a tile becomes a waypoint on that tile is `WithinHalfATile`.
* `DrawListIsTheMap` - from `LayersInv`: the draw list is as long as the layers passed, and the cells
  visited in the present one, have tiles; each of those is in it (`DrawnSoFar`), and the layers ascend
  (`InOrder`). A sprite's layer is the number of tile layers below its own, modulo 256: from the
  257th tile layer on the order is lost, hence the property's restriction.
* `TilesAreFound` - from `TilesInv`, what is in `m_Tilesets` after each iteration. `OwnTileset`: of the
  tilesets, whose ids lie apart (`RangesAreApart`), the search finds the tile's own. `Grid` takes a
  tile's place apart into row and column, `AlongAnAxis` says for one axis that two cells do not meet and lie in the image;
  `TilesFit` and `TilesAreApart` put the axes together. `FiledOnce` is why descriptions in the first
  tileset alone turn the right tiles: its ids begin at 1, so a place plus one *is* the id.

*Picking* (`TilePickingProofs`)

* `ClicksHitTheirTile`, `NoClickIsLost` - from `PickingInv`: the grid says what was read of the tiles
  visited so far (`CellsAreApart`: flattening it merges no two), and an order, once given, is for the
  tile picked in this frame. A pick rounds to the nearest tile. `NearestIsNear` and
  `NearestIsUnique` say what that finds, also where rounding changes its direction, at the axes;
  `NearestIsFar` that beyond the map it finds none of the map's tiles. A cursor that has left the window
  across the left or the lower edge has coordinates that wrap as unsigned numbers (`Wraps`):
  `CursorInWorld` shows that they come out right of the map, or above it, and not on a wrong tile.

*Shared lemmas* (`ListProofs`) - division with remainder, what a `Total` gains from one more summand
or a larger one, lists that grow, and `Drawn`.

*Assumptions.* `GameState!MapAssumption`: positive health and rates, at least two waypoints
(which `SetupEnemy` asserts), costs and rewards that are not negative. `LoopAssumption`: the
speeds contain 1 and have a fastest one. `PumpAssumption`: a device is a key or a button, not both,
and what the code maps, it maps to key codes. `BatchAssumption`: the placeholder is no loaded texture.
`FrameAssumption`: draw lists are not empty. `MapLoad!MapAssumption`: maps are as Tiled writes them
(`WellFormed`: ranges of ids that ascend from 1, every tile in one of them). `InterpolationAssumption`: a list is
shorter than the range of an index. `PickingAssumption`: sizes and zooms are positive.
`ScreenAssumption`: the window, what the cursor can
leave it by, the map and the camera's reach, at any zoom, are together less than `CoordRange` (2^32 in
the code) pixels wide; a wider world could wrap onto itself.
TLC evaluates all of them on the instances of the runs.

*Only model-checked.* The liveness properties (`StepTerminates`, `CommandsRun`, `ClicksReachGame`,
`QuitHonoured`, `LoopEnds`, `SubmitReturns`), which are outside the prover's reach, and the property of `Angles`,
whose exact arithmetic is about the twelve directions of the instance. Every other property of a
passing run has a theorem that states it for all instances.

## 5. Not modelled

* Geometry: positions, steering, rounding in the camera's matrices and in angles. Comparisons of
  distances are choices. In particular that enemies do reach the goal is not shown: whether the
  steering forces bring an enemy within the small distance of the last waypoint is a question
  about floats.
* Floats as numbers: gold, health and time are exact here. The shipped values are integers
  (or thirtieths of a second), far below where a float loses integers.
* `lives`: set from the map and never changed by any code.
* A rotated path (`map_data.cpp:36`), flipped tiles, for which Tileson hands out no tile, and the
  single properties of entity types.
* The search for the root folder, file access, the decoding of pictures and sounds: each is one
  step that may fail. The clock's counter, profiling, the menus' layout, debug drawing and the
  performance window: input, output or calls into libraries.
* Shaders, and vendored code (`engine/extern`), but for what the loading rests on in `tileson.hpp`: its
  table of tiles, the tiles of a layer, the objects of a kind.
* A second tower on an occupied tile (`game_state.cpp:305`): the code does not forbid it, and nothing
  in the repository says whether it should; the model allows it.

## 6. Plan

Done: the session, its abstract specification, what is drawn of it and the proof that the one
implements the other; the frame loop; the event path; picking a tile and the cursor's ray; the whole
frame on the graphics context; loading; start-up and shutdown; angles; the proofs of section 4.

What would be worth adding:

1. A composition of `GameLoop` and `GameState`'s step boundaries with `EventPump`'s build click: from
   the click to the tower, across frames with no, one and several steps.
2. `Angles` over any circle: that a turn which stays on one side of the axis is drawn without turning
   back is a fact about the order of directions, of which the model's arithmetic is one instance.
