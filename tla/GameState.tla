----------------------------- MODULE GameState -----------------------------
(***************************************************************************)
(* One tower-defence session: GameState::TimeStep (game_state.cpp) run by  *)
(* GameSession (game_session.cpp) on two buffers that swap roles at every  *)
(* step.  The time step is modelled at the grain of its loops: one action  *)
(* per iteration of the enemy, tower, firing, projectile, splash and       *)
(* command loops, with "phase" and "cursor" as the program counter.        *)
(*                                                                         *)
(* Geometry is data here.  Where the code compares distances, the action   *)
(* chooses the outcome, constrained by what no geometry can falsify (a     *)
(* position that is not a number is within no radius; a target at distance *)
(* zero is within its own splash).  Queues are 1-based, indices included.  *)
(***************************************************************************)
EXTENDS Sequences, Tally

CONSTANTS
    EnemyTypes, MaxHealth, GoldReward,              \* mapData.enemyTypes
    TowerTypes, Cost, ShotInterval,                 \* mapData.towerTypes
    Damage, Splashing,                              \* mapData.projectileTypes, one per tower type
    LastWaypoint,                                   \* enemyPath.waypoints.size() - 1
    BuildableTiles,                                 \* tiles the build menu accepts
    GoldAmounts,                                    \* amounts of the debug menu
    StartingGold, UnsetGold,                        \* map property, uninitialised PlayerState::gold
    FixedDelta,                                     \* clock ticks of one time step
    MaxObjectId, MaxCommands, MaxIncome             \* bounds of the instance, not of the code

ASSUME MapAssumption ==
    /\ MaxHealth \in [EnemyTypes -> Nat \ {0}]
    /\ GoldReward \in [EnemyTypes -> Nat]
    /\ Cost \in [TowerTypes -> Nat]
    /\ ShotInterval \in [TowerTypes -> Nat \ {0}]
    /\ Damage \in [TowerTypes -> Nat]
    /\ Splashing \subseteq TowerTypes
    /\ LastWaypoint \in Nat \ {0}
    /\ GoldAmounts \subseteq Nat
    /\ StartingGold \in Nat
    /\ UnsetGold \in Int
    /\ FixedDelta \in Nat \ {0}
    /\ MaxObjectId \in Nat /\ MaxCommands \in Nat /\ MaxIncome \in Nat

VARIABLES
    prev,           \* *m_PrevState, the "initial" of TimeStep
    next,           \* *m_NextState
    phase,          \* the loop TimeStep is in, or "warmup", "idle", "quit" between steps
    cursor,         \* the element the loop is at
    target,         \* targetEnemyIdx of the tower that is firing
    splash,         \* enemyQueryStorage still to be damaged
    commands,       \* m_GameCommands
    events,         \* kinds of m_GameEvents
    income          \* history: all the gold ever credited to the player

vars == <<prev, next, phase, cursor, target, splash, commands, events, income>>

Positions == {"path", "goal", "nan"}    \* on the map, at the last waypoint, not a number

(* bounties is history: how many times this enemy was paid for. *)
Enemy == [id : Nat, type : EnemyTypes, health : Nat, waypoint : Nat,
          pos : Positions, bounties : Nat]

Tower == [id : Nat, type : TowerTypes, tile : BuildableTiles, sinceShot : Nat]

Projectile == [id : Nat, type : TowerTypes, targetIdx : Nat \ {0}, targetId : Nat]

World == [gold : Int, nextObjectId : Nat, enemies : Seq(Enemy),
          towers : Seq(Tower), projectiles : Seq(Projectile)]

Command ==
    [kind : {"spawn"}, type : EnemyTypes]
      \cup [kind : {"despawn"}]
      \cup [kind : {"gold"}, amount : GoldAmounts]
      \cup [kind : {"build"}, type : TowerTypes, tile : BuildableTiles]

EventKinds == {"ProjectileLaunched", "ProjectileHit", "EnemyDied"}

(* A state buffer as its constructor leaves it, but for the gold. *)
FreshWorld(gold) ==
    [gold |-> gold, nextObjectId |-> 0,
     enemies |-> <<>>, towers |-> <<>>, projectiles |-> <<>>]

(* Seeded fault: the id counter is not carried over. *)
Recycled_ForgetsIds(initial) == FreshWorld(initial.gold)

(* next after TimeStep's preamble: cleared lists, copied scalars. *)
Recycled(initial) ==
    [gold |-> initial.gold, nextObjectId |-> initial.nextObjectId,
     enemies |-> <<>>, towers |-> <<>>, projectiles |-> <<>>]

NewEnemy(id, type) ==
    [id |-> id, type |-> type, health |-> MaxHealth[type],
     waypoint |-> 1, pos |-> "path", bounties |-> 0]

NewTower(id, type, tile) ==
    [id |-> id, type |-> type, tile |-> tile, sinceShot |-> 0]

(* GameState::QueryEnemiesInRadius can return any of these, by geometry. *)
Targetable(enemies) ==
    {i \in 1..Len(enemies) : enemies[i].health > 0 /\ enemies[i].pos # "nan"}

(* What TimeStep's loop drops: the dead, and those at the last waypoint. *)
Leaves(enemy) == enemy.health = 0 \/ enemy.pos = "goal"

(* Seeded fault: the id is not compared. *)
TargetAlive_ByIndex(enemies, p) == p.targetIdx <= Len(enemies)

TargetAlive(enemies, p) ==
    p.targetIdx <= Len(enemies) /\ enemies[p.targetIdx].id = p.targetId

Init ==
    /\ prev = FreshWorld(UnsetGold)
    /\ next = FreshWorld(StartingGold)
    /\ phase = "warmup"
    /\ cursor = 1 /\ target = 1 /\ splash = {}
    /\ commands = <<>> /\ events = <<>>
    /\ income = 0

-----------------------------------------------------------------------------
(* Between time steps: the menus fill the command queue, the loop steps.   *)

IssueCommand ==
    /\ phase = "idle"
    /\ Len(commands) < MaxCommands
    /\ \E c \in Command :
         /\ c.kind = "gold" => income + c.amount <= MaxIncome
         /\ commands' = Append(commands, c)
    /\ UNCHANGED <<prev, next, phase, cursor, target, splash, events, income>>

(* Seeded fault: the buffers are not swapped. *)
BeginTimeStep_NoSwap ==
    /\ phase \in {"warmup", "idle"}
    /\ next.nextObjectId < MaxObjectId
    /\ next' = Recycled(prev)
    /\ phase' = "enemies" /\ cursor' = 1
    /\ UNCHANGED <<prev, target, splash, commands, events, income>>

BeginTimeStep ==
    /\ phase \in {"warmup", "idle"}
    /\ next.nextObjectId < MaxObjectId
    /\ prev' = next
    /\ next' = Recycled(next)
    /\ phase' = "enemies" /\ cursor' = 1
    /\ UNCHANGED <<target, splash, commands, events, income>>

Quit ==
    /\ phase = "idle"
    /\ phase' = "quit"
    /\ UNCHANGED <<prev, next, cursor, target, splash, commands, events, income>>

-----------------------------------------------------------------------------
(* The enemy loop.                                                         *)

RemoveEnemy ==
    /\ phase = "enemies" /\ cursor <= Len(prev.enemies)
    /\ Leaves(prev.enemies[cursor])
    /\ cursor' = cursor + 1
    /\ UNCHANGED <<prev, next, phase, target, splash, commands, events, income>>

(* Seeded faults: one waypoint too many; survivors inserted at the front.  *)
HasNextWaypoint_OffByOne(e) == e.waypoint <= LastWaypoint
WithEnemy_InFront(enemies, e) == <<e>> \o enemies

HasNextWaypoint(e) == e.waypoint < LastWaypoint
WithEnemy(enemies, e) == Append(enemies, e)

(* The flocking rules divide by distances that may be zero: any step may   *)
(* turn a position into not-a-number, and none turns it back.  Distances   *)
(* to such a position compare false, so its waypoint stays as it is.       *)
MoveEnemy ==
    /\ phase = "enemies" /\ cursor <= Len(prev.enemies)
    /\ LET e == prev.enemies[cursor] IN
         /\ ~Leaves(e)
         /\ \E pos \in Positions, nearWaypoint \in BOOLEAN :
              /\ e.pos = "nan" => pos = "nan" /\ ~nearWaypoint
              /\ nearWaypoint => HasNextWaypoint(e)
              /\ next' = [next EXCEPT !.enemies = WithEnemy(@,
                   [e EXCEPT !.pos = pos,
                             !.waypoint = IF nearWaypoint THEN @ + 1 ELSE @])]
    /\ cursor' = cursor + 1
    /\ UNCHANGED <<prev, phase, target, splash, commands, events, income>>

(* Seeded fault: the loop stops one enemy short. *)
EnemiesDone_Early ==
    /\ phase = "enemies" /\ cursor >= Len(prev.enemies)
    /\ phase' = "towers" /\ cursor' = 1
    /\ UNCHANGED <<prev, next, target, splash, commands, events, income>>

EnemiesDone ==
    /\ phase = "enemies" /\ cursor > Len(prev.enemies)
    /\ phase' = "towers" /\ cursor' = 1
    /\ UNCHANGED <<prev, next, target, splash, commands, events, income>>

-----------------------------------------------------------------------------
(* The tower loop, and the firing loop inside it.                          *)

(* Seeded fault: the tower is copied only after the early "continue". *)
SkipTower_DropsTower ==
    /\ phase = "towers" /\ cursor <= Len(prev.towers)
    /\ cursor' = cursor + 1
    /\ UNCHANGED <<prev, next, phase, target, splash, commands, events, income>>

SkipTower ==        \* no enemy within range
    /\ phase = "towers" /\ cursor <= Len(prev.towers)
    /\ next' = [next EXCEPT !.towers = Append(@, prev.towers[cursor])]
    /\ cursor' = cursor + 1
    /\ UNCHANGED <<prev, phase, target, splash, commands, events, income>>

AimTower ==         \* at the enemy within range that is closest to the goal
    /\ phase = "towers" /\ cursor <= Len(prev.towers)
    /\ target' \in Targetable(next.enemies)
    /\ next' = [next EXCEPT !.towers =
                  Append(@, [prev.towers[cursor] EXCEPT !.sinceShot = @ + FixedDelta])]
    /\ phase' = "firing"
    /\ UNCHANGED <<prev, cursor, splash, commands, events, income>>

FireShot ==
    /\ phase = "firing"
    /\ LET tower == next.towers[cursor] IN
         /\ tower.sinceShot > ShotInterval[tower.type]
         /\ next' = [next EXCEPT
              !.towers = [@ EXCEPT ![cursor] =
                            [tower EXCEPT !.sinceShot = @ - ShotInterval[tower.type]]],
              !.projectiles = Append(@, [id |-> next.nextObjectId, type |-> tower.type,
                                         targetIdx |-> target,
                                         targetId |-> next.enemies[target].id]),
              !.nextObjectId = @ + 1]
    /\ events' = Append(events, "ProjectileLaunched")
    /\ UNCHANGED <<prev, phase, cursor, target, splash, commands, income>>

HoldFire ==
    /\ phase = "firing"
    /\ LET tower == next.towers[cursor] IN tower.sinceShot <= ShotInterval[tower.type]
    /\ phase' = "towers" /\ cursor' = cursor + 1 /\ target' = 1
    /\ UNCHANGED <<prev, next, splash, commands, events, income>>

TowersDone ==
    /\ phase = "towers" /\ cursor > Len(prev.towers)
    /\ phase' = "projectiles" /\ cursor' = 1
    /\ UNCHANGED <<prev, next, target, splash, commands, events, income>>

-----------------------------------------------------------------------------
(* The projectile loop, and the splash loop inside it.                     *)

(* Seeded fault: the index is not advanced on this path. *)
DropProjectile_Stuck ==
    /\ phase = "projectiles" /\ cursor <= Len(prev.projectiles)
    /\ Len(next.enemies) < prev.projectiles[cursor].targetIdx
    /\ UNCHANGED vars

DropProjectile ==   \* the index it aims at is past the end of the list
    /\ phase = "projectiles" /\ cursor <= Len(prev.projectiles)
    /\ Len(next.enemies) < prev.projectiles[cursor].targetIdx
    /\ cursor' = cursor + 1
    /\ UNCHANGED <<prev, next, phase, target, splash, commands, events, income>>

(* Seeded fault: projectiles in flight are inserted at the front. *)
FlyProjectile_InFront ==
    /\ phase = "projectiles" /\ cursor <= Len(prev.projectiles)
    /\ LET p == prev.projectiles[cursor] IN
         /\ p.targetIdx <= Len(next.enemies)
         /\ TargetAlive(next.enemies, p) => next.enemies[p.targetIdx].pos # "nan"
         /\ next' = [next EXCEPT !.projectiles = <<p>> \o @]
    /\ cursor' = cursor + 1
    /\ UNCHANGED <<prev, phase, target, splash, commands, events, income>>

FlyProjectile ==    \* farther from its target than one step
    /\ phase = "projectiles" /\ cursor <= Len(prev.projectiles)
    /\ LET p == prev.projectiles[cursor] IN
         /\ p.targetIdx <= Len(next.enemies)
         /\ TargetAlive(next.enemies, p) => next.enemies[p.targetIdx].pos # "nan"
         /\ next' = [next EXCEPT !.projectiles = Append(@, p)]
    /\ cursor' = cursor + 1
    /\ UNCHANGED <<prev, phase, target, splash, commands, events, income>>

(* applyDamageToEnemy.  Seeded faults: death by exact damage is missed;    *)
(* health is not clamped; a second death of a corpse is not announced.     *)
Dies_Strict(enemy, damage) == enemy.health < damage
Dies(enemy, damage) == enemy.health <= damage

Wounded_Unclamped(enemy, damage) ==
    [enemy EXCEPT !.health = @ - damage,
                  !.bounties = IF Dies(enemy, damage) THEN @ + 1 ELSE @]
Wounded(enemy, damage) ==
    IF Dies(enemy, damage)
    THEN [enemy EXCEPT !.health = 0, !.bounties = @ + 1]
    ELSE [enemy EXCEPT !.health = @ - damage]

HitEvents_OncePerCorpse(enemy, damage) ==
    IF Dies(enemy, damage) /\ enemy.health > 0
    THEN <<"ProjectileHit", "EnemyDied">> ELSE <<"ProjectileHit">>
HitEvents(enemy, damage) ==
    IF Dies(enemy, damage) THEN <<"ProjectileHit", "EnemyDied">> ELSE <<"ProjectileHit">>

(* Seeded fault: the reward is announced but not paid out. *)
ApplyDamage_Unpaid(i, damage) ==
    LET enemy == next.enemies[i] IN
    /\ next' = [next EXCEPT !.enemies = [@ EXCEPT ![i] = Wounded(enemy, damage)]]
    /\ events' = events \o HitEvents(enemy, damage)
    /\ UNCHANGED income

ApplyDamage(i, damage) ==
    LET enemy == next.enemies[i]
        reward == IF Dies(enemy, damage) THEN GoldReward[enemy.type] ELSE 0
    IN  /\ next' = [next EXCEPT !.enemies = [@ EXCEPT ![i] = Wounded(enemy, damage)],
                                !.gold = @ + reward]
        /\ events' = events \o HitEvents(enemy, damage)
        /\ income' = income + reward

(* A live target is hit first; the splash is then collected around the     *)
(* place of impact, where a target that survived the hit still stands.     *)
HitProjectile ==
    /\ phase = "projectiles" /\ cursor <= Len(prev.projectiles)
    /\ LET p == prev.projectiles[cursor]
           alive == TargetAlive(next.enemies, p)
       IN  /\ p.targetIdx <= Len(next.enemies)
           /\ IF alive
              THEN ApplyDamage(p.targetIdx, Damage[p.type])
              ELSE UNCHANGED <<next, events, income>>
           /\ splash' \in SUBSET Targetable(next'.enemies)
           /\ p.type \notin Splashing => splash' = {}
           /\ p.type \in Splashing /\ alive =>
                IF next.enemies[p.targetIdx].pos = "nan"
                THEN splash' = {}
                ELSE p.targetIdx \in Targetable(next'.enemies) => p.targetIdx \in splash'
    /\ phase' = "splash"
    /\ UNCHANGED <<prev, cursor, target, commands>>

SplashEnemy ==
    /\ phase = "splash"
    /\ \E i \in splash :
         /\ \A j \in splash : i <= j
         /\ ApplyDamage(i, Damage[prev.projectiles[cursor].type])
         /\ splash' = splash \ {i}
    /\ UNCHANGED <<prev, phase, cursor, target, commands>>

ProjectileSpent ==
    /\ phase = "splash" /\ splash = {}
    /\ phase' = "projectiles" /\ cursor' = cursor + 1
    /\ UNCHANGED <<prev, next, target, splash, commands, events, income>>

ProjectilesDone ==
    /\ phase = "projectiles" /\ cursor > Len(prev.projectiles)
    /\ phase' = "commands" /\ cursor' = 1
    /\ UNCHANGED <<prev, next, target, splash, commands, events, income>>

-----------------------------------------------------------------------------
(* The command loop.                                                       *)

NextCommand(kind) ==
    /\ phase = "commands" /\ cursor <= Len(commands)
    /\ commands[cursor].kind = kind
    /\ cursor' = cursor + 1
    /\ UNCHANGED <<prev, phase, target, splash, commands, events>>

(* Seeded fault: the id is not used up. *)
ExecSpawn_ReusesId ==
    /\ NextCommand("spawn")
    /\ next' = [next EXCEPT
         !.enemies = Append(@, NewEnemy(next.nextObjectId, commands[cursor].type))]
    /\ UNCHANGED income

ExecSpawn ==
    /\ NextCommand("spawn")
    /\ next' = [next EXCEPT
         !.enemies = Append(@, NewEnemy(next.nextObjectId, commands[cursor].type)),
         !.nextObjectId = @ + 1]
    /\ UNCHANGED income

ExecDespawn ==
    /\ NextCommand("despawn")
    /\ next' = [next EXCEPT !.enemies = <<>>]
    /\ UNCHANGED income

ExecAddGold ==
    /\ NextCommand("gold")
    /\ next' = [next EXCEPT !.gold = @ + commands[cursor].amount]
    /\ income' = income + commands[cursor].amount

ExecBuild ==
    /\ NextCommand("build")
    /\ LET c == commands[cursor] IN
         /\ next.gold >= Cost[c.type]
         /\ next' = [next EXCEPT
              !.gold = @ - Cost[c.type],
              !.towers = Append(@, NewTower(next.nextObjectId, c.type, c.tile)),
              !.nextObjectId = @ + 1]
    /\ UNCHANGED income

RejectBuild ==
    /\ NextCommand("build")
    /\ next.gold < Cost[commands[cursor].type]
    /\ UNCHANGED <<next, income>>

EndTimeStep ==      \* the caller then empties both queues
    /\ phase = "commands" /\ cursor > Len(commands)
    /\ phase' = "idle" /\ cursor' = 1
    /\ commands' = <<>> /\ events' = <<>>
    /\ UNCHANGED <<prev, next, target, splash, income>>

-----------------------------------------------------------------------------

EnemyLoop == RemoveEnemy \/ MoveEnemy \/ EnemiesDone
TowerLoop == SkipTower \/ AimTower \/ FireShot \/ HoldFire \/ TowersDone
ProjectileLoop ==
    DropProjectile \/ FlyProjectile \/ HitProjectile \/ SplashEnemy
      \/ ProjectileSpent \/ ProjectilesDone
CommandLoop ==
    ExecSpawn \/ ExecDespawn \/ ExecAddGold \/ ExecBuild \/ RejectBuild \/ EndTimeStep

InTimeStep == EnemyLoop \/ TowerLoop \/ ProjectileLoop \/ CommandLoop

Finished == phase = "quit" /\ UNCHANGED vars

Next == IssueCommand \/ BeginTimeStep \/ Quit \/ InTimeStep \/ Finished

(* A time step that has begun is ordinary sequential code: it runs on.     *)
Spec == Init /\ [][Next]_vars
FairSpec == Spec /\ WF_vars(InTimeStep) /\ WF_vars(phase = "warmup" /\ BeginTimeStep)

-----------------------------------------------------------------------------
(* Properties.                                                             *)

Afterwards == {"projectiles", "splash", "commands", "idle", "quit"}
    \* the phases in which every tower has been copied
Settled == Afterwards \cup {"towers", "firing"}
    \* the phases in which every enemy has been moved or dropped

(* Every variable stays within its type, and every index the loops use     *)
(* unchecked - the tower being fired, its target, the projectile whose     *)
(* splash is spread and its victims - is in bounds.                        *)
IndicesOK ==
    /\ phase = "enemies" => next.towers = <<>>
    /\ phase = "towers" => cursor = Len(next.towers) + 1
    /\ phase = "firing" =>
         cursor = Len(next.towers) /\ cursor <= Len(prev.towers) /\ target <= Len(next.enemies)
    /\ phase = "splash" => cursor <= Len(prev.projectiles)
    /\ phase # "splash" => splash = {}
    /\ splash \subseteq 1..Len(next.enemies)

TypeOK ==
    /\ prev \in World /\ next \in World
    /\ phase \in {"warmup", "enemies", "towers", "firing", "projectiles",
                  "splash", "commands", "idle", "quit"}
    /\ cursor \in Nat \ {0} /\ target \in Nat \ {0}
    /\ commands \in Seq(Command)
    /\ events \in Seq(EventKinds)
    /\ income \in Nat
    /\ IndicesOK

(* The code indexes enemyPath.waypoints with nextWaypointIdx - 1 and       *)
(* nextWaypointIdx without a check: both stay inside the path.             *)
WaypointInBounds ==
    \A i \in 1..Len(next.enemies) : next.enemies[i].waypoint \in 1..LastWaypoint

(* nextObjectId is never reused: in each list of each buffer ids are       *)
(* distinct and below the counter, so an id names one object for good,     *)
(* and enemies and towers stay in the order in which they were created.    *)
Increasing(list) ==
    \A i, j \in 1..Len(list) : i < j => list[i].id < list[j].id

FreshIds(world) ==
    /\ Increasing(world.enemies) /\ Increasing(world.towers)
    /\ \A i \in 1..Len(world.enemies) : world.enemies[i].id < world.nextObjectId
    /\ \A i \in 1..Len(world.towers) : world.towers[i].id < world.nextObjectId
    /\ \A i \in 1..Len(world.projectiles) :
         /\ world.projectiles[i].id < world.nextObjectId
         /\ world.projectiles[i].targetId < world.projectiles[i].id
    /\ \A i \in 1..Len(world.enemies), j \in 1..Len(world.towers) :
         world.enemies[i].id # world.towers[j].id

ObjectIdsFresh ==
    /\ FreshIds(prev) /\ FreshIds(next)
    /\ prev.nextObjectId <= next.nextObjectId

(* A projectile remembers its target by index and by id, and removing an   *)
(* enemy shifts the ones behind it: the index may grow stale, but only     *)
(* past the target, never in front of it.                                  *)
NotBehind(list, p) ==
    \A i \in 1..Len(list) : list[i].id = p.targetId => i <= p.targetIdx

StaleIndexNeverAhead ==
    /\ \A k \in 1..Len(next.projectiles) : NotBehind(next.enemies, next.projectiles[k])
    /\ phase \in {"projectiles", "splash"} =>
         \A k \in cursor..Len(prev.projectiles) : NotBehind(next.enemies, prev.projectiles[k])

(* A projectile that has lost its target never finds it again: when the    *)
(* projectile loop takes a target for alive, it was in place before the    *)
(* step too.                                                               *)
LostForGood ==
    phase \in {"projectiles", "splash"} =>
      \A k \in cursor..Len(prev.projectiles) :
        TargetAlive(next.enemies, prev.projectiles[k])
          => TargetAlive(prev.enemies, prev.projectiles[k])

(* Together: no projectile takes another enemy for its target, and none    *)
(* loses a target that is still there by looking in front of it.           *)
TargetsNeverConfused == StaleIndexNeverAhead /\ LostForGood

(* The player is paid for an enemy when, and only when, its health reached *)
(* zero, whichever of direct hit and splash finished it.                   *)
DeadIffPaid ==
    \A i \in 1..Len(next.enemies) :
      next.enemies[i].health = 0 <=> next.enemies[i].bounties > 0

(* The dead are swept before anything can shoot again: a corpse is only    *)
(* ever hit, and paid for, by projectiles of the step in which it died.    *)
CorpsesSwept ==
    phase \in {"towers", "firing"} =>
      \A i \in 1..Len(next.enemies) : next.enemies[i].health > 0

(* The double buffer loses nobody: until the commands run, the next state  *)
(* holds exactly the enemies that were neither dead nor at the goal, each  *)
(* no healthier, at most one waypoint farther, and not-a-number positions  *)
(* stay so.                                                                *)
Continues(f, e) ==
    /\ f.type = e.type
    /\ f.health <= e.health
    /\ f.waypoint \in {e.waypoint, e.waypoint + 1}
    /\ e.pos = "nan" => f.pos = "nan"

NobodyVanishes ==
    phase \in {"towers", "firing", "projectiles", "splash"} =>
      /\ \A i \in 1..Len(prev.enemies) :
           Leaves(prev.enemies[i]) <=>
             ~\E j \in 1..Len(next.enemies) : next.enemies[j].id = prev.enemies[i].id
      /\ \A j \in 1..Len(next.enemies) :
           \E i \in 1..Len(prev.enemies) :
             /\ next.enemies[j].id = prev.enemies[i].id
             /\ Continues(next.enemies[j], prev.enemies[i])

(* Towers are never lost, moved or reordered by the copy, and one that is  *)
(* not firing has no shot left over.                                       *)
SameTower(t, u) == t.id = u.id /\ t.type = u.type /\ t.tile = u.tile

TowersKept ==
    /\ phase \in Afterwards => Len(next.towers) >= Len(prev.towers)
    /\ phase # "warmup" =>
         \A i \in 1..Len(next.towers) :
           i <= Len(prev.towers) => SameTower(next.towers[i], prev.towers[i])
    /\ \A i \in 1..Len(next.towers) :
         ~(phase = "firing" /\ i = cursor)
           => next.towers[i].sinceShot <= ShotInterval[next.towers[i].type]

(* Gold is neither made nor lost by the buffers: what the player has is    *)
(* the starting gold and all that was credited, less the price of every    *)
(* tower on the map.  In particular the uninitialised gold of the first    *)
(* buffer is never read, and the player never owes.                        *)
Price(towers) == Total([i \in 1..Len(towers) |-> Cost[towers[i].type]])

GoldLedger ==
    /\ next.gold = StartingGold + income
         - Price(IF phase \in Afterwards THEN next.towers ELSE prev.towers)
    /\ next.gold >= 0

(* The event queue tells the caller what the step did: one launch event    *)
(* per new projectile and one death (one scream) per bounty, corpses hit   *)
(* twice included; nothing of an earlier step is left in it.               *)
Told(kind) == Cardinality({i \in 1..Len(events) : events[i] = kind})

Bounties(enemies) == Total([i \in 1..Len(enemies) |-> enemies[i].bounties])

EventsTellTheStep ==
    phase \in {"projectiles", "splash"} =>
      /\ Told("ProjectileLaunched") = next.nextObjectId - prev.nextObjectId
      /\ Told("EnemyDied") = Bounties(next.enemies)

(* Whatever index a projectile carries, its direct hit changes no enemy    *)
(* but the one it was launched at.                                         *)
DirectHitsStrikeTarget ==
    [][phase = "projectiles" =>
         \A i \in 1..Len(next.enemies) :
           next'.enemies[i] # next.enemies[i]
             => next.enemies[i].id = prev.projectiles[cursor].targetId]_vars

(* A time step, once begun, returns: none of its loops can run forever.    *)
StepTerminates == phase \notin {"idle", "quit"} ~> phase = "idle"

=============================================================================
