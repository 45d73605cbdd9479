-------------------------- MODULE GameStateProofs --------------------------
(***************************************************************************)
(* Machine-checked facts about GameState, for every map, every set of      *)
(* types and every bound, in five parts.                                   *)
(*   Types: indices are in bounds, and the dead are paid for.              *)
(*   Identity: ids are never reused, enemies that leave shift the others   *)
(*   but never reorder them, and so a projectile never takes another enemy *)
(*   for its target; nobody is lost between the two buffers.               *)
(*   The ledger: every coin is accounted for, and the events of a step     *)
(*   tell what it did.                                                     *)
(*   Implementation: the two buffers, the loops and the stale indices of a *)
(*   time step never show in the world they describe, a Battlefield.       *)
(*   View: of the two buffers the player sees the enemies and towers that  *)
(*   are in both; a projectile launched in a step hides the others.        *)
(***************************************************************************)
EXTENDS GameStateRefinement, GameStateView, ListProofs

(* The fields of a world, and the elements of its lists, have their types. *)
LEMMA WorldFields ==
  ASSUME NEW w \in World
  PROVE  /\ w.gold \in Int /\ w.nextObjectId \in Nat
         /\ w.enemies \in Seq(Enemy) /\ w.towers \in Seq(Tower)
         /\ w.projectiles \in Seq(Projectile)
         /\ Len(w.enemies) \in Nat /\ Len(w.towers) \in Nat /\ Len(w.projectiles) \in Nat
         /\ \A i \in 1..Len(w.enemies) : w.enemies[i] \in Enemy
         /\ \A i \in 1..Len(w.towers) : w.towers[i] \in Tower
         /\ \A i \in 1..Len(w.projectiles) : w.projectiles[i] \in Projectile
<1>1. /\ w.gold \in Int /\ w.nextObjectId \in Nat
      /\ w.enemies \in Seq(Enemy) /\ w.towers \in Seq(Tower)
      /\ w.projectiles \in Seq(Projectile)
  BY DEF World
<1> QED BY <1>1, ElementOfSeq, LenProperties

(* A wounded enemy is an enemy: health is clamped at zero.                 *)
LEMMA WoundedTypes ==
  ASSUME NEW enemy \in Enemy, NEW damage \in Nat
  PROVE  /\ Wounded(enemy, damage) \in Enemy
         /\ Wounded(enemy, damage).id = enemy.id
         /\ Wounded(enemy, damage).pos = enemy.pos
<1>1. enemy.bounties + 1 \in Nat
  BY DEF Enemy
<1>2. CASE Dies(enemy, damage)
  BY <1>1, <1>2 DEF Wounded, Enemy
<1>3. CASE ~Dies(enemy, damage)
  <2>1. enemy.health - damage \in Nat
    BY <1>3 DEF Dies, Enemy
  <2> QED BY <1>3, <2>1 DEF Wounded, Enemy
<1> QED BY <1>2, <1>3

(* applyDamageToEnemy keeps the world, the events and the ledger typed,    *)
(* and the list of enemies as long as it was.                              *)
LEMMA DamageTypes ==
  ASSUME TypeOK, NEW type \in TowerTypes, NEW i \in 1..Len(next.enemies),
         ApplyDamage(i, Damage[type])
  PROVE  /\ next' \in World
         /\ next'.enemies = [next.enemies EXCEPT ![i] = Wounded(next.enemies[i], Damage[type])]
         /\ Len(next'.enemies) = Len(next.enemies)
         /\ events' \in Seq(EventKinds)
         /\ income' \in Nat
<1> DEFINE enemy == next.enemies[i]
           hurt == Wounded(enemy, Damage[type])
           reward == IF Dies(enemy, Damage[type]) THEN GoldReward[enemy.type] ELSE 0
<1>1. next \in World /\ enemy \in Enemy /\ Damage[type] \in Nat /\ income \in Nat
  BY WorldFields, MapAssumption DEF TypeOK
<1>2. hurt \in Enemy
  BY <1>1, WoundedTypes
<1>3. reward \in Nat
  BY <1>1, MapAssumption DEF Enemy
<1>4. [next.enemies EXCEPT ![i] = hurt] \in Seq(Enemy)
      /\ Len([next.enemies EXCEPT ![i] = hurt]) = Len(next.enemies)
  BY <1>1, <1>2, WorldFields, ExceptSeq
<1>5. next.gold + reward \in Int /\ income + reward \in Nat
  BY <1>1, <1>3, WorldFields
<1>6. next' = [next EXCEPT !.enemies = [next.enemies EXCEPT ![i] = hurt],
                           !.gold = next.gold + reward]
      /\ income' = income + reward
  BY DEF ApplyDamage
<1>7. next' \in World /\ next'.enemies = [next.enemies EXCEPT ![i] = hurt]
  <2> HIDE DEF hurt, reward
  <2> QED BY <1>1, <1>4, <1>5, <1>6 DEF World
<1>8. events' \in Seq(EventKinds)
  <2>1. /\ <<"ProjectileHit", "EnemyDied">> \in Seq(EventKinds)
        /\ <<"ProjectileHit">> \in Seq(EventKinds)
    BY DEF EventKinds
  <2> QED BY <2>1, ConcatProperties DEF ApplyDamage, HitEvents, TypeOK
<1> QED BY <1>4, <1>5, <1>6, <1>7, <1>8

(* Every variable stays within its type and the unchecked indices of the   *)
(* tower and splash loops stay in bounds (GameState::TimeStep).            *)
THEOREM TypeCorrect == Spec => []TypeOK
<1> USE MapAssumption
<1>1. Init => TypeOK
  BY DEF Init, TypeOK, IndicesOK, FreshWorld, World
<1>2. ASSUME TypeOK, [Next]_vars PROVE TypeOK'
  <2> USE <1>2 DEF TypeOK, IndicesOK
  <2>0. cursor <= Len(commands) => commands[cursor] \in Command
    BY ElementOfSeq, LenProperties
  <2>1. CASE IssueCommand
    BY <2>1, AppendProperties DEF IssueCommand
  <2>2. CASE BeginTimeStep
    BY <2>2 DEF BeginTimeStep, Recycled, World
  <2>3. CASE Quit
    BY <2>3 DEF Quit
  <2>4. CASE RemoveEnemy
    BY <2>4 DEF RemoveEnemy
  <2>5. CASE MoveEnemy
    <3>1. PICK e \in Enemy : next' = [next EXCEPT !.enemies = Append(@, e)]
      <4> DEFINE old == prev.enemies[cursor]
      <4>1. cursor \in 1..Len(prev.enemies)
        BY <2>5, WorldFields DEF MoveEnemy
      <4>2. old \in Enemy
        BY <4>1, WorldFields
      <4>3. PICK pos \in Positions, nearWaypoint \in BOOLEAN :
              next' = [next EXCEPT !.enemies = Append(@,
                        [old EXCEPT !.pos = pos,
                                    !.waypoint = IF nearWaypoint THEN @ + 1 ELSE @])]
        BY <2>5 DEF MoveEnemy, WithEnemy
      <4>4. [old EXCEPT !.pos = pos,
                        !.waypoint = IF nearWaypoint THEN @ + 1 ELSE @] \in Enemy
        <5>1. old.waypoint + 1 \in Nat
          BY <4>2 DEF Enemy
        <5> QED BY <4>2, <5>1 DEF Enemy
      <4> QED BY <4>3, <4>4
    <3>2. Append(next.enemies, e) \in Seq(Enemy)
          /\ Len(Append(next.enemies, e)) = Len(next.enemies) + 1
      BY WorldFields, AppendProperties
    <3>3. next' \in World /\ next'.towers = next.towers
      BY <3>1, <3>2 DEF World
    <3>4. /\ phase = "enemies" /\ cursor' = cursor + 1
          /\ UNCHANGED <<prev, phase, target, splash, commands, events, income>>
      BY <2>5 DEF MoveEnemy
    <3>5. next'.enemies = Append(next.enemies, e)
      BY <3>1 DEF World
    <3> QED BY <3>2, <3>3, <3>4, <3>5, WorldFields
  <2>6. CASE EnemiesDone
    BY <2>6 DEF EnemiesDone
  <2>7. CASE SkipTower
    <3>0. prev.towers[cursor] \in Tower
      <4>1. cursor \in 1..Len(prev.towers)
        BY <2>7, WorldFields DEF SkipTower
      <4> QED BY <4>1, WorldFields
    <3>1. Append(next.towers, prev.towers[cursor]) \in Seq(Tower)
          /\ Len(Append(next.towers, prev.towers[cursor])) = Len(next.towers) + 1
      BY <3>0, WorldFields, AppendProperties
    <3>2. next' \in World /\ next'.enemies = next.enemies
          /\ Len(next'.towers) = Len(next.towers) + 1
      BY <2>7, <3>1 DEF SkipTower, World
    <3>3. /\ phase = "towers" /\ cursor' = cursor + 1
          /\ UNCHANGED <<prev, phase, target, splash, commands, events, income>>
      BY <2>7 DEF SkipTower
    <3> QED BY <3>2, <3>3
  <2>8. CASE AimTower
    <3> DEFINE tower == [prev.towers[cursor] EXCEPT !.sinceShot = @ + FixedDelta]
    <3>1. prev.towers[cursor] \in Tower
      BY <2>8, WorldFields DEF AimTower
    <3>2. prev.towers[cursor].sinceShot + FixedDelta \in Nat
      BY <3>1, MapAssumption DEF Tower
    <3>3. tower \in Tower
      BY <3>1, <3>2 DEF Tower
    <3>4. Append(next.towers, tower) \in Seq(Tower)
          /\ Len(Append(next.towers, tower)) = Len(next.towers) + 1
      BY <3>3, WorldFields, AppendProperties
    <3>5. next' \in World /\ next'.enemies = next.enemies
          /\ Len(next'.towers) = Len(next.towers) + 1
      BY <2>8, <3>4 DEF AimTower, World
    <3>6. target' \in Nat \ {0} /\ target' <= Len(next'.enemies)
      BY <2>8, <3>5 DEF AimTower, Targetable
    <3>7. /\ phase = "towers" /\ phase' = "firing" /\ cursor <= Len(prev.towers)
          /\ UNCHANGED <<prev, cursor, splash, commands, events, income>>
      BY <2>8 DEF AimTower
    <3> QED BY <3>5, <3>6, <3>7
  <2>9. CASE FireShot
    <3> DEFINE tower == next.towers[cursor]
               cooler == [tower EXCEPT !.sinceShot = @ - ShotInterval[tower.type]]
               shot == [id |-> next.nextObjectId, type |-> tower.type,
                        targetIdx |-> target, targetId |-> next.enemies[target].id]
    <3>0. cursor \in 1..Len(next.towers) /\ target \in 1..Len(next.enemies)
      <4>1. phase = "firing"
        BY <2>9 DEF FireShot
      <4>2. cursor = Len(next.towers) /\ target <= Len(next.enemies)
        BY <4>1
      <4> QED BY <4>2, WorldFields
    <3>1. tower \in Tower /\ next.enemies[target] \in Enemy
      BY <3>0, WorldFields
    <3>2. tower.sinceShot - ShotInterval[tower.type] \in Nat
      <4>1. tower.sinceShot \in Nat /\ ShotInterval[tower.type] \in Nat
        BY <3>1, MapAssumption DEF Tower
      <4>2. tower.sinceShot > ShotInterval[tower.type]
        BY <2>9 DEF FireShot
      <4> HIDE DEF tower
      <4> QED BY <4>1, <4>2
    <3>3. cooler \in Tower
      BY <3>1, <3>2 DEF Tower
    <3>4. shot \in Projectile
      BY <3>1, WorldFields DEF Projectile, Tower, Enemy
    <3>5. [next.towers EXCEPT ![cursor] = cooler] \in Seq(Tower)
          /\ Len([next.towers EXCEPT ![cursor] = cooler]) = Len(next.towers)
      BY <3>0, <3>3, WorldFields, ExceptSeq
    <3>6. Append(next.projectiles, shot) \in Seq(Projectile)
      BY <3>4, WorldFields, AppendProperties
    <3>7. next' = [next EXCEPT !.towers = [@ EXCEPT ![cursor] = cooler],
                               !.projectiles = Append(@, shot),
                               !.nextObjectId = @ + 1]
      BY <2>9 DEF FireShot
    <3>8. next.nextObjectId + 1 \in Nat
      BY WorldFields
    <3>9. next' \in World /\ next'.enemies = next.enemies
          /\ Len(next'.towers) = Len(next.towers)
      <4> HIDE DEF cooler, shot
      <4> QED BY <3>5, <3>6, <3>7, <3>8 DEF World
    <3>10. events' \in Seq(EventKinds)
      BY <2>9, AppendProperties DEF FireShot, EventKinds
    <3>11. phase = "firing" /\ UNCHANGED <<prev, phase, cursor, target, splash, commands, income>>
      BY <2>9 DEF FireShot
    <3> QED BY <3>9, <3>10, <3>11
  <2>10. CASE HoldFire
    BY <2>10 DEF HoldFire
  <2>11. CASE TowersDone
    BY <2>11 DEF TowersDone
  <2>12. CASE DropProjectile
    BY <2>12 DEF DropProjectile
  <2>13. CASE FlyProjectile
    <3>0. prev.projectiles[cursor] \in Projectile
      <4>1. cursor \in 1..Len(prev.projectiles)
        BY <2>13, WorldFields DEF FlyProjectile
      <4> QED BY <4>1, WorldFields
    <3>1. Append(next.projectiles, prev.projectiles[cursor]) \in Seq(Projectile)
      BY <3>0, WorldFields, AppendProperties
    <3>2. next' \in World /\ next'.enemies = next.enemies
      BY <2>13, <3>1 DEF FlyProjectile, World
    <3>3. /\ phase = "projectiles" /\ cursor' = cursor + 1
          /\ UNCHANGED <<prev, phase, target, splash, commands, events, income>>
      BY <2>13 DEF FlyProjectile
    <3> QED BY <3>2, <3>3
  <2>14. CASE HitProjectile
    <3> DEFINE p == prev.projectiles[cursor]
    <3>0. p \in Projectile
      BY <2>14, WorldFields DEF HitProjectile
    <3>1. p.targetIdx \in 1..Len(next.enemies) /\ p.type \in TowerTypes
      <4>1. p.targetIdx \in Nat \ {0} /\ p.type \in TowerTypes
        BY <3>0 DEF Projectile
      <4>2. p.targetIdx <= Len(next.enemies)
        BY <2>14 DEF HitProjectile
      <4> QED BY <4>1, <4>2, WorldFields
    <3>2. next' \in World /\ events' \in Seq(EventKinds) /\ income' \in Nat
      <4>1. CASE TargetAlive(next.enemies, p)
        BY <2>14, <3>1, <4>1, DamageTypes DEF HitProjectile
      <4>2. CASE ~TargetAlive(next.enemies, p)
        BY <2>14, <4>2 DEF HitProjectile
      <4> QED BY <4>1, <4>2
    <3>3. splash' \subseteq 1..Len(next'.enemies)
      BY <2>14 DEF HitProjectile, Targetable
    <3>4. /\ phase = "projectiles" /\ phase' = "splash" /\ cursor <= Len(prev.projectiles)
          /\ UNCHANGED <<prev, cursor, target, commands>>
      BY <2>14 DEF HitProjectile
    <3> QED BY <3>2, <3>3, <3>4
  <2>15. CASE SplashEnemy
    <3>0. prev.projectiles[cursor] \in Projectile
      BY <2>15, WorldFields DEF SplashEnemy
    <3>1. prev.projectiles[cursor].type \in TowerTypes
      BY <3>0 DEF Projectile
    <3>2. next' \in World /\ events' \in Seq(EventKinds) /\ income' \in Nat
          /\ Len(next'.enemies) = Len(next.enemies)
      BY <2>15, <3>1, DamageTypes DEF SplashEnemy
    <3>3. /\ phase = "splash" /\ splash' \subseteq splash
          /\ UNCHANGED <<prev, phase, cursor, target, commands>>
      BY <2>15 DEF SplashEnemy
    <3> QED BY <3>2, <3>3
  <2>16. CASE ProjectileSpent
    BY <2>16 DEF ProjectileSpent
  <2>17. CASE ProjectilesDone
    BY <2>17 DEF ProjectilesDone
  <2>18. CASE ExecSpawn
    <3>0. commands[cursor] \in Command
      BY <2>18, <2>0 DEF ExecSpawn, NextCommand
    <3> DEFINE enemy == NewEnemy(next.nextObjectId, commands[cursor].type)
    <3>1. commands[cursor].type \in EnemyTypes
      BY <2>18, <3>0 DEF ExecSpawn, NextCommand, Command
    <3>2. enemy \in Enemy
      BY <3>1, WorldFields, MapAssumption DEF NewEnemy, Enemy, Positions
    <3>3. Append(next.enemies, enemy) \in Seq(Enemy) /\ next.nextObjectId + 1 \in Nat
      BY <3>2, WorldFields, AppendProperties
    <3>4. next' \in World
      <4> HIDE DEF enemy
      <4>1. next' = [next EXCEPT !.enemies = Append(@, enemy), !.nextObjectId = @ + 1]
        BY <2>18 DEF ExecSpawn, enemy
      <4> QED BY <3>3, <4>1 DEF World
    <3>5. /\ phase = "commands" /\ cursor' = cursor + 1
          /\ UNCHANGED <<prev, phase, target, splash, commands, events, income>>
      BY <2>18 DEF ExecSpawn, NextCommand
    <3> QED BY <3>4, <3>5
  <2>19. CASE ExecDespawn
    <3>1. next' \in World
      <4>1. <<>> \in Seq(Enemy)
        BY EmptySeq
      <4> QED BY <2>19, <4>1 DEF ExecDespawn, World
    <3>2. /\ phase = "commands" /\ cursor' = cursor + 1
          /\ UNCHANGED <<prev, phase, target, splash, commands, events, income>>
      BY <2>19 DEF ExecDespawn, NextCommand
    <3> QED BY <3>1, <3>2
  <2>20. CASE ExecAddGold
    <3>0. commands[cursor] \in Command
      BY <2>20, <2>0 DEF ExecAddGold, NextCommand
    <3>1. commands[cursor].amount \in Nat
      BY <2>20, <3>0, MapAssumption DEF ExecAddGold, NextCommand, Command
    <3>2. next.gold + commands[cursor].amount \in Int /\ income + commands[cursor].amount \in Nat
      BY <3>1, WorldFields
    <3>3. next' \in World
      BY <2>20, <3>2 DEF ExecAddGold, World
    <3>4. /\ phase = "commands" /\ cursor' = cursor + 1
          /\ income' = income + commands[cursor].amount
          /\ UNCHANGED <<prev, phase, target, splash, commands, events>>
      BY <2>20 DEF ExecAddGold, NextCommand
    <3> QED BY <3>2, <3>3, <3>4
  <2>21. CASE ExecBuild
    <3>0. commands[cursor] \in Command
      BY <2>21, <2>0 DEF ExecBuild, NextCommand
    <3> DEFINE c == commands[cursor]
               tower == NewTower(next.nextObjectId, c.type, c.tile)
    <3>1. c.type \in TowerTypes /\ c.tile \in BuildableTiles
      BY <2>21, <3>0 DEF ExecBuild, NextCommand, Command
    <3>2. tower \in Tower
      BY <3>1, WorldFields DEF NewTower, Tower
    <3>3. Append(next.towers, tower) \in Seq(Tower) /\ next.nextObjectId + 1 \in Nat
          /\ next.gold - Cost[c.type] \in Int
      BY <3>1, <3>2, WorldFields, AppendProperties, MapAssumption
    <3>4. next' \in World
      <4> HIDE DEF tower
      <4>1. next' = [next EXCEPT !.gold = @ - Cost[c.type], !.towers = Append(@, tower),
                                 !.nextObjectId = @ + 1]
        BY <2>21 DEF ExecBuild, tower
      <4> QED BY <3>3, <4>1 DEF World
    <3>5. /\ phase = "commands" /\ cursor' = cursor + 1
          /\ UNCHANGED <<prev, phase, target, splash, commands, events, income>>
      BY <2>21 DEF ExecBuild, NextCommand
    <3> QED BY <3>4, <3>5
  <2>22. CASE RejectBuild
    BY <2>22 DEF RejectBuild, NextCommand
  <2>23. CASE EndTimeStep
    BY <2>23 DEF EndTimeStep
  <2>24. CASE UNCHANGED vars
    BY <2>24 DEF vars
  <2> QED
    BY <1>2, <2>1, <2>2, <2>3, <2>4, <2>5, <2>6, <2>7, <2>8, <2>9, <2>10, <2>11,
       <2>12, <2>13, <2>14, <2>15, <2>16, <2>17, <2>18, <2>19, <2>20, <2>21,
       <2>22, <2>23, <2>24
       DEF Next, InTimeStep, EnemyLoop, TowerLoop, ProjectileLoop, CommandLoop, Finished
<1> QED BY <1>1, <1>2, PTL DEF Spec

-----------------------------------------------------------------------------
(* An enemy is on the path, and was paid for if, and only if, it is dead.  *)
Sound(enemy) ==
    /\ enemy.waypoint \in 1..LastWaypoint
    /\ enemy.health = 0 <=> enemy.bounties > 0

SoundEnemies(list) == \A i \in 1..Len(list) : Sound(list[i])

(* Every way a list of enemies changes keeps it sound.                     *)
LEMMA SoundAppended ==
    ASSUME NEW list \in Seq(Enemy), NEW enemy \in Enemy, SoundEnemies(list), Sound(enemy)
    PROVE  SoundEnemies(Append(list, enemy))
<1> Len(list) \in Nat
  BY LenProperties
<1> QED BY AppendProperties DEF SoundEnemies

LEMMA SoundWounded ==
    ASSUME NEW enemy \in Enemy, NEW damage \in Nat, Sound(enemy)
    PROVE  Sound(Wounded(enemy, damage))
<1>1. enemy.bounties \in Nat /\ enemy.health \in Nat
  BY DEF Enemy
<1>2. CASE Dies(enemy, damage)
  <2>1. /\ Wounded(enemy, damage).waypoint = enemy.waypoint
        /\ Wounded(enemy, damage).health = 0
        /\ Wounded(enemy, damage).bounties = enemy.bounties + 1
    BY <1>2 DEF Wounded, Enemy
  <2> QED BY <1>1, <2>1 DEF Sound
<1>3. CASE ~Dies(enemy, damage)
  <2>1. /\ Wounded(enemy, damage).waypoint = enemy.waypoint
        /\ Wounded(enemy, damage).health = enemy.health - damage
        /\ Wounded(enemy, damage).bounties = enemy.bounties
    BY <1>3 DEF Wounded, Enemy
  <2> QED BY <1>1, <1>3, <2>1 DEF Sound, Dies
<1> QED BY <1>2, <1>3

LEMMA SoundDamaged ==
    ASSUME TypeOK, SoundEnemies(next.enemies),
           NEW type \in TowerTypes, NEW i \in 1..Len(next.enemies),
           ApplyDamage(i, Damage[type])
    PROVE  SoundEnemies(next'.enemies)
<1>1. next.enemies \in Seq(Enemy) /\ next.enemies[i] \in Enemy /\ Damage[type] \in Nat
  BY WorldFields, MapAssumption DEF TypeOK
<1>2. Sound(Wounded(next.enemies[i], Damage[type]))
  BY <1>1, SoundWounded DEF SoundEnemies
<1>3. next'.enemies = [next.enemies EXCEPT ![i] = Wounded(next.enemies[i], Damage[type])]
      /\ Len(next'.enemies) = Len(next.enemies)
  BY DamageTypes
<1>4. \A j \in 1..Len(next.enemies) :
        next'.enemies[j] = IF j = i THEN Wounded(next.enemies[i], Damage[type])
                                    ELSE next.enemies[j]
  BY <1>1, <1>3
<1> QED BY <1>2, <1>3, <1>4 DEF SoundEnemies

(* The enemies of both buffers are sound, and until the projectiles fly    *)
(* nobody in the new one is dead.                                          *)
AliveSoFar ==
    phase \in {"enemies", "towers", "firing"} =>
      \A i \in 1..Len(next.enemies) : next.enemies[i].health > 0

EnemiesInv == SoundEnemies(prev.enemies) /\ SoundEnemies(next.enemies) /\ AliveSoFar

LEMMA EnemiesInvariant == Spec => []EnemiesInv
<1>1. Init => EnemiesInv
  <2>1. Len(<<>>) = 0
    BY EmptySeq
  <2> QED BY <2>1 DEF Init, FreshWorld, EnemiesInv, SoundEnemies, AliveSoFar
<1>2. ASSUME TypeOK, EnemiesInv, [Next]_vars PROVE EnemiesInv'
  <2> USE <1>2 DEF EnemiesInv
  <2>0. Len(<<>>) = 0 /\ prev \in World /\ next \in World
    BY EmptySeq DEF TypeOK
  <2>1. CASE /\ prev' = prev /\ next'.enemies = next.enemies
             /\ phase' \in {"enemies", "towers", "firing"} =>
                  phase \in {"enemies", "towers", "firing"}
    BY <2>1 DEF SoundEnemies, AliveSoFar
  <2>2. CASE BeginTimeStep
    BY <2>0, <2>2 DEF BeginTimeStep, Recycled, SoundEnemies, AliveSoFar
  <2>3. CASE MoveEnemy
    <3> DEFINE old == prev.enemies[cursor]
    <3>1. old \in Enemy /\ Sound(old) /\ ~Leaves(old) /\ cursor \in 1..Len(prev.enemies)
      <4>1. cursor \in 1..Len(prev.enemies)
        BY <2>0, <2>3, WorldFields DEF MoveEnemy, TypeOK
      <4> QED BY <2>0, <2>3, <4>1, WorldFields DEF MoveEnemy, SoundEnemies
    <3>2. PICK enemy :
            /\ next' = [next EXCEPT !.enemies = Append(@, enemy)]
            /\ \E pos \in Positions, nearWaypoint \in BOOLEAN :
                 /\ nearWaypoint => HasNextWaypoint(old)
                 /\ enemy = [old EXCEPT !.pos = pos,
                               !.waypoint = IF nearWaypoint THEN @ + 1 ELSE @]
      BY <2>3 DEF MoveEnemy, WithEnemy
    <3>3. PICK pos \in Positions, nearWaypoint \in BOOLEAN :
                 /\ nearWaypoint => HasNextWaypoint(old)
                 /\ enemy = [old EXCEPT !.pos = pos,
                               !.waypoint = IF nearWaypoint THEN @ + 1 ELSE @]
      BY <3>2
    <3>4. /\ enemy.health = old.health /\ enemy.bounties = old.bounties
          /\ enemy.waypoint = IF nearWaypoint THEN old.waypoint + 1 ELSE old.waypoint
      BY <3>1, <3>3 DEF Enemy
    <3>5. old.waypoint + 1 \in Nat /\ old.health \in Nat
      BY <3>1 DEF Enemy
    <3>6. enemy \in Enemy
      BY <3>1, <3>3, <3>5 DEF Enemy
    <3>7. Sound(enemy)
      <4>1. /\ old.waypoint \in 1..LastWaypoint /\ LastWaypoint \in Nat
            /\ old.health = 0 <=> old.bounties > 0
        BY <3>1, MapAssumption DEF Sound
      <4>2. nearWaypoint => old.waypoint < LastWaypoint
        BY <3>3 DEF HasNextWaypoint
      <4>3. enemy.waypoint \in 1..LastWaypoint
        BY <3>4, <4>1, <4>2
      <4> QED BY <3>4, <4>1, <4>3 DEF Sound
    <3>8. enemy.health > 0
      BY <3>1, <3>4, <3>5 DEF Leaves
    <3>9. next'.enemies = Append(next.enemies, enemy) /\ next.enemies \in Seq(Enemy)
      BY <2>0, <3>2, WorldFields DEF World
    <3> HIDE DEF old
    <3>10. SoundEnemies(next'.enemies)
      BY <3>6, <3>7, <3>9, SoundAppended
    <3>11. \A i \in 1..Len(next'.enemies) : next'.enemies[i].health > 0
      <4>1. \A i \in 1..Len(next.enemies) : next.enemies[i].health > 0
        BY <2>3 DEF MoveEnemy, AliveSoFar
      <4>2. Len(next.enemies) \in Nat
        BY <3>9, LenProperties
      <4> QED BY <3>6, <3>8, <3>9, <4>1, <4>2, AppendProperties
    <3> QED BY <2>3, <3>10, <3>11 DEF MoveEnemy, AliveSoFar
  <2>4. CASE HitProjectile
    <3> DEFINE p == prev.projectiles[cursor]
    <3>1. p \in Projectile
      BY <2>0, <2>4, WorldFields DEF HitProjectile, TypeOK
    <3>2. p.targetIdx \in 1..Len(next.enemies) /\ p.type \in TowerTypes
      <4>1. p.targetIdx \in Nat \ {0} /\ p.type \in TowerTypes
        BY <3>1 DEF Projectile
      <4>2. p.targetIdx <= Len(next.enemies)
        BY <2>4 DEF HitProjectile
      <4> QED BY <2>0, <4>1, <4>2, WorldFields
    <3>3. CASE TargetAlive(next.enemies, p)
      BY <2>4, <3>2, <3>3, SoundDamaged DEF HitProjectile, AliveSoFar
    <3>4. CASE ~TargetAlive(next.enemies, p)
      BY <2>4, <3>4 DEF HitProjectile, AliveSoFar
    <3> QED BY <3>3, <3>4
  <2>5. CASE SplashEnemy
    <3>1. prev.projectiles[cursor] \in Projectile
      BY <2>0, <2>5, WorldFields DEF SplashEnemy, TypeOK, IndicesOK
    <3>2. prev.projectiles[cursor].type \in TowerTypes
      BY <3>1 DEF Projectile
    <3>3. splash \subseteq 1..Len(next.enemies)
      BY DEF TypeOK, IndicesOK
    <3> QED BY <2>5, <3>2, <3>3, SoundDamaged DEF SplashEnemy, AliveSoFar
  <2>6. CASE ExecSpawn
    <3> DEFINE enemy == NewEnemy(next.nextObjectId, commands[cursor].type)
    <3>1. commands[cursor] \in Command
      BY <2>6, ElementOfSeq, LenProperties DEF ExecSpawn, NextCommand, TypeOK
    <3>2. commands[cursor].type \in EnemyTypes
      BY <2>6, <3>1 DEF ExecSpawn, NextCommand, Command
    <3>3. enemy \in Enemy /\ Sound(enemy)
      BY <2>0, <3>2, WorldFields, MapAssumption DEF NewEnemy, Enemy, Positions, Sound
    <3>4. next'.enemies = Append(next.enemies, enemy) /\ next.enemies \in Seq(Enemy)
      BY <2>0, <2>6, WorldFields DEF ExecSpawn, World
    <3>5. SoundEnemies(next'.enemies)
      <4> HIDE DEF enemy
      <4> QED BY <3>3, <3>4, SoundAppended
    <3> QED BY <2>6, <3>5 DEF ExecSpawn, NextCommand, AliveSoFar
  <2>7. CASE ExecDespawn
    <3>1. next'.enemies = <<>>
      BY <2>0, <2>7 DEF ExecDespawn, World
    <3> QED BY <2>0, <2>7, <3>1 DEF ExecDespawn, NextCommand, SoundEnemies, AliveSoFar
  <2>8. CASE TowerLoop
    <3>1. next'.enemies = next.enemies /\ prev' = prev
      BY <2>0, <2>8
         DEF TowerLoop, SkipTower, AimTower, FireShot, HoldFire, TowersDone, World
    <3> QED BY <2>1, <2>8, <3>1
            DEF TowerLoop, SkipTower, AimTower, FireShot, HoldFire, TowersDone
  <2>9. CASE FlyProjectile \/ ExecAddGold \/ ExecBuild
    <3>1. next'.enemies = next.enemies
      BY <2>0, <2>9 DEF FlyProjectile, ExecAddGold, ExecBuild, World
    <3> QED BY <2>1, <2>9, <3>1 DEF FlyProjectile, ExecAddGold, ExecBuild, NextCommand
  <2> QED
    BY <2>1, <2>2, <2>3, <2>4, <2>5, <2>6, <2>7, <2>8, <2>9
       DEF Next, InTimeStep, EnemyLoop, ProjectileLoop, CommandLoop, Finished, vars,
           IssueCommand, Quit, RemoveEnemy, EnemiesDone, DropProjectile, ProjectileSpent,
           ProjectilesDone, RejectBuild, EndTimeStep, NextCommand
<1> QED BY <1>1, <1>2, TypeCorrect, PTL DEF Spec

(* The path is never indexed outside its waypoints.                        *)
THEOREM WaypointsInBounds == Spec => []WaypointInBounds
<1>1. EnemiesInv => WaypointInBounds
  BY DEF EnemiesInv, SoundEnemies, Sound, WaypointInBounds
<1> QED BY <1>1, EnemiesInvariant, PTL

(* The player is paid for an enemy when, and only when, it is dead.        *)
THEOREM PaidForTheDead == Spec => []DeadIffPaid
<1>1. EnemiesInv => DeadIffPaid
  BY DEF EnemiesInv, SoundEnemies, Sound, DeadIffPaid
<1> QED BY <1>1, EnemiesInvariant, PTL

(* The dead are swept before any tower shoots again.                       *)
THEOREM DeadAreSwept == Spec => []CorpsesSwept
<1>1. EnemiesInv => CorpsesSwept
  BY DEF EnemiesInv, AliveSoFar, CorpsesSwept
<1> QED BY <1>1, EnemiesInvariant, PTL

-----------------------------------------------------------------------------
(* Two lists hold the same objects if their ids agree, place by place.     *)
SameIds(list, other) ==
    Len(list) = Len(other) /\ \A i \in 1..Len(list) : list[i].id = other[i].id

(* Damage leaves every enemy in its place, with its id, and no other list  *)
(* of the world, nor the counter, is touched.                              *)
LEMMA DamageKeepsIds ==
    ASSUME TypeOK, NEW type \in TowerTypes, NEW i \in 1..Len(next.enemies),
           ApplyDamage(i, Damage[type])
    PROVE  /\ SameIds(next'.enemies, next.enemies)
           /\ next'.towers = next.towers /\ next'.projectiles = next.projectiles
           /\ next'.nextObjectId = next.nextObjectId
           /\ \A j \in 1..Len(next.enemies) : j # i => next'.enemies[j] = next.enemies[j]
<1>1. next \in World /\ next.enemies \in Seq(Enemy) /\ next.enemies[i] \in Enemy
      /\ Damage[type] \in Nat
  BY WorldFields, MapAssumption DEF TypeOK
<1>2. /\ next'.enemies = [next.enemies EXCEPT ![i] = Wounded(next.enemies[i], Damage[type])]
      /\ Len(next'.enemies) = Len(next.enemies)
  BY DamageTypes
<1>3. Wounded(next.enemies[i], Damage[type]).id = next.enemies[i].id
  BY <1>1, WoundedTypes
<1>4. \A j \in 1..Len(next.enemies) :
        next'.enemies[j] = IF j = i THEN Wounded(next.enemies[i], Damage[type])
                                    ELSE next.enemies[j]
  BY <1>1, <1>2
<1>5. /\ next'.towers = next.towers /\ next'.projectiles = next.projectiles
      /\ next'.nextObjectId = next.nextObjectId
  BY <1>1 DEF ApplyDamage, World
<1> QED BY <1>2, <1>3, <1>4, <1>5 DEF SameIds

(* What the two actions that hurt enemies do, as far as ids go.            *)
LEMMA HitsKeepIds ==
    ASSUME TypeOK, HitProjectile \/ SplashEnemy
    PROVE  /\ SameIds(next'.enemies, next.enemies)
           /\ next'.towers = next.towers /\ next'.projectiles = next.projectiles
           /\ next'.nextObjectId = next.nextObjectId
<1>0. prev \in World /\ next \in World
  BY DEF TypeOK
<1>1. CASE HitProjectile
  <2> DEFINE p == prev.projectiles[cursor]
  <2>1. p \in Projectile
    BY <1>0, <1>1, WorldFields DEF HitProjectile, TypeOK
  <2>2. p.targetIdx \in 1..Len(next.enemies) /\ p.type \in TowerTypes
    <3>1. p.targetIdx \in Nat \ {0} /\ p.type \in TowerTypes
      BY <2>1 DEF Projectile
    <3>2. p.targetIdx <= Len(next.enemies)
      BY <1>1 DEF HitProjectile
    <3> QED BY <1>0, <3>1, <3>2, WorldFields
  <2>3. CASE TargetAlive(next.enemies, p)
    BY <1>1, <2>2, <2>3, DamageKeepsIds DEF HitProjectile
  <2>4. CASE ~TargetAlive(next.enemies, p)
    BY <1>1, <2>4 DEF HitProjectile, SameIds
  <2> QED BY <2>3, <2>4
<1>2. CASE SplashEnemy
  <2>1. prev.projectiles[cursor] \in Projectile
    BY <1>0, <1>2, WorldFields DEF SplashEnemy, TypeOK, IndicesOK
  <2>2. prev.projectiles[cursor].type \in TowerTypes
    BY <2>1 DEF Projectile
  <2>3. splash \subseteq 1..Len(next.enemies)
    BY DEF TypeOK, IndicesOK
  <2> QED BY <1>2, <2>2, <2>3, DamageKeepsIds DEF SplashEnemy
<1> QED BY <1>1, <1>2

(* Whatever index a projectile carries, its direct hit changes no enemy    *)
(* but the one it was launched at.                                         *)
THEOREM HitsStrikeTheirTarget == Spec => DirectHitsStrikeTarget
<1> DEFINE Strikes ==
      phase = "projectiles" =>
        \A i \in 1..Len(next.enemies) :
          next'.enemies[i] # next.enemies[i]
            => next.enemies[i].id = prev.projectiles[cursor].targetId
<1>1. ASSUME TypeOK, [Next]_vars PROVE [Strikes]_vars
  <2> SUFFICES ASSUME phase = "projectiles", NEW i \in 1..Len(next.enemies),
                      next'.enemies[i] # next.enemies[i]
               PROVE  next.enemies[i].id = prev.projectiles[cursor].targetId
    BY DEF vars
  <2>0. prev \in World /\ next \in World
    BY <1>1 DEF TypeOK
  <2>1. CASE HitProjectile
    <3> DEFINE p == prev.projectiles[cursor]
    <3>1. p \in Projectile
      BY <1>1, <2>0, <2>1, WorldFields DEF HitProjectile, TypeOK
    <3>2. p.targetIdx \in Nat \ {0} /\ p.type \in TowerTypes
      BY <3>1 DEF Projectile
    <3>3. p.targetIdx \in 1..Len(next.enemies)
      BY <2>0, <2>1, <3>2, WorldFields DEF HitProjectile
    <3>4. TargetAlive(next.enemies, p)
      BY <2>1 DEF HitProjectile
    <3>5. i = p.targetIdx
      BY <1>1, <2>1, <3>2, <3>3, <3>4, DamageKeepsIds DEF HitProjectile
    <3> QED BY <3>4, <3>5 DEF TargetAlive
  <2>2. CASE FlyProjectile
    <3>1. next'.enemies = next.enemies
      BY <2>0, <2>2 DEF FlyProjectile, World
    <3> QED BY <3>1
  <2>3. CASE UNCHANGED next
    BY <2>3
  <2> QED
    BY <1>1, <2>1, <2>2, <2>3
       DEF Next, InTimeStep, EnemyLoop, TowerLoop, ProjectileLoop, CommandLoop, Finished, vars,
           IssueCommand, BeginTimeStep, Quit, RemoveEnemy, MoveEnemy, EnemiesDone, SkipTower,
           AimTower, FireShot, HoldFire, TowersDone, DropProjectile, SplashEnemy,
           ProjectileSpent, ProjectilesDone, ExecSpawn, ExecDespawn, ExecAddGold, ExecBuild,
           RejectBuild, NextCommand, EndTimeStep
<1>2. QED
  BY <1>1, TypeCorrect, PTL DEF Spec, DirectHitsStrikeTarget

-----------------------------------------------------------------------------
(* The ids of a world's objects are numbers.                               *)
LEMMA IdsAreNumbers ==
    ASSUME NEW w \in World
    PROVE  /\ \A i \in 1..Len(w.enemies) : w.enemies[i].id \in Nat
           /\ \A i \in 1..Len(w.towers) : w.towers[i].id \in Nat
           /\ \A i \in 1..Len(w.projectiles) :
                /\ w.projectiles[i].id \in Nat /\ w.projectiles[i].targetId \in Nat
                /\ w.projectiles[i].targetIdx \in Nat \ {0}
<1>1. \A e \in Enemy : e.id \in Nat
  BY DEF Enemy
<1>2. \A t \in Tower : t.id \in Nat
  BY DEF Tower
<1>3. \A p \in Projectile : p.id \in Nat /\ p.targetId \in Nat /\ p.targetIdx \in Nat \ {0}
  BY DEF Projectile
<1> QED BY <1>1, <1>2, <1>3, WorldFields

(* Until the commands run, an enemy stands in the new list at or before    *)
(* its place in the old one: those that left moved the others forward.     *)
Moving == {"enemies", "towers", "firing", "projectiles", "splash"}

Survivors ==
    phase \in Moving =>
      \A i \in 1..Len(next.enemies) :
        \E k \in 1..Len(prev.enemies) :
          /\ i <= k /\ next.enemies[i].id = prev.enemies[k].id
          /\ phase = "enemies" => k < cursor

(* While the towers are copied, the copies are in their old places.        *)
TowersInPlace ==
    phase \in {"towers", "firing"} =>
      \A i \in 1..Len(next.towers) :
        i <= Len(prev.towers) /\ next.towers[i].id = prev.towers[i].id

Aimed(world) ==
    \A k \in 1..Len(world.projectiles) : NotBehind(world.enemies, world.projectiles[k])

IdsInv ==
    /\ FreshIds(prev) /\ FreshIds(next) /\ prev.nextObjectId <= next.nextObjectId
    /\ Aimed(prev) /\ Aimed(next)
    /\ Survivors /\ TowersInPlace
    /\ phase = "enemies" => next.projectiles = <<>>

(* A projectile of the old buffer is not ahead of its target in the new    *)
(* one either.                                                             *)
LEMMA StillAimed ==
    ASSUME TypeOK, IdsInv, phase \in Moving, NEW k \in 1..Len(prev.projectiles)
    PROVE  NotBehind(next.enemies, prev.projectiles[k])
<1> DEFINE p == prev.projectiles[k]
<1> SUFFICES ASSUME NEW i \in 1..Len(next.enemies), next.enemies[i].id = p.targetId
             PROVE  i <= p.targetIdx
  BY DEF NotBehind
<1>1. prev \in World /\ Len(prev.enemies) \in Nat /\ p.targetIdx \in Nat
  BY WorldFields, IdsAreNumbers DEF TypeOK
<1>2. PICK j \in 1..Len(prev.enemies) : i <= j /\ next.enemies[i].id = prev.enemies[j].id
  BY DEF IdsInv, Survivors
<1>3. j <= p.targetIdx
  BY <1>2 DEF IdsInv, Aimed, NotBehind
<1>4. QED
  BY <1>1, <1>2, <1>3

(* Appending an object whose id is above those of the list.                *)
LEMMA IncreasingAppended ==
    ASSUME NEW S, NEW list \in Seq(S), NEW e \in S, Increasing(list),
           \A i \in 1..Len(list) : list[i].id < e.id
    PROVE  Increasing(Append(list, e))
<1>1. /\ Len(list) \in Nat /\ Len(Append(list, e)) = Len(list) + 1
      /\ \A i \in 1..Len(list) : Append(list, e)[i] = list[i]
      /\ Append(list, e)[Len(list) + 1] = e
  BY AppendProperties, LenProperties
<1> SUFFICES ASSUME NEW i \in 1..Len(list) + 1, NEW j \in 1..Len(list) + 1, i < j
             PROVE  Append(list, e)[i].id < Append(list, e)[j].id
  BY <1>1 DEF Increasing
<1>2. i \in 1..Len(list)
  BY <1>1
<1>3. CASE j = Len(list) + 1
  BY <1>1, <1>2, <1>3
<1>4. CASE j # Len(list) + 1
  <2>1. j \in 1..Len(list)
    BY <1>1, <1>4
  <2> QED BY <1>1, <1>2, <2>1 DEF Increasing
<1> QED BY <1>3, <1>4

-----------------------------------------------------------------------------
(* IdsInv is inductive.                                                    *)

LEMMA IdsInitially == Init => IdsInv
<1>1. Len(<<>>) = 0
  BY EmptySeq
<1>2. QED
  BY <1>1 DEF Init, FreshWorld, IdsInv, FreshIds, Increasing, Aimed, Survivors, Moving,
              TowersInPlace

(* A new time step: the buffer it fills is empty.                          *)
LEMMA IdsRecycled ==
    ASSUME TypeOK, IdsInv, BeginTimeStep
    PROVE  IdsInv'
<1>1. Len(<<>>) = 0
  BY EmptySeq
<1>2. /\ prev' = next /\ phase' = "enemies"
      /\ next'.nextObjectId = next.nextObjectId
      /\ next'.enemies = <<>> /\ next'.towers = <<>> /\ next'.projectiles = <<>>
  BY DEF BeginTimeStep, Recycled
<1>3. next.nextObjectId \in Nat
  BY WorldFields DEF TypeOK
<1>4. FreshIds(prev') /\ Aimed(prev')
  BY <1>2 DEF IdsInv
<1>5. FreshIds(next') /\ Aimed(next')
  BY <1>1, <1>2 DEF FreshIds, Increasing, Aimed
<1>6. Survivors' /\ TowersInPlace'
  BY <1>1, <1>2 DEF Survivors, TowersInPlace
<1>7. QED
  BY <1>2, <1>3, <1>4, <1>5, <1>6 DEF IdsInv

(* An enemy moves on: it is appended with the id it has.                   *)
LEMMA IdsMoved ==
    ASSUME TypeOK, IdsInv, MoveEnemy
    PROVE  IdsInv'
<1> DEFINE old == prev.enemies[cursor]
<1>0. prev \in World /\ next \in World /\ cursor \in Nat \ {0} /\ next.enemies \in Seq(Enemy)
  BY WorldFields DEF TypeOK
<1>1. cursor \in 1..Len(prev.enemies)
  BY <1>0, WorldFields DEF MoveEnemy
<1>2. old \in Enemy
  BY <1>0, <1>1, WorldFields
<1>3. PICK pos \in Positions, nearWaypoint \in BOOLEAN :
        next' = [next EXCEPT !.enemies = Append(@,
                  [old EXCEPT !.pos = pos, !.waypoint = IF nearWaypoint THEN @ + 1 ELSE @])]
  BY DEF MoveEnemy, WithEnemy
<1> DEFINE new == [old EXCEPT !.pos = pos, !.waypoint = IF nearWaypoint THEN @ + 1 ELSE @]
<1>4. old.waypoint + 1 \in Nat /\ old.waypoint \in Nat
  BY <1>2 DEF Enemy
<1>5. new \in Enemy /\ new.id = old.id
  BY <1>2, <1>4 DEF Enemy
<1>6. /\ next'.enemies = Append(next.enemies, new)
      /\ next'.towers = next.towers /\ next'.projectiles = next.projectiles
      /\ next'.nextObjectId = next.nextObjectId
  BY <1>0, <1>3 DEF World
<1>7. /\ phase = "enemies" /\ phase' = "enemies" /\ cursor' = cursor + 1 /\ prev' = prev
  BY DEF MoveEnemy
<1> HIDE DEF new, old
<1>8. /\ Len(next.enemies) \in Nat /\ Len(next'.enemies) = Len(next.enemies) + 1
      /\ \A i \in 1..Len(next.enemies) : next'.enemies[i] = next.enemies[i]
      /\ next'.enemies[Len(next.enemies) + 1] = new
  BY <1>0, <1>5, <1>6, AppendProperties, LenProperties
<1>9. next.projectiles = <<>> /\ next.towers = <<>> /\ Len(<<>>) = 0
  BY <1>7, EmptySeq DEF IdsInv, TypeOK, IndicesOK
<1>10. \A i \in 1..Len(next.enemies) : i < cursor /\ next.enemies[i].id < new.id
  <2> SUFFICES ASSUME NEW i \in 1..Len(next.enemies)
               PROVE  i < cursor /\ next.enemies[i].id < new.id
    OBVIOUS
  <2>1. PICK k \in 1..Len(prev.enemies) :
          i <= k /\ k < cursor /\ next.enemies[i].id = prev.enemies[k].id
    BY <1>7 DEF IdsInv, Survivors, Moving
  <2>2. prev.enemies[k].id < prev.enemies[cursor].id
    BY <1>1, <2>1 DEF IdsInv, FreshIds, Increasing
  <2>3. i < cursor
    BY <1>0, <1>1, <1>8, <2>1
  <2>4. QED
    BY <1>5, <2>1, <2>2, <2>3 DEF old
<1>11. new.id < next.nextObjectId
  <2>1. old.id < prev.nextObjectId
    BY <1>1 DEF IdsInv, FreshIds, old
  <2>2. /\ old.id \in Nat /\ prev.nextObjectId \in Nat /\ next.nextObjectId \in Nat
        /\ prev.nextObjectId <= next.nextObjectId
    BY <1>0, <1>1, WorldFields, IdsAreNumbers DEF IdsInv, old
  <2>3. QED
    BY <1>5, <2>1, <2>2
<1>12. FreshIds(next')
  <2>1. Increasing(next'.enemies)
    BY <1>0, <1>5, <1>6, <1>10, IncreasingAppended DEF IdsInv, FreshIds
  <2>2. \A i \in 1..Len(next'.enemies) : next'.enemies[i].id < next'.nextObjectId
    BY <1>6, <1>8, <1>11 DEF IdsInv, FreshIds
  <2>3. QED
    BY <1>6, <1>9, <2>1, <2>2 DEF FreshIds, Increasing
<1>13. Survivors'
  <2> SUFFICES ASSUME NEW i \in 1..Len(next'.enemies)
               PROVE  \E k \in 1..Len(prev.enemies) :
                        i <= k /\ k < cursor + 1 /\ next'.enemies[i].id = prev.enemies[k].id
    BY <1>7 DEF Survivors
  <2>1. CASE i \in 1..Len(next.enemies)
    <3>1. PICK k \in 1..Len(prev.enemies) :
            i <= k /\ k < cursor /\ next.enemies[i].id = prev.enemies[k].id
      BY <1>7, <2>1 DEF IdsInv, Survivors, Moving
    <3>2. k < cursor + 1
      BY <1>0, <3>1
    <3>3. QED
      BY <1>8, <2>1, <3>1, <3>2
  <2>2. CASE i = Len(next.enemies) + 1
    <3>1. i <= cursor
      <4>1. CASE Len(next.enemies) = 0
        BY <1>0, <2>2, <4>1
      <4>2. CASE Len(next.enemies) # 0
        <5>1. Len(next.enemies) \in 1..Len(next.enemies)
          BY <1>8, <4>2
        <5>2. QED
          BY <1>0, <1>8, <1>10, <2>2, <5>1
      <4>3. QED
        BY <4>1, <4>2
    <3>2. next'.enemies[i].id = prev.enemies[cursor].id
      BY <1>5, <1>8, <2>2 DEF old
    <3>3. cursor < cursor + 1
      BY <1>0
    <3>4. QED
      BY <1>1, <3>1, <3>2, <3>3
  <2>3. QED
    BY <1>8, <2>1, <2>2
<1>14. Aimed(next') /\ TowersInPlace'
  BY <1>6, <1>7, <1>9 DEF Aimed, TowersInPlace
<1>15. QED
  BY <1>6, <1>7, <1>9, <1>12, <1>13, <1>14 DEF IdsInv

(* A tower is copied, with the id it has.                                  *)
LEMMA IdsCopied ==
    ASSUME TypeOK, IdsInv, SkipTower \/ AimTower
    PROVE  IdsInv'
<1>0. prev \in World /\ next \in World /\ cursor \in Nat \ {0} /\ next.towers \in Seq(Tower)
  BY WorldFields DEF TypeOK
<1>1. /\ phase = "towers" /\ phase' \in {"towers", "firing"}
      /\ prev' = prev /\ cursor <= Len(prev.towers) /\ cursor = Len(next.towers) + 1
  BY DEF SkipTower, AimTower, TypeOK, IndicesOK
<1>2. cursor \in 1..Len(prev.towers)
  BY <1>0, <1>1, WorldFields
<1>3. prev.towers[cursor] \in Tower
  BY <1>0, <1>2, WorldFields
<1>4. PICK new \in Tower :
        new.id = prev.towers[cursor].id /\ next' = [next EXCEPT !.towers = Append(@, new)]
  <2>1. CASE SkipTower
    BY <1>3, <2>1 DEF SkipTower
  <2>2. CASE AimTower
    <3>1. prev.towers[cursor].sinceShot + FixedDelta \in Nat
      BY <1>3, MapAssumption DEF Tower
    <3>2. [prev.towers[cursor] EXCEPT !.sinceShot = @ + FixedDelta] \in Tower
      BY <1>3, <3>1 DEF Tower
    <3>3. [prev.towers[cursor] EXCEPT !.sinceShot = @ + FixedDelta].id = prev.towers[cursor].id
      BY <1>3 DEF Tower
    <3>4. QED
      BY <2>2, <3>2, <3>3 DEF AimTower
  <2>3. QED
    BY <2>1, <2>2
<1>5. /\ next'.towers = Append(next.towers, new)
      /\ next'.enemies = next.enemies /\ next'.projectiles = next.projectiles
      /\ next'.nextObjectId = next.nextObjectId
  BY <1>0, <1>4 DEF World
<1>6. /\ Len(next.towers) \in Nat /\ Len(next'.towers) = Len(next.towers) + 1
      /\ \A i \in 1..Len(next.towers) : next'.towers[i] = next.towers[i]
      /\ next'.towers[Len(next.towers) + 1] = new
  BY <1>0, <1>4, <1>5, AppendProperties, LenProperties
<1>7. \A i \in 1..Len(next.towers) : next.towers[i].id < new.id
  <2> SUFFICES ASSUME NEW i \in 1..Len(next.towers) PROVE next.towers[i].id < new.id
    OBVIOUS
  <2>1. i <= Len(prev.towers) /\ next.towers[i].id = prev.towers[i].id
    BY <1>1 DEF IdsInv, TowersInPlace
  <2>2. i \in 1..Len(prev.towers) /\ i < cursor
    BY <1>1, <1>2, <1>6, <2>1
  <2>3. prev.towers[i].id < prev.towers[cursor].id
    BY <1>2, <2>2 DEF IdsInv, FreshIds, Increasing
  <2>4. QED
    BY <1>4, <2>1, <2>3
<1>8. new.id < next.nextObjectId
  <2>1. prev.towers[cursor].id < prev.nextObjectId
    BY <1>2 DEF IdsInv, FreshIds
  <2>2. /\ prev.towers[cursor].id \in Nat /\ prev.nextObjectId \in Nat /\ next.nextObjectId \in Nat
        /\ prev.nextObjectId <= next.nextObjectId
    BY <1>0, <1>2, WorldFields, IdsAreNumbers DEF IdsInv
  <2>3. QED
    BY <1>4, <2>1, <2>2
<1>9. \A i \in 1..Len(next.enemies) : next.enemies[i].id # new.id
  <2> SUFFICES ASSUME NEW i \in 1..Len(next.enemies) PROVE next.enemies[i].id # new.id
    OBVIOUS
  <2>1. PICK k \in 1..Len(prev.enemies) : next.enemies[i].id = prev.enemies[k].id
    BY <1>1 DEF IdsInv, Survivors, Moving
  <2>2. QED
    BY <1>2, <1>4, <2>1 DEF IdsInv, FreshIds
<1>10. FreshIds(next')
  <2>1. Increasing(next'.towers)
    BY <1>0, <1>4, <1>5, <1>7, IncreasingAppended DEF IdsInv, FreshIds
  <2>2. \A i \in 1..Len(next'.towers) : next'.towers[i].id < next'.nextObjectId
    BY <1>5, <1>6, <1>8 DEF IdsInv, FreshIds
  <2>3. \A i \in 1..Len(next'.enemies), j \in 1..Len(next'.towers) :
          next'.enemies[i].id # next'.towers[j].id
    BY <1>5, <1>6, <1>9 DEF IdsInv, FreshIds
  <2>4. QED
    BY <1>5, <2>1, <2>2, <2>3 DEF IdsInv, FreshIds
<1>11. TowersInPlace'
  <2> SUFFICES ASSUME NEW i \in 1..Len(next'.towers)
               PROVE  i <= Len(prev.towers) /\ next'.towers[i].id = prev.towers[i].id
    BY <1>1 DEF TowersInPlace
  <2>1. CASE i \in 1..Len(next.towers)
    BY <1>1, <1>6, <2>1 DEF IdsInv, TowersInPlace
  <2>2. CASE i = Len(next.towers) + 1
    BY <1>1, <1>4, <1>6, <2>2
  <2>3. QED
    BY <1>6, <2>1, <2>2
<1>12. Survivors' /\ Aimed(next')
  BY <1>1, <1>5 DEF IdsInv, Survivors, Aimed, Moving
<1>13. QED
  BY <1>1, <1>5, <1>10, <1>11, <1>12 DEF IdsInv

(* A shot carries the place and the id of one enemy, and a fresh id.       *)
LEMMA IdsFired ==
    ASSUME TypeOK, IdsInv, FireShot
    PROVE  IdsInv'
<1> DEFINE tower == next.towers[cursor]
           cooler == [tower EXCEPT !.sinceShot = @ - ShotInterval[tower.type]]
           shot == [id |-> next.nextObjectId, type |-> tower.type,
                    targetIdx |-> target, targetId |-> next.enemies[target].id]
<1>0. prev \in World /\ next \in World /\ next.towers \in Seq(Tower)
      /\ next.nextObjectId \in Nat /\ prev.nextObjectId \in Nat
      /\ next.projectiles \in Seq(Projectile)
  BY WorldFields DEF TypeOK
<1>1. phase = "firing" /\ phase' = "firing" /\ prev' = prev
  BY DEF FireShot
<1>2. cursor \in 1..Len(next.towers) /\ target \in 1..Len(next.enemies)
  <2>1. cursor = Len(next.towers) /\ target <= Len(next.enemies) /\ cursor \in Nat \ {0}
        /\ target \in Nat \ {0}
    BY <1>1 DEF TypeOK, IndicesOK
  <2> QED BY <1>0, <2>1, WorldFields
<1>3. tower \in Tower
  BY <1>0, <1>2, WorldFields
<1>4. next' = [next EXCEPT !.towers = [@ EXCEPT ![cursor] = cooler],
                           !.projectiles = Append(@, shot), !.nextObjectId = @ + 1]
  BY DEF FireShot
<1>5. cooler.id = tower.id
  BY <1>3 DEF Tower
<1>6. /\ shot.id = next.nextObjectId /\ shot.targetIdx = target
      /\ shot.targetId = next.enemies[target].id
  OBVIOUS
<1>7. shot \in Projectile
  <2>1. tower.type \in TowerTypes
    BY <1>3 DEF Tower
  <2>2. next.enemies[target].id \in Nat /\ target \in Nat \ {0}
    BY <1>0, <1>2, IdsAreNumbers DEF TypeOK
  <2> HIDE DEF tower
  <2> QED BY <1>0, <2>1, <2>2 DEF Projectile
<1> HIDE DEF shot, cooler
<1>8. /\ next'.enemies = next.enemies /\ next'.towers = [next.towers EXCEPT ![cursor] = cooler]
      /\ next'.projectiles = Append(next.projectiles, shot)
      /\ next'.nextObjectId = next.nextObjectId + 1
  BY <1>0, <1>4 DEF World
<1>9. SameIds(next'.towers, next.towers)
  <2>1. Len(next'.towers) = Len(next.towers)
    BY <1>0, <1>8
  <2>2. \A i \in 1..Len(next.towers) :
          next'.towers[i] = IF i = cursor THEN cooler ELSE next.towers[i]
    BY <1>0, <1>8
  <2> QED BY <1>5, <2>1, <2>2 DEF SameIds
<1>10. /\ Len(next.projectiles) \in Nat
       /\ Len(next'.projectiles) = Len(next.projectiles) + 1
       /\ \A i \in 1..Len(next.projectiles) : next'.projectiles[i] = next.projectiles[i]
       /\ next'.projectiles[Len(next.projectiles) + 1] = shot
  BY <1>0, <1>7, <1>8, AppendProperties, LenProperties
<1>11. FreshIds(next')
  <2>1. Increasing(next'.towers)
    BY <1>9 DEF SameIds, Increasing, IdsInv, FreshIds
  <2>2. \A i \in 1..Len(next.enemies) : next.enemies[i].id < next.nextObjectId + 1
    BY <1>0, IdsAreNumbers DEF IdsInv, FreshIds
  <2>3. \A i \in 1..Len(next'.towers) : next'.towers[i].id < next.nextObjectId + 1
    <3>1. \A i \in 1..Len(next.towers) : next.towers[i].id < next.nextObjectId + 1
      BY <1>0, IdsAreNumbers DEF IdsInv, FreshIds
    <3> QED BY <1>9, <3>1 DEF SameIds
  <2>4. \A i \in 1..Len(next'.projectiles) :
          /\ next'.projectiles[i].id < next.nextObjectId + 1
          /\ next'.projectiles[i].targetId < next'.projectiles[i].id
    <3>1. \A i \in 1..Len(next.projectiles) :
            /\ next.projectiles[i].id < next.nextObjectId + 1
            /\ next.projectiles[i].targetId < next.projectiles[i].id
      BY <1>0, IdsAreNumbers DEF IdsInv, FreshIds
    <3>2. shot.id < next.nextObjectId + 1 /\ shot.targetId < shot.id
      BY <1>0, <1>2, <1>6 DEF IdsInv, FreshIds
    <3> QED BY <1>10, <3>1, <3>2
  <2>5. \A i \in 1..Len(next'.enemies), j \in 1..Len(next'.towers) :
          next'.enemies[i].id # next'.towers[j].id
    BY <1>8, <1>9 DEF SameIds, IdsInv, FreshIds
  <2> QED BY <1>8, <2>1, <2>2, <2>3, <2>4, <2>5 DEF IdsInv, FreshIds
<1>12. Aimed(next')
  <2>1. NotBehind(next.enemies, shot)
    <3> SUFFICES ASSUME NEW i \in 1..Len(next.enemies),
                        next.enemies[i].id = next.enemies[target].id
                 PROVE  i <= target
      BY <1>6 DEF NotBehind
    <3>1. ~(target < i)
      BY <1>0, <1>2, IdsAreNumbers DEF IdsInv, FreshIds, Increasing
    <3> QED BY <1>2, <3>1
  <2> QED BY <1>8, <1>10, <2>1 DEF IdsInv, Aimed
<1>13. Survivors' /\ TowersInPlace'
  BY <1>1, <1>8, <1>9 DEF IdsInv, Survivors, TowersInPlace, SameIds, Moving
<1>14. prev.nextObjectId <= next'.nextObjectId
  BY <1>0, <1>8 DEF IdsInv
<1>15. QED
  BY <1>1, <1>8, <1>11, <1>12, <1>13, <1>14 DEF IdsInv

(* A projectile flies on.                                                  *)
LEMMA IdsFlown ==
    ASSUME TypeOK, IdsInv, FlyProjectile
    PROVE  IdsInv'
<1> DEFINE p == prev.projectiles[cursor]
<1>0. prev \in World /\ next \in World /\ cursor \in Nat \ {0}
      /\ next.projectiles \in Seq(Projectile)
      /\ next.nextObjectId \in Nat /\ prev.nextObjectId \in Nat
  BY WorldFields DEF TypeOK
<1>1. /\ phase = "projectiles" /\ phase' = "projectiles" /\ prev' = prev
      /\ cursor <= Len(prev.projectiles)
      /\ next' = [next EXCEPT !.projectiles = Append(@, p)]
  BY DEF FlyProjectile
<1>2. cursor \in 1..Len(prev.projectiles)
  BY <1>0, <1>1, WorldFields
<1>3. p \in Projectile
  BY <1>0, <1>2, WorldFields
<1>4. /\ p.targetId < p.id /\ p.id < next.nextObjectId
  <2>1. p.targetId < p.id /\ p.id < prev.nextObjectId
    BY <1>2 DEF IdsInv, FreshIds
  <2>2. p.id \in Nat /\ prev.nextObjectId <= next.nextObjectId
    BY <1>0, <1>2, IdsAreNumbers DEF IdsInv
  <2> QED BY <1>0, <2>1, <2>2
<1>5. NotBehind(next.enemies, p)
  BY <1>1, <1>2, StillAimed DEF Moving
<1> HIDE DEF p
<1>6. /\ next'.enemies = next.enemies /\ next'.towers = next.towers
      /\ next'.nextObjectId = next.nextObjectId
      /\ next'.projectiles = Append(next.projectiles, p)
  BY <1>0, <1>1 DEF World
<1>7. /\ Len(next.projectiles) \in Nat
      /\ Len(next'.projectiles) = Len(next.projectiles) + 1
      /\ \A i \in 1..Len(next.projectiles) : next'.projectiles[i] = next.projectiles[i]
      /\ next'.projectiles[Len(next.projectiles) + 1] = p
  BY <1>0, <1>3, <1>6, AppendProperties, LenProperties
<1>8. FreshIds(next')
  <2>1. \A i \in 1..Len(next'.projectiles) :
          /\ next'.projectiles[i].id < next'.nextObjectId
          /\ next'.projectiles[i].targetId < next'.projectiles[i].id
    BY <1>4, <1>6, <1>7 DEF IdsInv, FreshIds
  <2> QED BY <1>6, <2>1 DEF IdsInv, FreshIds
<1>9. Aimed(next')
  BY <1>5, <1>6, <1>7 DEF IdsInv, Aimed
<1>10. Survivors' /\ TowersInPlace'
  BY <1>1, <1>6 DEF IdsInv, Survivors, TowersInPlace, Moving
<1>11. QED
  BY <1>1, <1>6, <1>8, <1>9, <1>10 DEF IdsInv

(* Damage, splash included, disturbs nobody's id or place.                 *)
LEMMA IdsHit ==
    ASSUME TypeOK, IdsInv, HitProjectile \/ SplashEnemy
    PROVE  IdsInv'
<1>1. /\ SameIds(next'.enemies, next.enemies)
      /\ next'.towers = next.towers /\ next'.projectiles = next.projectiles
      /\ next'.nextObjectId = next.nextObjectId
  BY HitsKeepIds
<1>2. prev' = prev /\ phase \in {"projectiles", "splash"} /\ phase' = "splash"
  BY DEF HitProjectile, SplashEnemy
<1>3. FreshIds(next')
  <2>1. Increasing(next'.enemies)
    BY <1>1 DEF SameIds, Increasing, IdsInv, FreshIds
  <2>2. /\ \A i \in 1..Len(next'.enemies) : next'.enemies[i].id < next'.nextObjectId
        /\ \A i \in 1..Len(next'.enemies), j \in 1..Len(next'.towers) :
             next'.enemies[i].id # next'.towers[j].id
    BY <1>1 DEF SameIds, IdsInv, FreshIds
  <2> QED BY <1>1, <2>1, <2>2 DEF IdsInv, FreshIds
<1>4. Aimed(next')
  BY <1>1 DEF SameIds, IdsInv, Aimed, NotBehind
<1>5. Survivors' /\ TowersInPlace'
  BY <1>1, <1>2 DEF SameIds, IdsInv, Survivors, TowersInPlace, Moving
<1>6. QED
  BY <1>1, <1>2, <1>3, <1>4, <1>5 DEF IdsInv

(* Whatever is created gets an id that nothing has and nothing had.        *)
LEMMA IdsSpawned ==
    ASSUME TypeOK, IdsInv, ExecSpawn
    PROVE  IdsInv'
<1> DEFINE new == NewEnemy(next.nextObjectId, commands[cursor].type)
<1>0. next \in World /\ next.enemies \in Seq(Enemy)
      /\ next.nextObjectId \in Nat /\ prev.nextObjectId \in Nat
  BY WorldFields DEF TypeOK
<1>1. commands[cursor] \in Command
  BY ElementOfSeq, LenProperties DEF ExecSpawn, NextCommand, TypeOK
<1>2. commands[cursor].type \in EnemyTypes
  BY <1>1 DEF ExecSpawn, NextCommand, Command
<1>3. new \in Enemy /\ new.id = next.nextObjectId
  BY <1>0, <1>2, MapAssumption DEF NewEnemy, Enemy, Positions
<1>4. next' = [next EXCEPT !.enemies = Append(@, new), !.nextObjectId = @ + 1]
      /\ prev' = prev /\ phase = "commands" /\ phase' = "commands"
  BY DEF ExecSpawn, NextCommand
<1> HIDE DEF new
<1>5. /\ next'.enemies = Append(next.enemies, new)
      /\ next'.towers = next.towers /\ next'.projectiles = next.projectiles
      /\ next'.nextObjectId = next.nextObjectId + 1
  BY <1>0, <1>4 DEF World
<1>6. /\ Len(next.enemies) \in Nat /\ Len(next'.enemies) = Len(next.enemies) + 1
      /\ \A i \in 1..Len(next.enemies) : next'.enemies[i] = next.enemies[i]
      /\ next'.enemies[Len(next.enemies) + 1] = new
  BY <1>0, <1>3, <1>5, AppendProperties, LenProperties
<1>7. FreshIds(next')
  <2>1. Increasing(next'.enemies)
    BY <1>0, <1>3, <1>5, IncreasingAppended DEF IdsInv, FreshIds
  <2>2. \A i \in 1..Len(next'.enemies) : next'.enemies[i].id < next'.nextObjectId
    <3>1. \A i \in 1..Len(next.enemies) : next.enemies[i].id < next.nextObjectId + 1
      BY <1>0, IdsAreNumbers DEF IdsInv, FreshIds
    <3>2. new.id < next.nextObjectId + 1
      BY <1>0, <1>3
    <3> QED BY <1>5, <1>6, <3>1, <3>2
  <2>3. /\ \A i \in 1..Len(next'.towers) : next'.towers[i].id < next'.nextObjectId
        /\ \A i \in 1..Len(next'.projectiles) :
             /\ next'.projectiles[i].id < next'.nextObjectId
             /\ next'.projectiles[i].targetId < next'.projectiles[i].id
    BY <1>0, <1>5, IdsAreNumbers DEF IdsInv, FreshIds
  <2>4. \A i \in 1..Len(next'.enemies), j \in 1..Len(next'.towers) :
          next'.enemies[i].id # next'.towers[j].id
    <3>1. \A j \in 1..Len(next.towers) : new.id # next.towers[j].id
      BY <1>0, <1>3, IdsAreNumbers DEF IdsInv, FreshIds
    <3> QED BY <1>5, <1>6, <3>1 DEF IdsInv, FreshIds
  <2> QED BY <1>5, <2>1, <2>2, <2>3, <2>4 DEF IdsInv, FreshIds
<1>8. Aimed(next')
  <2> SUFFICES ASSUME NEW k \in 1..Len(next.projectiles), NEW i \in 1..Len(next'.enemies),
                      next'.enemies[i].id = next.projectiles[k].targetId
               PROVE  i <= next.projectiles[k].targetIdx
    BY <1>5 DEF Aimed, NotBehind
  <2>1. next.projectiles[k].targetId # new.id
    BY <1>0, <1>3, IdsAreNumbers DEF IdsInv, FreshIds
  <2>2. i \in 1..Len(next.enemies)
    BY <1>6, <2>1
  <2> QED BY <1>6, <2>2 DEF IdsInv, Aimed, NotBehind
<1>9. Survivors' /\ TowersInPlace' /\ prev.nextObjectId <= next'.nextObjectId
  BY <1>0, <1>4, <1>5 DEF IdsInv, Survivors, TowersInPlace, Moving
<1>10. QED
  BY <1>4, <1>5, <1>7, <1>8, <1>9 DEF IdsInv

LEMMA IdsBuilt ==
    ASSUME TypeOK, IdsInv, ExecBuild
    PROVE  IdsInv'
<1> DEFINE c == commands[cursor]
           new == NewTower(next.nextObjectId, c.type, c.tile)
<1>0. next \in World /\ next.towers \in Seq(Tower)
      /\ next.nextObjectId \in Nat /\ prev.nextObjectId \in Nat
  BY WorldFields DEF TypeOK
<1>1. c \in Command
  BY ElementOfSeq, LenProperties DEF ExecBuild, NextCommand, TypeOK
<1>2. c.type \in TowerTypes /\ c.tile \in BuildableTiles
  BY <1>1 DEF ExecBuild, NextCommand, Command
<1>3. new \in Tower /\ new.id = next.nextObjectId
  BY <1>0, <1>2 DEF NewTower, Tower
<1>4. next' = [next EXCEPT !.gold = @ - Cost[c.type], !.towers = Append(@, new),
                           !.nextObjectId = @ + 1]
      /\ prev' = prev /\ phase = "commands" /\ phase' = "commands"
  BY DEF ExecBuild, NextCommand
<1> HIDE DEF new
<1>5. /\ next'.towers = Append(next.towers, new)
      /\ next'.enemies = next.enemies /\ next'.projectiles = next.projectiles
      /\ next'.nextObjectId = next.nextObjectId + 1
  BY <1>0, <1>4 DEF World
<1>6. /\ Len(next.towers) \in Nat /\ Len(next'.towers) = Len(next.towers) + 1
      /\ \A i \in 1..Len(next.towers) : next'.towers[i] = next.towers[i]
      /\ next'.towers[Len(next.towers) + 1] = new
  BY <1>0, <1>3, <1>5, AppendProperties, LenProperties
<1>7. FreshIds(next')
  <2>1. Increasing(next'.towers)
    BY <1>0, <1>3, <1>5, IncreasingAppended DEF IdsInv, FreshIds
  <2>2. \A i \in 1..Len(next'.towers) : next'.towers[i].id < next'.nextObjectId
    <3>1. \A i \in 1..Len(next.towers) : next.towers[i].id < next.nextObjectId + 1
      BY <1>0, IdsAreNumbers DEF IdsInv, FreshIds
    <3>2. new.id < next.nextObjectId + 1
      BY <1>0, <1>3
    <3> QED BY <1>5, <1>6, <3>1, <3>2
  <2>3. /\ \A i \in 1..Len(next'.enemies) : next'.enemies[i].id < next'.nextObjectId
        /\ \A i \in 1..Len(next'.projectiles) :
             /\ next'.projectiles[i].id < next'.nextObjectId
             /\ next'.projectiles[i].targetId < next'.projectiles[i].id
    BY <1>0, <1>5, IdsAreNumbers DEF IdsInv, FreshIds
  <2>4. \A i \in 1..Len(next'.enemies), j \in 1..Len(next'.towers) :
          next'.enemies[i].id # next'.towers[j].id
    <3>1. \A i \in 1..Len(next.enemies) : next.enemies[i].id # new.id
      BY <1>0, <1>3, IdsAreNumbers DEF IdsInv, FreshIds
    <3> QED BY <1>5, <1>6, <3>1 DEF IdsInv, FreshIds
  <2> QED BY <1>5, <2>1, <2>2, <2>3, <2>4 DEF IdsInv, FreshIds
<1>8. /\ Aimed(next') /\ Survivors' /\ TowersInPlace'
      /\ prev.nextObjectId <= next'.nextObjectId
  BY <1>0, <1>4, <1>5 DEF IdsInv, Aimed, Survivors, TowersInPlace, Moving
<1>9. QED
  BY <1>4, <1>5, <1>7, <1>8 DEF IdsInv

LEMMA IdsDespawned ==
    ASSUME TypeOK, IdsInv, ExecDespawn
    PROVE  IdsInv'
<1>0. next \in World /\ Len(<<>>) = 0
  BY EmptySeq DEF TypeOK
<1>1. /\ next'.enemies = <<>> /\ next'.towers = next.towers
      /\ next'.projectiles = next.projectiles /\ next'.nextObjectId = next.nextObjectId
  BY <1>0 DEF ExecDespawn, World
<1>2. prev' = prev /\ phase = "commands" /\ phase' = "commands"
  BY DEF ExecDespawn, NextCommand
<1>3. FreshIds(next') /\ Aimed(next')
  BY <1>0, <1>1 DEF IdsInv, FreshIds, Increasing, Aimed, NotBehind
<1>4. QED
  BY <1>1, <1>2, <1>3 DEF IdsInv, Survivors, TowersInPlace, Moving

(* Steps that touch neither lists nor counter.                             *)
LEMMA IdsUntouched ==
    ASSUME TypeOK, IdsInv, prev' = prev,
           /\ next'.enemies = next.enemies /\ next'.towers = next.towers
           /\ next'.projectiles = next.projectiles /\ next'.nextObjectId = next.nextObjectId,
           phase' \in Moving => phase \in Moving,
           phase' = "enemies" => phase = "enemies" /\ cursor' \in {cursor, cursor + 1},
           phase' \in {"towers", "firing"} => phase \in {"enemies", "towers", "firing"}
    PROVE  IdsInv'
<1>0. cursor \in Nat \ {0} /\ Len(<<>>) = 0 /\ Len(prev.enemies) \in Nat
  BY EmptySeq, WorldFields DEF TypeOK
<1>1. FreshIds(next') /\ Aimed(next')
  BY DEF IdsInv, FreshIds, Aimed
<1>2. TowersInPlace'
  <2>1. CASE phase = "enemies"
    BY <1>0, <2>1 DEF TypeOK, IndicesOK, TowersInPlace
  <2>2. CASE phase # "enemies"
    BY <2>2 DEF IdsInv, TowersInPlace
  <2> QED BY <2>1, <2>2
<1>3. Survivors'
  <2> SUFFICES ASSUME phase' \in Moving, NEW i \in 1..Len(next.enemies)
               PROVE  \E k \in 1..Len(prev.enemies) :
                        /\ i <= k /\ next.enemies[i].id = prev.enemies[k].id
                        /\ phase' = "enemies" => k < cursor'
    BY DEF Survivors, Moving
  <2>1. PICK k \in 1..Len(prev.enemies) :
          /\ i <= k /\ next.enemies[i].id = prev.enemies[k].id
          /\ phase = "enemies" => k < cursor
    BY DEF IdsInv, Survivors
  <2>2. phase' = "enemies" => k < cursor'
    BY <1>0, <2>1
  <2> QED BY <2>1, <2>2
<1>4. QED
  BY <1>1, <1>2, <1>3 DEF IdsInv

LEMMA IdsStep ==
    ASSUME TypeOK, IdsInv, [Next]_vars
    PROVE  IdsInv'
<1>0. next \in World
  BY DEF TypeOK
<1>1. CASE BeginTimeStep
  BY <1>1, IdsRecycled
<1>2. CASE MoveEnemy
  BY <1>2, IdsMoved
<1>3. CASE SkipTower \/ AimTower
  BY <1>3, IdsCopied
<1>4. CASE FireShot
  BY <1>4, IdsFired
<1>5. CASE FlyProjectile
  BY <1>5, IdsFlown
<1>6. CASE HitProjectile \/ SplashEnemy
  BY <1>6, IdsHit
<1>7. CASE ExecSpawn
  BY <1>7, IdsSpawned
<1>8. CASE ExecBuild
  BY <1>8, IdsBuilt
<1>9. CASE ExecDespawn
  BY <1>9, IdsDespawned
<1>10. CASE ExecAddGold
  <2>1. /\ next'.enemies = next.enemies /\ next'.towers = next.towers
        /\ next'.projectiles = next.projectiles /\ next'.nextObjectId = next.nextObjectId
    BY <1>0, <1>10 DEF ExecAddGold, World
  <2>2. prev' = prev /\ phase' = "commands"
    BY <1>10 DEF ExecAddGold, NextCommand
  <2> QED BY <2>1, <2>2, IdsUntouched DEF Moving
<1>11. CASE IssueCommand \/ Quit \/ RemoveEnemy \/ EnemiesDone \/ HoldFire \/ TowersDone
              \/ DropProjectile \/ ProjectileSpent \/ ProjectilesDone \/ RejectBuild
              \/ EndTimeStep \/ UNCHANGED vars
  <2>1. prev' = prev /\ next' = next
    BY <1>11 DEF IssueCommand, Quit, RemoveEnemy, EnemiesDone, HoldFire, TowersDone,
                 DropProjectile, ProjectileSpent, ProjectilesDone, RejectBuild, NextCommand,
                 EndTimeStep, vars
  <2>2. /\ phase' \in Moving => phase \in Moving
        /\ phase' = "enemies" => phase = "enemies" /\ cursor' \in {cursor, cursor + 1}
        /\ phase' \in {"towers", "firing"} => phase \in {"enemies", "towers", "firing"}
    BY <1>11 DEF IssueCommand, Quit, RemoveEnemy, EnemiesDone, HoldFire, TowersDone,
                 DropProjectile, ProjectileSpent, ProjectilesDone, RejectBuild, NextCommand,
                 EndTimeStep, vars, Moving
  <2> QED BY <2>1, <2>2, IdsUntouched
<1> QED
  BY <1>1, <1>2, <1>3, <1>4, <1>5, <1>6, <1>7, <1>8, <1>9, <1>10, <1>11
     DEF Next, InTimeStep, EnemyLoop, TowerLoop, ProjectileLoop, CommandLoop, Finished

LEMMA IdsInvariant == Spec => [](TypeOK /\ IdsInv)
<1>1. TypeOK /\ IdsInv /\ [Next]_vars => IdsInv'
  BY IdsStep
<1> QED BY <1>1, IdsInitially, TypeCorrect, PTL DEF Spec

(* An id names one object for good, over every swap of the buffers, and    *)
(* enemies and towers stay in the order of their creation.                 *)
THEOREM IdsStayFresh == Spec => []ObjectIdsFresh
<1>1. IdsInv => ObjectIdsFresh
  BY DEF IdsInv, ObjectIdsFresh
<1> QED BY <1>1, IdsInvariant, PTL

(* However many enemies are removed between launch and impact, no          *)
(* projectile takes another enemy for its target, and one that has lost    *)
(* its target never finds it again.                                        *)
THEOREM TargetsStayApart == Spec => []TargetsNeverConfused
<1>1. ASSUME TypeOK, IdsInv PROVE TargetsNeverConfused
  <2>0. /\ prev \in World /\ next \in World /\ cursor \in Nat \ {0}
        /\ Len(prev.projectiles) \in Nat
    BY <1>1, WorldFields DEF TypeOK
  <2>1. \A k \in cursor..Len(prev.projectiles) : k \in 1..Len(prev.projectiles)
    BY <2>0
  <2>2. StaleIndexNeverAhead
    <3>1. \A k \in 1..Len(next.projectiles) : NotBehind(next.enemies, next.projectiles[k])
      BY <1>1 DEF IdsInv, Aimed
    <3>2. phase \in {"projectiles", "splash"} =>
            \A k \in cursor..Len(prev.projectiles) : NotBehind(next.enemies, prev.projectiles[k])
      BY <1>1, <2>1, StillAimed DEF Moving
    <3> QED BY <3>1, <3>2 DEF StaleIndexNeverAhead
  <2>3. LostForGood
    <3> SUFFICES ASSUME phase \in {"projectiles", "splash"},
                        NEW k \in cursor..Len(prev.projectiles),
                        TargetAlive(next.enemies, prev.projectiles[k])
                 PROVE  TargetAlive(prev.enemies, prev.projectiles[k])
      BY DEF LostForGood
    <3> DEFINE p == prev.projectiles[k]
    <3>1. p.targetIdx \in Nat \ {0} /\ k \in 1..Len(prev.projectiles)
      BY <2>0, <2>1, IdsAreNumbers
    <3>2. p.targetIdx \in 1..Len(next.enemies) /\ next.enemies[p.targetIdx].id = p.targetId
      BY <2>0, <3>1, WorldFields DEF TargetAlive
    <3> HIDE DEF p
    <3>3. PICK j \in 1..Len(prev.enemies) :
            p.targetIdx <= j /\ next.enemies[p.targetIdx].id = prev.enemies[j].id
      BY <1>1, <3>2 DEF IdsInv, Survivors, Moving
    <3>4. j <= p.targetIdx
      BY <1>1, <3>1, <3>2, <3>3 DEF IdsInv, Aimed, NotBehind, p
    <3>5. j = p.targetIdx /\ j <= Len(prev.enemies)
      BY <2>0, <3>1, <3>3, <3>4, WorldFields
    <3> QED BY <3>2, <3>3, <3>5 DEF TargetAlive, p
  <2> QED BY <2>2, <2>3 DEF TargetsNeverConfused
<1> QED BY <1>1, IdsInvariant, PTL

-----------------------------------------------------------------------------
(* The copy of the towers.                                                 *)

Cool(tower) == tower.sinceShot <= ShotInterval[tower.type]

CopyInv ==
    /\ phase \in Afterwards => Len(next.towers) >= Len(prev.towers)
    /\ phase # "warmup" =>
         \A i \in 1..Len(next.towers) :
           i <= Len(prev.towers) => SameTower(next.towers[i], prev.towers[i])
    /\ \A i \in 1..Len(prev.towers) : Cool(prev.towers[i])
    /\ \A i \in 1..Len(next.towers) : ~(phase = "firing" /\ i = cursor) => Cool(next.towers[i])

LEMMA CopyInitially == Init => CopyInv
<1>1. Len(<<>>) = 0
  BY EmptySeq
<1>2. QED
  BY <1>1 DEF Init, FreshWorld, CopyInv, Afterwards

(* The tower at the cursor is appended, cooled down or not.                *)
LEMMA CopyOne ==
    ASSUME TypeOK, CopyInv, SkipTower \/ AimTower
    PROVE  CopyInv'
<1>0. prev \in World /\ next \in World /\ cursor \in Nat \ {0} /\ next.towers \in Seq(Tower)
      /\ Len(prev.towers) \in Nat
  BY WorldFields DEF TypeOK
<1>1. /\ phase = "towers" /\ prev' = prev /\ cursor = Len(next.towers) + 1
      /\ cursor \in 1..Len(prev.towers)
  BY <1>0 DEF SkipTower, AimTower, TypeOK, IndicesOK
<1>2. prev.towers[cursor] \in Tower /\ Cool(prev.towers[cursor])
  BY <1>0, <1>1, WorldFields DEF CopyInv
<1>3. PICK new \in Tower :
        /\ SameTower(new, prev.towers[cursor])
        /\ next' = [next EXCEPT !.towers = Append(@, new)]
        /\ (phase' = "towers" /\ Cool(new)) \/ (phase' = "firing" /\ cursor' = cursor)
  <2>1. CASE SkipTower
    BY <1>1, <1>2, <2>1 DEF SkipTower, SameTower
  <2>2. CASE AimTower
    <3>1. prev.towers[cursor].sinceShot + FixedDelta \in Nat
      BY <1>2, MapAssumption DEF Tower
    <3> DEFINE warm == [prev.towers[cursor] EXCEPT !.sinceShot = @ + FixedDelta]
    <3>2. warm \in Tower /\ SameTower(warm, prev.towers[cursor])
      BY <1>2, <3>1 DEF Tower, SameTower
    <3>3. next' = [next EXCEPT !.towers = Append(@, warm)] /\ phase' = "firing" /\ cursor' = cursor
      BY <2>2 DEF AimTower
    <3> QED BY <3>2, <3>3
  <2> QED BY <2>1, <2>2
<1>4. next'.towers = Append(next.towers, new)
  BY <1>0, <1>3 DEF World
<1>5. /\ Len(next.towers) \in Nat /\ Len(next'.towers) = Len(next.towers) + 1
      /\ \A i \in 1..Len(next.towers) : next'.towers[i] = next.towers[i]
      /\ next'.towers[Len(next.towers) + 1] = new
  BY <1>0, <1>3, <1>4, AppendProperties, LenProperties
<1>6. \A i \in 1..Len(next'.towers) : SameTower(next'.towers[i], prev.towers[i])
  <2>1. \A i \in 1..Len(next.towers) : i <= Len(prev.towers)
    BY <1>0, <1>1, <1>5
  <2> QED BY <1>1, <1>3, <1>5, <2>1 DEF CopyInv
<1>7. \A i \in 1..Len(next'.towers) :
        ~(phase' = "firing" /\ i = cursor') => Cool(next'.towers[i])
  BY <1>1, <1>3, <1>5 DEF CopyInv
<1>8. QED
  BY <1>1, <1>3, <1>6, <1>7 DEF CopyInv, Afterwards

LEMMA CopyFired ==
    ASSUME TypeOK, CopyInv, FireShot
    PROVE  CopyInv'
<1> DEFINE tower == next.towers[cursor]
           cooler == [tower EXCEPT !.sinceShot = @ - ShotInterval[tower.type]]
<1>0. next \in World /\ next.towers \in Seq(Tower)
  BY WorldFields DEF TypeOK
<1>1. /\ phase = "firing" /\ phase' = "firing" /\ prev' = prev /\ cursor' = cursor
      /\ cursor \in 1..Len(next.towers)
  BY <1>0, WorldFields DEF FireShot, TypeOK, IndicesOK
<1>2. tower \in Tower
  BY <1>0, <1>1, WorldFields
<1>3. SameTower(cooler, tower)
  BY <1>2 DEF Tower, SameTower
<1>4. next'.towers = [next.towers EXCEPT ![cursor] = cooler]
  BY <1>0 DEF FireShot, World
<1> HIDE DEF tower, cooler
<1>5. /\ Len(next'.towers) = Len(next.towers)
      /\ \A i \in 1..Len(next.towers) :
           next'.towers[i] = IF i = cursor THEN cooler ELSE next.towers[i]
  BY <1>0, <1>4
<1>6. \A i \in 1..Len(next'.towers) : SameTower(next'.towers[i], next.towers[i])
  BY <1>3, <1>5 DEF SameTower, tower
<1>7. \A i \in 1..Len(next'.towers) :
        i <= Len(prev.towers) => SameTower(next'.towers[i], prev.towers[i])
  BY <1>1, <1>5, <1>6 DEF CopyInv, SameTower
<1>8. QED
  BY <1>1, <1>5, <1>7 DEF CopyInv, Afterwards

LEMMA CopyBuilt ==
    ASSUME TypeOK, CopyInv, ExecBuild
    PROVE  CopyInv'
<1> DEFINE c == commands[cursor]
           new == NewTower(next.nextObjectId, c.type, c.tile)
<1>0. next \in World /\ next.towers \in Seq(Tower) /\ next.nextObjectId \in Nat
      /\ prev \in World /\ Len(prev.towers) \in Nat
  BY WorldFields DEF TypeOK
<1>1. c \in Command
  BY ElementOfSeq, LenProperties DEF ExecBuild, NextCommand, TypeOK
<1>2. c.type \in TowerTypes /\ c.tile \in BuildableTiles
  BY <1>1 DEF ExecBuild, NextCommand, Command
<1>3. new \in Tower /\ Cool(new)
  BY <1>0, <1>2, MapAssumption DEF NewTower, Tower, Cool
<1>4. next' = [next EXCEPT !.gold = @ - Cost[c.type], !.towers = Append(@, new),
                           !.nextObjectId = @ + 1]
      /\ prev' = prev /\ phase = "commands" /\ phase' = "commands"
  BY DEF ExecBuild, NextCommand
<1> HIDE DEF new
<1>5. next'.towers = Append(next.towers, new)
  BY <1>0, <1>4 DEF World
<1>6. /\ Len(next.towers) \in Nat /\ Len(next'.towers) = Len(next.towers) + 1
      /\ \A i \in 1..Len(next.towers) : next'.towers[i] = next.towers[i]
      /\ next'.towers[Len(next.towers) + 1] = new
  BY <1>0, <1>3, <1>5, AppendProperties, LenProperties
<1>7. Len(next.towers) >= Len(prev.towers)
  BY <1>4 DEF CopyInv, Afterwards
<1>8. \A i \in 1..Len(next'.towers) :
        i <= Len(prev.towers) => SameTower(next'.towers[i], prev.towers[i])
  BY <1>0, <1>4, <1>6, <1>7 DEF CopyInv
<1>9. \A i \in 1..Len(next'.towers) : Cool(next'.towers[i])
  BY <1>3, <1>4, <1>6 DEF CopyInv
<1>10. \A i \in 1..Len(prev'.towers) : Cool(prev'.towers[i])
  BY <1>4 DEF CopyInv
<1>11. phase' # "firing" /\ Len(next'.towers) >= Len(prev'.towers)
  BY <1>0, <1>4, <1>6, <1>7
<1>12. \A i \in 1..Len(next'.towers) :
         i <= Len(prev'.towers) => SameTower(next'.towers[i], prev'.towers[i])
  BY <1>4, <1>8
<1> QED BY <1>9, <1>10, <1>11, <1>12 DEF CopyInv

LEMMA CopyStep ==
    ASSUME TypeOK, CopyInv, [Next]_vars
    PROVE  CopyInv'
<1>0. prev \in World /\ next \in World /\ Len(<<>>) = 0
      /\ Len(prev.towers) \in Nat /\ Len(next.towers) \in Nat
  BY EmptySeq, WorldFields DEF TypeOK
<1>1. CASE BeginTimeStep
  BY <1>0, <1>1 DEF BeginTimeStep, Recycled, CopyInv, Afterwards
<1>2. CASE SkipTower \/ AimTower
  BY <1>2, CopyOne
<1>3. CASE FireShot
  BY <1>3, CopyFired
<1>4. CASE ExecBuild
  BY <1>4, CopyBuilt
<1>5. CASE HoldFire
  <2>1. Cool(next.towers[cursor])
    BY <1>5 DEF HoldFire, Cool
  <2>2. UNCHANGED <<prev, next>> /\ phase = "firing" /\ phase' = "towers"
    BY <1>5 DEF HoldFire
  <2> QED BY <2>1, <2>2 DEF CopyInv, Afterwards
<1>6. CASE TowersDone
  <2>1. UNCHANGED <<prev, next>> /\ phase = "towers" /\ phase' = "projectiles"
    BY <1>6 DEF TowersDone
  <2>2. Len(next.towers) >= Len(prev.towers)
    BY <1>0, <1>6 DEF TowersDone, TypeOK, IndicesOK
  <2> QED BY <2>1, <2>2 DEF CopyInv
<1>7. CASE /\ prev' = prev /\ next'.towers = next.towers
           /\ phase' = "firing" => phase = "firing" /\ cursor' = cursor
           /\ phase = "firing" => phase' = "firing" /\ cursor' = cursor
           /\ phase' \in Afterwards => phase \in Afterwards
           /\ phase' # "warmup" => phase # "warmup"
  BY <1>7 DEF CopyInv
<1>8. CASE MoveEnemy \/ FlyProjectile \/ ExecSpawn \/ ExecDespawn \/ ExecAddGold
  <2>1. next'.towers = next.towers
    BY <1>0, <1>8 DEF MoveEnemy, FlyProjectile, ExecSpawn, ExecDespawn, ExecAddGold, World
  <2>2. /\ prev' = prev /\ phase' = phase /\ phase \in {"enemies", "projectiles", "commands"}
    BY <1>8 DEF MoveEnemy, FlyProjectile, ExecSpawn, ExecDespawn, ExecAddGold, NextCommand
  <2> QED BY <1>7, <2>1, <2>2
<1>9. CASE HitProjectile \/ SplashEnemy
  <2>1. next'.towers = next.towers
    BY <1>9, HitsKeepIds
  <2>2. prev' = prev /\ phase \in {"projectiles", "splash"} /\ phase' = "splash"
    BY <1>9 DEF HitProjectile, SplashEnemy
  <2> QED BY <1>7, <2>1, <2>2 DEF Afterwards
<1>10. CASE IssueCommand \/ Quit \/ RemoveEnemy \/ EnemiesDone \/ DropProjectile
              \/ ProjectileSpent \/ ProjectilesDone \/ RejectBuild \/ EndTimeStep
              \/ UNCHANGED vars
  BY <1>7, <1>10
     DEF IssueCommand, Quit, RemoveEnemy, EnemiesDone, DropProjectile, ProjectileSpent,
         ProjectilesDone, RejectBuild, NextCommand, EndTimeStep, vars, Afterwards
<1> QED
  BY <1>1, <1>2, <1>3, <1>4, <1>5, <1>6, <1>8, <1>9, <1>10
     DEF Next, InTimeStep, EnemyLoop, TowerLoop, ProjectileLoop, CommandLoop, Finished

LEMMA CopyInvariant == Spec => []CopyInv
<1>1. TypeOK /\ CopyInv /\ [Next]_vars => CopyInv'
  BY CopyStep
<1> QED BY <1>1, CopyInitially, TypeCorrect, PTL DEF Spec

(* No early exit of the tower loop loses, moves or swaps a tower, and none *)
(* is left with a shot it should have fired.                               *)
THEOREM NoTowerIsLost == Spec => []TowersKept
<1>1. CopyInv => TowersKept
  BY DEF CopyInv, TowersKept, Cool
<1> QED BY <1>1, CopyInvariant, PTL

-----------------------------------------------------------------------------
(* The passage of the enemies from one buffer to the other.                *)

(* Nobody in the new list has come out of nowhere, and of those the loop   *)
(* has passed, exactly the dead and those at the goal are missing.         *)
Missing(enemy, list) == ~\E j \in 1..Len(list) : list[j].id = enemy.id

PassageInv ==
    phase \in Moving =>
      /\ \A j \in 1..Len(next.enemies) : \E i \in 1..Len(prev.enemies) :
           /\ next.enemies[j].id = prev.enemies[i].id
           /\ Continues(next.enemies[j], prev.enemies[i])
      /\ \A i \in 1..Len(prev.enemies) :
           (phase = "enemies" => i < cursor)
             => (Leaves(prev.enemies[i]) <=> Missing(prev.enemies[i], next.enemies))

(* Those already moved are older than the one the loop is at.              *)
LEMMA MovedAreOlder ==
    ASSUME TypeOK, IdsInv, phase = "enemies", cursor \in 1..Len(prev.enemies)
    PROVE  /\ \A j \in 1..Len(next.enemies) : next.enemies[j].id < prev.enemies[cursor].id
           /\ \A i \in 1..Len(prev.enemies) :
                i < cursor => prev.enemies[i].id # prev.enemies[cursor].id
<1>0. prev \in World /\ next \in World
  BY DEF TypeOK
<1>1. ASSUME NEW j \in 1..Len(next.enemies)
      PROVE  next.enemies[j].id < prev.enemies[cursor].id
  <2>1. PICK k \in 1..Len(prev.enemies) : k < cursor /\ next.enemies[j].id = prev.enemies[k].id
    BY DEF IdsInv, Survivors, Moving
  <2> QED BY <2>1 DEF IdsInv, FreshIds, Increasing
<1>2. \A i \in 1..Len(prev.enemies) : i < cursor => prev.enemies[i].id < prev.enemies[cursor].id
  BY DEF IdsInv, FreshIds, Increasing
<1>3. QED
  BY <1>0, <1>1, <1>2, IdsAreNumbers

LEMMA PassageMoved ==
    ASSUME TypeOK, IdsInv, PassageInv, MoveEnemy
    PROVE  PassageInv'
<1> DEFINE old == prev.enemies[cursor]
<1>0. prev \in World /\ next \in World /\ cursor \in Nat \ {0} /\ next.enemies \in Seq(Enemy)
  BY WorldFields DEF TypeOK
<1>1. cursor \in 1..Len(prev.enemies) /\ ~Leaves(old)
  BY <1>0, WorldFields DEF MoveEnemy
<1>2. old \in Enemy
  BY <1>0, <1>1, WorldFields
<1>3. PICK pos \in Positions, nearWaypoint \in BOOLEAN :
        /\ old.pos = "nan" => pos = "nan"
        /\ next' = [next EXCEPT !.enemies = Append(@,
                     [old EXCEPT !.pos = pos, !.waypoint = IF nearWaypoint THEN @ + 1 ELSE @])]
  BY DEF MoveEnemy, WithEnemy
<1> DEFINE new == [old EXCEPT !.pos = pos, !.waypoint = IF nearWaypoint THEN @ + 1 ELSE @]
<1>4. old.waypoint + 1 \in Nat /\ old.waypoint \in Nat /\ old.health \in Nat
  BY <1>2 DEF Enemy
<1>5. new \in Enemy /\ new.id = old.id /\ Continues(new, old)
  <2>1. new \in Enemy
    BY <1>2, <1>4 DEF Enemy
  <2>2. /\ new.id = old.id /\ new.type = old.type /\ new.health = old.health /\ new.pos = pos
        /\ new.waypoint = IF nearWaypoint THEN old.waypoint + 1 ELSE old.waypoint
    BY <1>2 DEF Enemy
  <2> HIDE DEF new, old
  <2> QED BY <1>3, <1>4, <2>1, <2>2 DEF Continues
<1>6. next'.enemies = Append(next.enemies, new)
  BY <1>0, <1>3 DEF World
<1>7. /\ phase = "enemies" /\ phase' = "enemies" /\ cursor' = cursor + 1 /\ prev' = prev
  BY DEF MoveEnemy
<1> HIDE DEF new, old
<1>8. /\ Len(next.enemies) \in Nat /\ Len(next'.enemies) = Len(next.enemies) + 1
      /\ \A i \in 1..Len(next.enemies) : next'.enemies[i] = next.enemies[i]
      /\ next'.enemies[Len(next.enemies) + 1] = new
  BY <1>0, <1>5, <1>6, AppendProperties, LenProperties
<1>9. ASSUME NEW j \in 1..Len(next'.enemies)
      PROVE  \E i \in 1..Len(prev.enemies) :
               /\ next'.enemies[j].id = prev.enemies[i].id
               /\ Continues(next'.enemies[j], prev.enemies[i])
  <2>1. CASE j \in 1..Len(next.enemies)
    BY <1>7, <1>8, <2>1 DEF PassageInv, Moving
  <2>2. CASE j = Len(next.enemies) + 1
    BY <1>1, <1>5, <1>8, <2>2 DEF old
  <2> QED BY <1>8, <2>1, <2>2
<1>10. ASSUME NEW i \in 1..Len(prev.enemies), i < cursor + 1
       PROVE  Leaves(prev.enemies[i]) <=> Missing(prev.enemies[i], next'.enemies)
  <2>1. CASE i = cursor
    <3>1. Len(next.enemies) + 1 \in 1..Len(next'.enemies)
      BY <1>8
    <3>2. ~Missing(prev.enemies[cursor], next'.enemies)
      BY <1>5, <1>8, <3>1 DEF Missing, old
    <3> QED BY <1>1, <2>1, <3>2 DEF old
  <2>2. CASE i # cursor
    <3>1. i < cursor
      BY <1>0, <1>10, <2>2
    <3>2. prev.enemies[i].id # new.id
      BY <1>1, <1>5, <1>7, <3>1, MovedAreOlder DEF old
    <3>3. Missing(prev.enemies[i], next'.enemies) <=> Missing(prev.enemies[i], next.enemies)
      <4>1. \A j : j \in 1..Len(next'.enemies)
                     <=> j \in 1..Len(next.enemies) \/ j = Len(next.enemies) + 1
        BY <1>8
      <4>2. \A j \in 1..Len(next'.enemies) :
              next'.enemies[j].id = prev.enemies[i].id => j \in 1..Len(next.enemies)
        BY <1>8, <3>2, <4>1
      <4> QED BY <1>8, <4>1, <4>2 DEF Missing
    <3> QED BY <1>7, <3>1, <3>3 DEF PassageInv, Moving
  <2> QED BY <2>1, <2>2
<1>11. QED
  BY <1>7, <1>9, <1>10 DEF PassageInv

LEMMA PassageHit ==
    ASSUME TypeOK, PassageInv, NEW type \in TowerTypes, NEW n \in 1..Len(next.enemies),
           ApplyDamage(n, Damage[type]), prev' = prev,
           phase \in {"projectiles", "splash"}, phase' = "splash"
    PROVE  PassageInv'
<1>0. /\ prev \in World /\ next \in World /\ next.enemies \in Seq(Enemy)
      /\ next.enemies[n] \in Enemy /\ Damage[type] \in Nat
  BY WorldFields, MapAssumption DEF TypeOK
<1>1. SameIds(next'.enemies, next.enemies)
  BY DamageKeepsIds
<1> DEFINE hurt == Wounded(next.enemies[n], Damage[type])
<1>2. hurt.type = next.enemies[n].type /\ hurt.waypoint = next.enemies[n].waypoint
      /\ hurt.pos = next.enemies[n].pos
  <2>1. CASE Dies(next.enemies[n], Damage[type])
    BY <1>0, <2>1 DEF Wounded, Enemy
  <2>2. CASE ~Dies(next.enemies[n], Damage[type])
    BY <1>0, <2>2 DEF Wounded, Enemy
  <2> QED BY <2>1, <2>2
<1>3. hurt.health \in Nat /\ hurt.health <= next.enemies[n].health
  <2>1. next.enemies[n].health \in Nat
    BY <1>0 DEF Enemy
  <2>2. CASE Dies(next.enemies[n], Damage[type])
    <3>1. hurt.health = 0
      BY <1>0, <2>2 DEF Wounded, Enemy
    <3> QED BY <2>1, <3>1
  <2>3. CASE ~Dies(next.enemies[n], Damage[type])
    <3>1. hurt.health = next.enemies[n].health - Damage[type]
      BY <1>0, <2>3 DEF Wounded, Enemy
    <3> QED BY <1>0, <2>1, <2>3, <3>1 DEF Dies
  <2> QED BY <2>2, <2>3
<1>4. next'.enemies[n] = hurt
      /\ \A j \in 1..Len(next.enemies) : j # n => next'.enemies[j] = next.enemies[j]
  <2>1. next'.enemies = [next.enemies EXCEPT ![n] = hurt]
    BY DamageTypes
  <2>2. \A j \in 1..Len(next.enemies) : j # n => next'.enemies[j] = next.enemies[j]
    BY DamageKeepsIds
  <2> HIDE DEF hurt
  <2> QED BY <1>0, <2>1, <2>2
<1> HIDE DEF hurt
<1>5. ASSUME NEW j \in 1..Len(next'.enemies)
      PROVE  \E i \in 1..Len(prev.enemies) :
               /\ next'.enemies[j].id = prev.enemies[i].id
               /\ Continues(next'.enemies[j], prev.enemies[i])
  <2>1. j \in 1..Len(next.enemies) /\ next'.enemies[j].id = next.enemies[j].id
    BY <1>1 DEF SameIds
  <2>2. PICK i \in 1..Len(prev.enemies) :
          /\ next.enemies[j].id = prev.enemies[i].id
          /\ Continues(next.enemies[j], prev.enemies[i])
    BY <2>1 DEF PassageInv, Moving
  <2>3. prev.enemies[i].health \in Nat /\ next.enemies[n].health \in Nat
    <3>1. prev.enemies[i] \in Enemy
      BY <1>0, WorldFields
    <3> QED BY <1>0, <3>1 DEF Enemy
  <2>4. CASE j = n
    <3>1. hurt.health <= prev.enemies[i].health
      BY <1>3, <2>2, <2>3, <2>4 DEF Continues
    <3> QED BY <1>2, <1>4, <2>1, <2>2, <2>4, <3>1 DEF Continues
  <2>5. CASE j # n
    BY <1>4, <2>1, <2>2, <2>5
  <2> QED BY <2>4, <2>5
<1>6. \A e \in Enemy : Missing(e, next'.enemies) <=> Missing(e, next.enemies)
  BY <1>1 DEF Missing, SameIds
<1>7. \A i \in 1..Len(prev.enemies) : prev.enemies[i] \in Enemy
  BY <1>0, WorldFields
<1>8. QED
  BY <1>5, <1>6, <1>7 DEF PassageInv, Moving

LEMMA PassageUntouched ==
    ASSUME PassageInv, prev' = prev, next'.enemies = next.enemies,
           phase' \in Moving => phase \in Moving, phase # "enemies", phase' # "enemies"
    PROVE  PassageInv'
BY DEF PassageInv

LEMMA PassageStep ==
    ASSUME TypeOK, IdsInv, PassageInv, [Next]_vars
    PROVE  PassageInv'
<1>0. prev \in World /\ next \in World /\ Len(<<>>) = 0 /\ cursor \in Nat \ {0}
      /\ Len(prev.enemies) \in Nat
  BY EmptySeq, WorldFields DEF TypeOK
<1>1. CASE BeginTimeStep
  BY <1>0, <1>1 DEF BeginTimeStep, Recycled, PassageInv
<1>2. CASE MoveEnemy
  BY <1>2, PassageMoved
<1>3. CASE RemoveEnemy
  <2>1. /\ phase = "enemies" /\ phase' = "enemies" /\ cursor' = cursor + 1
        /\ UNCHANGED <<prev, next>> /\ cursor \in 1..Len(prev.enemies)
        /\ Leaves(prev.enemies[cursor])
    BY <1>0, <1>3 DEF RemoveEnemy
  <2>2. Missing(prev.enemies[cursor], next.enemies)
    BY <1>0, <2>1, MovedAreOlder, IdsAreNumbers DEF Missing
  <2>3. \A i \in 1..Len(prev.enemies) : i < cursor + 1 => i < cursor \/ i = cursor
    BY <1>0
  <2> QED BY <2>1, <2>2, <2>3 DEF PassageInv, Moving
<1>4. CASE EnemiesDone
  <2>1. /\ phase = "enemies" /\ phase' = "towers" /\ UNCHANGED <<prev, next>>
        /\ cursor > Len(prev.enemies)
    BY <1>4 DEF EnemiesDone
  <2>2. \A i \in 1..Len(prev.enemies) : i < cursor
    BY <1>0, <2>1
  <2> QED BY <2>1, <2>2 DEF PassageInv, Moving
<1>5. CASE HitProjectile
  <2> DEFINE p == prev.projectiles[cursor]
  <2>1. p \in Projectile
    BY <1>0, <1>5, WorldFields DEF HitProjectile, TypeOK
  <2>2. p.targetIdx \in Nat \ {0} /\ p.type \in TowerTypes
    BY <2>1 DEF Projectile
  <2>3. p.targetIdx \in 1..Len(next.enemies)
    BY <1>0, <1>5, <2>2, WorldFields DEF HitProjectile
  <2>4. phase = "projectiles" /\ phase' = "splash" /\ prev' = prev
    BY <1>5 DEF HitProjectile
  <2>5. CASE TargetAlive(next.enemies, p)
    BY <1>5, <2>2, <2>3, <2>4, <2>5, PassageHit DEF HitProjectile
  <2>6. CASE ~TargetAlive(next.enemies, p)
    BY <1>5, <2>4, <2>6, PassageUntouched DEF HitProjectile, Moving
  <2> QED BY <2>5, <2>6
<1>6. CASE SplashEnemy
  <2>1. prev.projectiles[cursor] \in Projectile
    BY <1>0, <1>6, WorldFields DEF SplashEnemy, TypeOK, IndicesOK
  <2>2. prev.projectiles[cursor].type \in TowerTypes
    BY <2>1 DEF Projectile
  <2>3. splash \subseteq 1..Len(next.enemies)
    BY DEF TypeOK, IndicesOK
  <2> QED BY <1>6, <2>2, <2>3, PassageHit DEF SplashEnemy
<1>7. CASE TowerLoop \/ FlyProjectile
  <2>1. prev' = prev /\ next'.enemies = next.enemies
    BY <1>0, <1>7 DEF TowerLoop, SkipTower, AimTower, FireShot, HoldFire, TowersDone,
                      FlyProjectile, World
  <2>2. phase \in Moving \ {"enemies"} /\ phase' # "enemies"
    BY <1>7 DEF TowerLoop, SkipTower, AimTower, FireShot, HoldFire, TowersDone,
                FlyProjectile, Moving
  <2> QED BY <2>1, <2>2, PassageUntouched
<1>8. CASE DropProjectile \/ ProjectileSpent \/ ProjectilesDone
  BY <1>8, PassageUntouched DEF DropProjectile, ProjectileSpent, ProjectilesDone, Moving
<1>9. CASE CommandLoop \/ IssueCommand \/ Quit
  BY <1>9 DEF CommandLoop, ExecSpawn, ExecDespawn, ExecAddGold, ExecBuild, RejectBuild,
              NextCommand, EndTimeStep, IssueCommand, Quit, PassageInv, Moving
<1>10. CASE UNCHANGED vars
  BY <1>10 DEF vars, PassageInv
<1> QED
  BY <1>1, <1>2, <1>3, <1>4, <1>5, <1>6, <1>7, <1>8, <1>9, <1>10
     DEF Next, InTimeStep, EnemyLoop, ProjectileLoop, Finished

(* The double buffer loses nobody and invents nobody: between the enemy    *)
(* loop and the commands the new list holds exactly those who stay.        *)
THEOREM NobodyIsLost == Spec => []NobodyVanishes
<1>1. Init => PassageInv
  BY DEF Init, PassageInv, Moving
<1>2. TypeOK /\ IdsInv /\ PassageInv /\ [Next]_vars => PassageInv'
  BY PassageStep
<1>3. PassageInv => NobodyVanishes
  BY DEF PassageInv, NobodyVanishes, Moving, Missing
<1> QED BY <1>1, <1>2, <1>3, IdsInvariant, PTL DEF Spec

-----------------------------------------------------------------------------
(* The purse.                                                              *)

(* Before the first step there is nothing on either map.                   *)
WarmUp == phase = "warmup" => next.towers = <<>> /\ prev.towers = <<>>

LEMMA WarmUpInvariant == Spec => []WarmUp
<1>1. Init => WarmUp
  BY DEF Init, FreshWorld, WarmUp
<1>2. WarmUp /\ [Next]_vars => WarmUp'
  <2> SUFFICES ASSUME WarmUp, [Next]_vars PROVE WarmUp'
    OBVIOUS
  <2>1. CASE UNCHANGED vars
    BY <2>1 DEF WarmUp, vars
  <2>2. CASE phase' # "warmup"
    BY <2>2 DEF WarmUp
  <2>3. CASE Next
    BY <2>1, <2>2, <2>3
       DEF Next, InTimeStep, EnemyLoop, TowerLoop, ProjectileLoop, CommandLoop, Finished,
           IssueCommand, BeginTimeStep, Quit, RemoveEnemy, MoveEnemy, EnemiesDone, SkipTower,
           AimTower, FireShot, HoldFire, TowersDone, DropProjectile, FlyProjectile,
           HitProjectile, SplashEnemy, ProjectileSpent, ProjectilesDone, ExecSpawn,
           ExecDespawn, ExecAddGold, ExecBuild, RejectBuild, NextCommand, EndTimeStep
  <2> QED BY <2>1, <2>3
<1> QED BY <1>1, <1>2, PTL DEF Spec

Prices(list) == [i \in 1..Len(list) |-> Cost[list[i].type]]

LEMMA PricesAreNumbers ==
    ASSUME NEW list \in Seq(Tower)
    PROVE  /\ Len(list) \in Nat /\ IsFiniteSet(1..Len(list))
           /\ Prices(list) \in Numbers(1..Len(list))
           /\ Price(list) \in Nat
<1>1. Len(list) \in Nat /\ IsFiniteSet(1..Len(list))
  BY LenProperties, FS_Interval
<1>2. \A i \in 1..Len(list) : Cost[list[i].type] \in Nat
  <2>1. \A i \in 1..Len(list) : list[i] \in Tower
    BY ElementOfSeq
  <2>2. \A t \in Tower : Cost[t.type] \in Nat
    BY MapAssumption DEF Tower
  <2> QED BY <2>1, <2>2
<1>3. Prices(list) \in Numbers(1..Len(list))
  BY <1>2 DEF Prices, Numbers
<1>4. Total(Prices(list)) \in Nat
  BY <1>1, <1>3, TotalIsNumber
<1> QED BY <1>1, <1>3, <1>4 DEF Price, Prices

(* A price depends on the types of the towers alone.                       *)
LEMMA SamePrice ==
    ASSUME NEW list, NEW other, Len(list) = Len(other),
           \A i \in 1..Len(list) : list[i].type = other[i].type
    PROVE  Price(list) = Price(other)
BY DEF Price

LEMMA PriceOfNothing == Price(<<>>) = 0
<1>1. Len(<<>>) = 0 /\ 1..0 = {}
  BY EmptySeq
<1>2. Prices(<<>>) \in Numbers({})
  BY <1>1 DEF Prices, Numbers
<1> QED BY <1>2, TotalOfNothing DEF Price, Prices

LEMMA PriceWithOneMore ==
    ASSUME NEW list \in Seq(Tower), NEW tower \in Tower
    PROVE  Price(Append(list, tower)) = Price(list) + Cost[tower.type]
<1> DEFINE longer == Append(list, tower)
           n == Len(list)
<1>1. /\ longer \in Seq(Tower) /\ n \in Nat /\ Len(longer) = n + 1
      /\ \A i \in 1..n : longer[i] = list[i]
      /\ longer[n + 1] = tower
  BY AppendProperties, LenProperties
<1> HIDE DEF longer
<1>2. Prices(list) \in Numbers(1..n)
  BY PricesAreNumbers
<1>3. Prices(longer) \in Numbers(1..n + 1)
  BY <1>1, PricesAreNumbers
<1>4. \A i \in 1..n : Prices(longer)[i] = Prices(list)[i]
  BY <1>1 DEF Prices
<1>5. Prices(longer)[n + 1] = Cost[tower.type]
  BY <1>1 DEF Prices
<1>6. Total(Prices(longer)) = Total(Prices(list)) + Prices(longer)[n + 1]
  BY <1>1, <1>2, <1>3, <1>4, TotalOfLonger
<1> QED BY <1>5, <1>6 DEF Price, Prices, longer

(* The towers on the map: those of the old buffer until all are copied.    *)
TowersOnMap == IF phase \in Afterwards THEN next.towers ELSE prev.towers

LEMMA TowersOnMapType == TypeOK => TowersOnMap \in Seq(Tower) /\ Price(TowersOnMap) \in Nat
<1> SUFFICES ASSUME TypeOK PROVE TowersOnMap \in Seq(Tower) /\ Price(TowersOnMap) \in Nat
  OBVIOUS
<1>1. TowersOnMap \in Seq(Tower)
  BY WorldFields DEF TypeOK, TowersOnMap
<1> QED BY <1>1, PricesAreNumbers

LEMMA LedgerInitially == Init => GoldLedger
BY PriceOfNothing, MapAssumption DEF Init, FreshWorld, GoldLedger, Afterwards

(* As long as neither the gold, nor what was credited, nor the price of    *)
(* the towers changes.                                                     *)
LEMMA LedgerKept ==
    ASSUME GoldLedger, next'.gold = next.gold, income' = income,
           Price(TowersOnMap') = Price(TowersOnMap)
    PROVE  GoldLedger'
BY DEF GoldLedger, TowersOnMap

(* What is credited is entered.                                            *)
LEMMA LedgerCredited ==
    ASSUME TypeOK, GoldLedger, NEW amount \in Nat,
           next'.gold = next.gold + amount, income' = income + amount,
           Price(TowersOnMap') = Price(TowersOnMap)
    PROVE  GoldLedger'
<1>1. next.gold \in Int /\ income \in Nat /\ Price(TowersOnMap) \in Nat /\ StartingGold \in Nat
  BY WorldFields, TowersOnMapType, MapAssumption DEF TypeOK
<1>2. next.gold = StartingGold + income - Price(TowersOnMap) /\ next.gold >= 0
  BY DEF GoldLedger, TowersOnMap
<1>3. next'.gold = StartingGold + income' - Price(TowersOnMap') /\ next'.gold >= 0
  BY <1>1, <1>2
<1> QED BY <1>3 DEF GoldLedger, TowersOnMap

LEMMA LedgerDamaged ==
    ASSUME TypeOK, GoldLedger, phase \in Afterwards, phase' \in Afterwards,
           NEW type \in TowerTypes, NEW i \in 1..Len(next.enemies),
           ApplyDamage(i, Damage[type])
    PROVE  GoldLedger'
<1> DEFINE enemy == next.enemies[i]
           reward == IF Dies(enemy, Damage[type]) THEN GoldReward[enemy.type] ELSE 0
<1>1. next \in World /\ enemy \in Enemy
  BY WorldFields DEF TypeOK
<1>2. reward \in Nat
  BY <1>1, MapAssumption DEF Enemy
<1>3. income' = income + reward
  BY DEF ApplyDamage
<1>4. next'.gold = next.gold + reward
  BY <1>1 DEF ApplyDamage, World
<1>5. next'.towers = next.towers
  BY DamageKeepsIds
<1> HIDE DEF reward
<1>6. TowersOnMap' = TowersOnMap
  BY <1>5 DEF TowersOnMap
<1> QED BY <1>2, <1>3, <1>4, <1>6, LedgerCredited

(* A tower is paid for with gold the player has.                           *)
LEMMA LedgerBuilt ==
    ASSUME TypeOK, GoldLedger, ExecBuild
    PROVE  GoldLedger'
<1> DEFINE c == commands[cursor]
           new == NewTower(next.nextObjectId, c.type, c.tile)
<1>0. next \in World /\ next.towers \in Seq(Tower) /\ next.nextObjectId \in Nat
  BY WorldFields DEF TypeOK
<1>1. c \in Command
  BY ElementOfSeq, LenProperties DEF ExecBuild, NextCommand, TypeOK
<1>2. c.type \in TowerTypes /\ c.tile \in BuildableTiles
  BY <1>1 DEF ExecBuild, NextCommand, Command
<1>3. new \in Tower /\ new.type = c.type
  BY <1>0, <1>2 DEF NewTower, Tower
<1>4. /\ next' = [next EXCEPT !.gold = @ - Cost[c.type], !.towers = Append(@, new),
                              !.nextObjectId = @ + 1]
      /\ next.gold >= Cost[c.type]
      /\ phase = "commands" /\ phase' = "commands" /\ income' = income
  BY DEF ExecBuild, NextCommand
<1> HIDE DEF new, c
<1>5. next'.towers = Append(next.towers, new) /\ next'.gold = next.gold - Cost[c.type]
  BY <1>0, <1>4 DEF World
<1>6. Price(next'.towers) = Price(next.towers) + Cost[c.type]
  BY <1>0, <1>3, <1>5, PriceWithOneMore
<1>7. /\ Price(next.towers) \in Nat /\ Cost[c.type] \in Nat /\ next.gold \in Int
      /\ income \in Nat /\ StartingGold \in Nat
  BY <1>0, <1>2, PricesAreNumbers, WorldFields, MapAssumption DEF TypeOK
<1>8. next.gold = StartingGold + income - Price(next.towers)
  BY <1>4 DEF GoldLedger, Afterwards
<1>9. next'.gold = StartingGold + income' - Price(next'.towers) /\ next'.gold >= 0
  BY <1>4, <1>5, <1>6, <1>7, <1>8
<1> QED BY <1>4, <1>9 DEF GoldLedger, Afterwards

LEMMA LedgerStep ==
    ASSUME TypeOK, IdsInv, CopyInv, WarmUp, GoldLedger, [Next]_vars
    PROVE  GoldLedger'
<1>0. /\ prev \in World /\ next \in World /\ cursor \in Nat \ {0}
      /\ Len(prev.towers) \in Nat /\ Len(next.towers) \in Nat
  BY WorldFields DEF TypeOK
<1>1. CASE BeginTimeStep
  <2>1. /\ phase \in {"warmup", "idle"} /\ phase' = "enemies" /\ prev' = next
        /\ next' = Recycled(next) /\ income' = income
    BY <1>1 DEF BeginTimeStep
  <2>2. next'.gold = next.gold
    BY <2>1 DEF Recycled
  <2>3. TowersOnMap' = TowersOnMap
    BY <2>1 DEF TowersOnMap, Afterwards, WarmUp
  <2> QED BY <2>1, <2>2, <2>3, LedgerKept
<1>2. CASE TowersDone
  <2>1. /\ phase = "towers" /\ phase' = "projectiles" /\ UNCHANGED <<prev, next, income>>
        /\ cursor > Len(prev.towers) /\ cursor = Len(next.towers) + 1
    BY <1>2 DEF TowersDone, TypeOK, IndicesOK
  <2>2. Len(next.towers) = Len(prev.towers)
    <3>1. Len(next.towers) # 0 => Len(next.towers) \in 1..Len(next.towers)
      BY <1>0
    <3>2. Len(next.towers) # 0 => Len(next.towers) <= Len(prev.towers)
      BY <2>1, <3>1 DEF IdsInv, TowersInPlace
    <3> QED BY <1>0, <2>1, <3>2
  <2>3. \A i \in 1..Len(next.towers) : next.towers[i].type = prev.towers[i].type
    <3>1. \A i \in 1..Len(next.towers) : i <= Len(prev.towers)
      BY <1>0, <2>2
    <3> QED BY <2>1, <3>1 DEF CopyInv, SameTower
  <2>4. Price(next.towers) = Price(prev.towers)
    BY <2>2, <2>3, SamePrice
  <2>5. TowersOnMap = prev.towers /\ TowersOnMap' = next.towers
    BY <2>1 DEF TowersOnMap, Afterwards
  <2>6. next'.gold = next.gold
    BY <2>1
  <2> QED BY <2>1, <2>4, <2>5, <2>6, LedgerKept
<1>3. CASE MoveEnemy \/ SkipTower \/ AimTower \/ FireShot
  <2>1. next'.gold = next.gold
    BY <1>0, <1>3 DEF MoveEnemy, SkipTower, AimTower, FireShot, World
  <2>2. phase \notin Afterwards /\ phase' \notin Afterwards /\ prev' = prev /\ income' = income
    BY <1>3 DEF MoveEnemy, SkipTower, AimTower, FireShot, Afterwards
  <2>3. TowersOnMap' = TowersOnMap
    BY <2>2 DEF TowersOnMap
  <2> QED BY <2>1, <2>2, <2>3, LedgerKept
<1>4. CASE FlyProjectile \/ ExecSpawn \/ ExecDespawn
  <2>1. next'.gold = next.gold /\ next'.towers = next.towers
    BY <1>0, <1>4 DEF FlyProjectile, ExecSpawn, ExecDespawn, World
  <2>2. phase \in Afterwards /\ phase' \in Afterwards /\ income' = income
    BY <1>4 DEF FlyProjectile, ExecSpawn, ExecDespawn, NextCommand, Afterwards
  <2>3. TowersOnMap' = TowersOnMap
    BY <2>1, <2>2 DEF TowersOnMap
  <2> QED BY <2>1, <2>2, <2>3, LedgerKept
<1>5. CASE HitProjectile
  <2> DEFINE p == prev.projectiles[cursor]
  <2>1. p \in Projectile
    BY <1>0, <1>5, WorldFields DEF HitProjectile
  <2>2. p.targetIdx \in Nat \ {0} /\ p.type \in TowerTypes
    BY <2>1 DEF Projectile
  <2>3. p.targetIdx \in 1..Len(next.enemies) /\ phase \in Afterwards /\ phase' \in Afterwards
    BY <1>0, <1>5, <2>2, WorldFields DEF HitProjectile, Afterwards
  <2>4. CASE TargetAlive(next.enemies, p)
    BY <1>5, <2>2, <2>3, <2>4, LedgerDamaged DEF HitProjectile
  <2>5. CASE ~TargetAlive(next.enemies, p)
    <3>1. next' = next /\ income' = income
      BY <1>5, <2>5 DEF HitProjectile
    <3>2. TowersOnMap' = TowersOnMap
      BY <2>3, <3>1 DEF TowersOnMap
    <3> QED BY <3>1, <3>2, LedgerKept
  <2> QED BY <2>4, <2>5
<1>6. CASE SplashEnemy
  <2>1. prev.projectiles[cursor] \in Projectile
    BY <1>0, <1>6, WorldFields DEF SplashEnemy, TypeOK, IndicesOK
  <2>2. prev.projectiles[cursor].type \in TowerTypes /\ splash \subseteq 1..Len(next.enemies)
    BY <2>1 DEF Projectile, TypeOK, IndicesOK
  <2>3. phase \in Afterwards /\ phase' \in Afterwards
    BY <1>6 DEF SplashEnemy, Afterwards
  <2> QED BY <1>6, <2>2, <2>3, LedgerDamaged DEF SplashEnemy
<1>7. CASE ExecAddGold
  <2>1. commands[cursor] \in Command
    BY <1>7, ElementOfSeq, LenProperties DEF ExecAddGold, NextCommand, TypeOK
  <2>2. commands[cursor].amount \in Nat
    BY <1>7, <2>1, MapAssumption DEF ExecAddGold, NextCommand, Command
  <2>3. next'.gold = next.gold + commands[cursor].amount /\ next'.towers = next.towers
    BY <1>0, <1>7 DEF ExecAddGold, World
  <2>4. income' = income + commands[cursor].amount /\ phase \in Afterwards /\ phase' = phase
    BY <1>7 DEF ExecAddGold, NextCommand, Afterwards
  <2>5. TowersOnMap' = TowersOnMap
    BY <2>3, <2>4 DEF TowersOnMap
  <2> QED BY <2>2, <2>3, <2>4, <2>5, LedgerCredited
<1>8. CASE ExecBuild
  BY <1>8, LedgerBuilt
<1>9. CASE IssueCommand \/ Quit \/ RemoveEnemy \/ EnemiesDone \/ HoldFire \/ DropProjectile
              \/ ProjectileSpent \/ ProjectilesDone \/ RejectBuild \/ EndTimeStep
              \/ UNCHANGED vars
  <2>1. UNCHANGED <<prev, next, income>> /\ (phase' \in Afterwards <=> phase \in Afterwards)
    BY <1>9
       DEF IssueCommand, Quit, RemoveEnemy, EnemiesDone, HoldFire, DropProjectile,
           ProjectileSpent, ProjectilesDone, RejectBuild, NextCommand, EndTimeStep, vars,
           Afterwards
  <2>2. TowersOnMap' = TowersOnMap
    BY <2>1 DEF TowersOnMap
  <2> QED BY <2>1, <2>2, LedgerKept
<1> QED
  BY <1>1, <1>2, <1>3, <1>4, <1>5, <1>6, <1>7, <1>8, <1>9
     DEF Next, InTimeStep, EnemyLoop, TowerLoop, ProjectileLoop, CommandLoop, Finished

(* The player's gold is accounted for to the last coin: the starting gold, *)
(* what was credited, less the price of every tower on the map; it is      *)
(* never negative, whatever the prices, rewards and commands.              *)
THEOREM GoldAccountedFor == Spec => []GoldLedger
<1>1. TypeOK /\ IdsInv /\ CopyInv /\ WarmUp /\ GoldLedger /\ [Next]_vars => GoldLedger'
  BY LedgerStep
<1> QED
  BY <1>1, LedgerInitially, IdsInvariant, CopyInvariant, WarmUpInvariant, PTL DEF Spec

-----------------------------------------------------------------------------
(* The events.                                                             *)

Count(list, kind) == Cardinality({i \in 1..Len(list) : list[i] = kind})

LEMMA CountOfNothing == \A kind : Count(<<>>, kind) = 0
<1>1. Len(<<>>) = 0
  BY EmptySeq
<1>2. \A kind : {i \in 1..0 : <<>>[i] = kind} = {}
  OBVIOUS
<1>3. Cardinality({}) = 0
  BY FS_EmptySet
<1> QED BY <1>1, <1>2, <1>3 DEF Count

LEMMA CountWithOneMore ==
    ASSUME NEW list \in Seq(EventKinds), NEW k \in EventKinds, NEW kind
    PROVE  /\ Count(list, kind) \in Nat
           /\ Count(Append(list, k), kind) = Count(list, kind) + IF k = kind THEN 1 ELSE 0
<1> DEFINE n == Len(list)
           longer == Append(list, k)
           old == {i \in 1..n : list[i] = kind}
           new == {i \in 1..Len(longer) : longer[i] = kind}
<1>1. n \in Nat /\ Len(longer) = n + 1 /\ longer[n + 1] = k
      /\ \A i \in 1..n : longer[i] = list[i]
  BY AppendProperties, LenProperties
<1>2. /\ Cardinality(old) \in Nat
      /\ Cardinality(old \cup {n + 1}) = Cardinality(old) + 1
  <2>1. old \subseteq 1..n
    OBVIOUS
  <2> HIDE DEF old
  <2> QED BY <1>1, <2>1, CountOfLonger
<1>3. new = IF k = kind THEN old \cup {n + 1} ELSE old
  <2> HIDE DEF longer
  <2>1. \A i : i \in 1..Len(longer) <=> i \in 1..n \/ i = n + 1
    BY <1>1
  <2> QED BY <1>1, <2>1
<1> HIDE DEF old, new
<1>4. Cardinality(new) = Cardinality(old) + IF k = kind THEN 1 ELSE 0
  BY <1>2, <1>3
<1> QED BY <1>2, <1>4 DEF Count, old, new

BountiesOf(list) == [i \in 1..Len(list) |-> list[i].bounties]

LEMMA BountiesAreNumbers ==
    ASSUME NEW list \in Seq(Enemy)
    PROVE  /\ Len(list) \in Nat /\ IsFiniteSet(1..Len(list))
           /\ BountiesOf(list) \in Numbers(1..Len(list))
           /\ Bounties(list) \in Nat
<1>1. Len(list) \in Nat /\ IsFiniteSet(1..Len(list))
  BY LenProperties, FS_Interval
<1>2. \A i \in 1..Len(list) : list[i].bounties \in Nat
  <2>1. \A i \in 1..Len(list) : list[i] \in Enemy
    BY ElementOfSeq
  <2>2. \A e \in Enemy : e.bounties \in Nat
    BY DEF Enemy
  <2> QED BY <2>1, <2>2
<1>3. BountiesOf(list) \in Numbers(1..Len(list))
  BY <1>2 DEF BountiesOf, Numbers
<1>4. Total(BountiesOf(list)) \in Nat
  BY <1>1, <1>3, TotalIsNumber
<1> QED BY <1>1, <1>3, <1>4 DEF Bounties, BountiesOf

LEMMA BountiesOfNothing == Bounties(<<>>) = 0
<1>1. Len(<<>>) = 0 /\ 1..0 = {}
  BY EmptySeq
<1>2. BountiesOf(<<>>) \in Numbers({})
  BY <1>1 DEF BountiesOf, Numbers
<1> QED BY <1>2, TotalOfNothing DEF Bounties, BountiesOf

LEMMA BountiesWithOneMore ==
    ASSUME NEW list \in Seq(Enemy), NEW enemy \in Enemy
    PROVE  Bounties(Append(list, enemy)) = Bounties(list) + enemy.bounties
<1> DEFINE longer == Append(list, enemy)
           n == Len(list)
<1>1. /\ longer \in Seq(Enemy) /\ n \in Nat /\ Len(longer) = n + 1
      /\ \A i \in 1..n : longer[i] = list[i]
      /\ longer[n + 1] = enemy
  BY AppendProperties, LenProperties
<1> HIDE DEF longer
<1>2. BountiesOf(list) \in Numbers(1..n)
  BY BountiesAreNumbers
<1>3. BountiesOf(longer) \in Numbers(1..n + 1)
  BY <1>1, BountiesAreNumbers
<1>4. \A i \in 1..n : BountiesOf(longer)[i] = BountiesOf(list)[i]
  BY <1>1 DEF BountiesOf
<1>5. BountiesOf(longer)[n + 1] = enemy.bounties
  BY <1>1 DEF BountiesOf
<1>6. Total(BountiesOf(longer)) = Total(BountiesOf(list)) + BountiesOf(longer)[n + 1]
  BY <1>1, <1>2, <1>3, <1>4, TotalOfLonger
<1> QED BY <1>5, <1>6 DEF Bounties, BountiesOf, longer

LEMMA BountiesWithAnother ==
    ASSUME NEW list \in Seq(Enemy), NEW i \in 1..Len(list), NEW enemy \in Enemy
    PROVE  Bounties([list EXCEPT ![i] = enemy])
             = Bounties(list) - list[i].bounties + enemy.bounties
<1> DEFINE other == [list EXCEPT ![i] = enemy]
           n == Len(list)
<1>1. /\ other \in Seq(Enemy) /\ Len(other) = n
      /\ other[i] = enemy /\ \A j \in (1..n) \ {i} : other[j] = list[j]
  BY ExceptSeq
<1> HIDE DEF other
<1>2. IsFiniteSet(1..n)
  BY BountiesAreNumbers
<1>3. BountiesOf(list) \in Numbers(1..n)
  BY BountiesAreNumbers
<1>4. BountiesOf(other) \in Numbers(1..n)
  BY <1>1, BountiesAreNumbers
<1>5. \A j \in (1..n) \ {i} : BountiesOf(other)[j] = BountiesOf(list)[j]
  BY <1>1 DEF BountiesOf
<1>6. BountiesOf(list)[i] = list[i].bounties /\ BountiesOf(other)[i] = enemy.bounties
  BY <1>1 DEF BountiesOf
<1>7. Total(BountiesOf(other))
        = Total(BountiesOf(list)) - BountiesOf(list)[i] + BountiesOf(other)[i]
  BY <1>2, <1>3, <1>4, <1>5, TotalWithAnother
<1> QED BY <1>6, <1>7 DEF Bounties, BountiesOf, other

(* Between steps the queue is empty; from then on it tells what the step   *)
(* has done so far.  Nobody who is moved has been paid for.                *)
TellInv ==
    /\ phase \in {"warmup", "idle", "quit"} => events = <<>>
    /\ phase \in Moving =>
         /\ Count(events, "ProjectileLaunched") = next.nextObjectId - prev.nextObjectId
         /\ Count(events, "EnemyDied") = Bounties(next.enemies)

LEMMA TellBegun ==
    ASSUME TypeOK, TellInv, BeginTimeStep
    PROVE  TellInv'
<1>1. /\ events = <<>> /\ events' = <<>> /\ phase' = "enemies"
      /\ prev' = next /\ next' = Recycled(next)
  BY DEF BeginTimeStep, TellInv
<1>2. /\ next'.enemies = <<>> /\ next'.nextObjectId = next.nextObjectId
      /\ next.nextObjectId \in Nat
  BY <1>1, WorldFields DEF Recycled, TypeOK
<1>3. Count(events', "ProjectileLaunched") = 0 /\ Count(events', "EnemyDied") = 0
  BY <1>1, CountOfNothing
<1>4. Bounties(next'.enemies) = 0
  BY <1>2, BountiesOfNothing
<1>5. next'.nextObjectId - prev'.nextObjectId = 0
  BY <1>1, <1>2
<1> QED BY <1>1, <1>3, <1>4, <1>5 DEF TellInv

LEMMA TellMoved ==
    ASSUME TypeOK, EnemiesInv, TellInv, MoveEnemy
    PROVE  TellInv'
<1> DEFINE old == prev.enemies[cursor]
<1>0. prev \in World /\ next \in World /\ next.enemies \in Seq(Enemy)
  BY WorldFields DEF TypeOK
<1>1. /\ cursor \in 1..Len(prev.enemies) /\ ~Leaves(old)
      /\ phase = "enemies" /\ phase' = "enemies" /\ prev' = prev /\ events' = events
  BY <1>0, WorldFields DEF MoveEnemy, TypeOK
<1>2. old \in Enemy
  BY <1>0, <1>1, WorldFields
<1>3. old.bounties = 0
  <2>1. old.bounties \in Nat
    BY <1>2 DEF Enemy
  <2>2. ~(old.bounties > 0)
    BY <1>1 DEF EnemiesInv, SoundEnemies, Sound, Leaves
  <2> QED BY <2>1, <2>2
<1>4. PICK pos \in Positions, nearWaypoint \in BOOLEAN :
        next' = [next EXCEPT !.enemies = Append(@,
                  [old EXCEPT !.pos = pos, !.waypoint = IF nearWaypoint THEN @ + 1 ELSE @])]
  BY DEF MoveEnemy, WithEnemy
<1> DEFINE new == [old EXCEPT !.pos = pos, !.waypoint = IF nearWaypoint THEN @ + 1 ELSE @]
<1>5. old.waypoint + 1 \in Nat /\ old.waypoint \in Nat
  BY <1>2 DEF Enemy
<1>6. new \in Enemy /\ new.bounties = 0
  BY <1>2, <1>3, <1>5 DEF Enemy
<1>7. next'.enemies = Append(next.enemies, new) /\ next'.nextObjectId = next.nextObjectId
  BY <1>0, <1>4 DEF World
<1> HIDE DEF new, old
<1>8. Bounties(next'.enemies) = Bounties(next.enemies) + 0
  BY <1>0, <1>6, <1>7, BountiesWithOneMore
<1>9. Bounties(next.enemies) \in Nat
  BY <1>0, BountiesAreNumbers
<1>10. Bounties(next'.enemies) = Bounties(next.enemies)
  BY <1>8, <1>9
<1> QED BY <1>1, <1>7, <1>10 DEF TellInv, Moving

LEMMA TellFired ==
    ASSUME TypeOK, TellInv, FireShot
    PROVE  TellInv'
<1>0. /\ prev \in World /\ next \in World /\ events \in Seq(EventKinds)
      /\ prev.nextObjectId \in Nat /\ next.nextObjectId \in Nat
  BY WorldFields DEF TypeOK
<1>1. /\ next'.enemies = next.enemies /\ next'.nextObjectId = next.nextObjectId + 1
      /\ events' = Append(events, "ProjectileLaunched")
      /\ phase = "firing" /\ phase' = "firing" /\ prev' = prev
  BY <1>0 DEF FireShot, World
<1>2. "ProjectileLaunched" \in EventKinds /\ "ProjectileLaunched" # "EnemyDied"
  BY DEF EventKinds
<1>3. /\ Count(events, "ProjectileLaunched") \in Nat
      /\ Count(events', "ProjectileLaunched") = Count(events, "ProjectileLaunched") + 1
  BY <1>0, <1>1, <1>2, CountWithOneMore
<1>4. Count(events', "EnemyDied") = Count(events, "EnemyDied")
  BY <1>0, <1>1, <1>2, CountWithOneMore
<1>5. Count(events, "ProjectileLaunched") = next.nextObjectId - prev.nextObjectId
  BY <1>1 DEF TellInv, Moving
<1>6. Count(events', "ProjectileLaunched") = next'.nextObjectId - prev'.nextObjectId
  BY <1>0, <1>1, <1>3, <1>5
<1>7. Count(events', "EnemyDied") = Bounties(next'.enemies)
  BY <1>1, <1>4 DEF TellInv, Moving
<1> QED BY <1>1, <1>6, <1>7 DEF TellInv

(* A death is announced exactly when a bounty is paid.                     *)
LEMMA TellDamaged ==
    ASSUME TypeOK, TellInv, NEW type \in TowerTypes, NEW i \in 1..Len(next.enemies),
           ApplyDamage(i, Damage[type]), prev' = prev,
           phase \in {"projectiles", "splash"}, phase' = "splash"
    PROVE  TellInv'
<1> DEFINE enemy == next.enemies[i]
           hurt == Wounded(enemy, Damage[type])
           hit == Append(events, "ProjectileHit")
<1>0. /\ next \in World /\ next.enemies \in Seq(Enemy) /\ enemy \in Enemy
      /\ events \in Seq(EventKinds) /\ Damage[type] \in Nat
  BY WorldFields, MapAssumption DEF TypeOK
<1>1. /\ next'.enemies = [next.enemies EXCEPT ![i] = hurt]
      /\ next'.nextObjectId = next.nextObjectId
  BY DamageTypes, DamageKeepsIds
<1>2. hurt \in Enemy /\ enemy.bounties \in Nat
  BY <1>0, WoundedTypes DEF Enemy
<1>3. /\ "ProjectileHit" \in EventKinds /\ "EnemyDied" \in EventKinds
      /\ "ProjectileHit" # "ProjectileLaunched" /\ "ProjectileHit" # "EnemyDied"
      /\ "EnemyDied" # "ProjectileLaunched"
  BY DEF EventKinds
<1>4. hit \in Seq(EventKinds)
  BY <1>0, <1>3, AppendProperties
<1>5. /\ Count(hit, "ProjectileLaunched") = Count(events, "ProjectileLaunched")
      /\ Count(hit, "EnemyDied") = Count(events, "EnemyDied")
      /\ Count(events, "EnemyDied") \in Nat /\ Count(events, "ProjectileLaunched") \in Nat
  BY <1>0, <1>3, CountWithOneMore
<1>6. /\ Count(events, "ProjectileLaunched") = next.nextObjectId - prev.nextObjectId
      /\ Count(events, "EnemyDied") = Bounties(next.enemies)
  BY DEF TellInv, Moving
<1>7. Bounties(next'.enemies) = Bounties(next.enemies) - enemy.bounties + hurt.bounties
  <2> HIDE DEF hurt
  <2> QED BY <1>0, <1>1, <1>2, BountiesWithAnother
<1>8. CASE Dies(enemy, Damage[type])
  <2>1. hurt.bounties = enemy.bounties + 1
    BY <1>0, <1>8 DEF Wounded, Enemy
  <2>2. events' = Append(hit, "EnemyDied")
    <3>1. events' = events \o <<"ProjectileHit", "EnemyDied">>
      BY <1>8 DEF ApplyDamage, HitEvents
    <3> QED BY <1>0, <1>3, <3>1
  <2> HIDE DEF hit, hurt, enemy
  <2>3. /\ Count(events', "ProjectileLaunched") = Count(hit, "ProjectileLaunched")
        /\ Count(events', "EnemyDied") = Count(hit, "EnemyDied") + 1
        /\ Count(hit, "ProjectileLaunched") \in Nat
    BY <1>3, <1>4, <2>2, CountWithOneMore
  <2>4. Count(events', "EnemyDied") = Bounties(next'.enemies)
    BY <1>2, <1>5, <1>6, <1>7, <2>1, <2>3
  <2>5. Count(events', "ProjectileLaunched") = next'.nextObjectId - prev'.nextObjectId
    BY <1>1, <1>5, <1>6, <2>3
  <2> QED BY <2>4, <2>5 DEF TellInv
<1>9. CASE ~Dies(enemy, Damage[type])
  <2>1. hurt.bounties = enemy.bounties
    BY <1>0, <1>9 DEF Wounded, Enemy
  <2>2. events' = hit
    <3>1. events' = events \o <<"ProjectileHit">>
      BY <1>9 DEF ApplyDamage, HitEvents
    <3> QED BY <1>0, <1>3, <3>1
  <2> HIDE DEF hit, hurt, enemy
  <2>3. Count(events', "EnemyDied") = Bounties(next'.enemies)
    BY <1>2, <1>5, <1>6, <1>7, <2>1, <2>2
  <2>4. Count(events', "ProjectileLaunched") = next'.nextObjectId - prev'.nextObjectId
    BY <1>1, <1>5, <1>6, <2>2
  <2> QED BY <2>3, <2>4 DEF TellInv
<1> QED BY <1>8, <1>9

LEMMA TellStep ==
    ASSUME TypeOK, EnemiesInv, TellInv, [Next]_vars
    PROVE  TellInv'
<1>0. prev \in World /\ next \in World /\ cursor \in Nat \ {0}
  BY DEF TypeOK
<1>1. CASE BeginTimeStep
  BY <1>1, TellBegun
<1>2. CASE MoveEnemy
  BY <1>2, TellMoved
<1>3. CASE FireShot
  BY <1>3, TellFired
<1>4. CASE SkipTower \/ AimTower \/ FlyProjectile
  <2>1. next'.enemies = next.enemies /\ next'.nextObjectId = next.nextObjectId
    BY <1>0, <1>4 DEF SkipTower, AimTower, FlyProjectile, World
  <2>2. prev' = prev /\ events' = events /\ phase \in Moving
        /\ phase \notin {"warmup", "idle", "quit"} /\ phase' \notin {"warmup", "idle", "quit"}
    BY <1>4 DEF SkipTower, AimTower, FlyProjectile, Moving
  <2> QED BY <2>1, <2>2 DEF TellInv
<1>5. CASE HitProjectile
  <2> DEFINE p == prev.projectiles[cursor]
  <2>1. p \in Projectile
    BY <1>0, <1>5, WorldFields DEF HitProjectile
  <2>2. p.targetIdx \in Nat \ {0} /\ p.type \in TowerTypes
    BY <2>1 DEF Projectile
  <2>3. p.targetIdx \in 1..Len(next.enemies) /\ phase = "projectiles" /\ phase' = "splash"
        /\ prev' = prev
    BY <1>0, <1>5, <2>2, WorldFields DEF HitProjectile
  <2>4. CASE TargetAlive(next.enemies, p)
    BY <1>5, <2>2, <2>3, <2>4, TellDamaged DEF HitProjectile
  <2>5. CASE ~TargetAlive(next.enemies, p)
    <3>1. next' = next /\ events' = events
      BY <1>5, <2>5 DEF HitProjectile
    <3> QED BY <2>3, <3>1 DEF TellInv, Moving
  <2> QED BY <2>4, <2>5
<1>6. CASE SplashEnemy
  <2>1. prev.projectiles[cursor] \in Projectile
    BY <1>0, <1>6, WorldFields DEF SplashEnemy, TypeOK, IndicesOK
  <2>2. prev.projectiles[cursor].type \in TowerTypes /\ splash \subseteq 1..Len(next.enemies)
    BY <2>1 DEF Projectile, TypeOK, IndicesOK
  <2>3. phase = "splash" /\ phase' = "splash" /\ prev' = prev
    BY <1>6 DEF SplashEnemy
  <2> QED BY <1>6, <2>2, <2>3, TellDamaged DEF SplashEnemy
<1>7. CASE IssueCommand \/ Quit \/ RemoveEnemy \/ EnemiesDone \/ HoldFire \/ TowersDone
              \/ DropProjectile \/ ProjectileSpent \/ UNCHANGED vars
  BY <1>7 DEF IssueCommand, Quit, RemoveEnemy, EnemiesDone, HoldFire, TowersDone,
              DropProjectile, ProjectileSpent, vars, TellInv, Moving
<1>8. CASE ProjectilesDone \/ CommandLoop
  BY <1>8 DEF ProjectilesDone, CommandLoop, ExecSpawn, ExecDespawn, ExecAddGold, ExecBuild,
              RejectBuild, NextCommand, EndTimeStep, TellInv, Moving
<1> QED
  BY <1>1, <1>2, <1>3, <1>4, <1>5, <1>6, <1>7, <1>8
     DEF Next, InTimeStep, EnemyLoop, TowerLoop, ProjectileLoop, Finished

(* One launch event for every projectile and one death for every bounty,   *)
(* and nothing left of an earlier step, whatever the step's loops do.      *)
THEOREM EventsAreTrue == Spec => []EventsTellTheStep
<1>1. Init => TellInv
  BY DEF Init, TellInv, Moving
<1>2. TypeOK /\ EnemiesInv /\ TellInv /\ [Next]_vars => TellInv'
  BY TellStep
<1>3. TellInv => EventsTellTheStep
  BY DEF TellInv, EventsTellTheStep, Told, Count, Moving
<1> QED BY <1>1, <1>2, <1>3, TypeCorrect, EnemiesInvariant, PTL DEF Spec

-----------------------------------------------------------------------------

WorldInv == TypeOK /\ IdsInv /\ EnemiesInv /\ CopyInv /\ WarmUp

LEMMA WorldInvariant == Spec => []WorldInv
BY IdsInvariant, EnemiesInvariant, CopyInvariant, WarmUpInvariant, PTL DEF WorldInv

-----------------------------------------------------------------------------
(* The enemies of the world, in two parts: those the new list holds, and   *)
(* those the enemy loop has not reached.                                   *)
Moved == {Seen(next.enemies[i]) : i \in 1..Len(next.enemies)}
Ahead == {Seen(prev.enemies[i]) : i \in cursor..Len(prev.enemies)}

LEMMA WorldInParts ==
    /\ phase = "enemies" => EnemiesInWorld = Moved \cup Ahead
    /\ phase # "enemies" => EnemiesInWorld = Moved
BY DEF EnemiesInWorld, Moved, Ahead

(* Enemies that look the same have the same id.                            *)
LEMMA SeenFields ==
    ASSUME NEW e, NEW f
    PROVE  /\ Seen(e).id = e.id /\ Seen(e).type = e.type /\ Seen(e).health = e.health
           /\ Seen(e).home = (e.pos = "goal")
           /\ Seen(e) = Seen(f) => e.id = f.id
BY DEF Seen

(* In a list whose ids increase, no two places hold the same id.           *)
LEMMA DistinctIds ==
    ASSUME NEW w \in World, FreshIds(w), NEW i \in 1..Len(w.enemies), NEW j \in 1..Len(w.enemies),
           w.enemies[i].id = w.enemies[j].id
    PROVE  i = j
<1>1. Len(w.enemies) \in Nat /\ w.enemies[i].id \in Nat /\ w.enemies[j].id \in Nat
  BY WorldFields, IdsAreNumbers
<1>2. ~(i < j) /\ ~(j < i)
  BY <1>1 DEF FreshIds, Increasing
<1> QED BY <1>1, <1>2

LEMMA StartsEmpty == Init => Field!Init
<1> SUFFICES ASSUME Init PROVE Field!Init
  OBVIOUS
<1>1. Len(<<>>) = 0
  BY EmptySeq
<1>2. /\ next.gold = StartingGold /\ next.nextObjectId = 0 /\ phase = "warmup"
      /\ next.enemies = <<>> /\ prev.towers = <<>>
  BY DEF Init, FreshWorld
<1>3. EnemiesInWorld = {}
  BY <1>1, <1>2 DEF EnemiesInWorld
<1>4. TowersInWorld = {}
  BY <1>1, <1>2 DEF TowersInWorld, Afterwards
<1> QED BY <1>2, <1>3, <1>4 DEF Field!Init

-----------------------------------------------------------------------------
(* The steps that do not show.                                             *)

LEMMA NewStepUnseen ==
    ASSUME WorldInv, BeginTimeStep
    PROVE  UNCHANGED Field!worldVars
<1>0. next \in World /\ cursor' = 1 /\ phase \in {"warmup", "idle"} /\ phase' = "enemies"
      /\ prev' = next /\ Len(<<>>) = 0
  BY EmptySeq DEF BeginTimeStep, WorldInv, TypeOK
<1>1. next'.gold = next.gold /\ next'.nextObjectId = next.nextObjectId /\ next'.enemies = <<>>
  BY DEF BeginTimeStep, Recycled
<1>2. EnemiesInWorld' = EnemiesInWorld
  BY <1>0, <1>1 DEF EnemiesInWorld
<1>3. TowersInWorld' = TowersInWorld
  BY <1>0 DEF TowersInWorld, Afterwards, WorldInv, WarmUp
<1> QED BY <1>1, <1>2, <1>3 DEF Field!worldVars

LEMMA EnemiesDoneUnseen ==
    ASSUME WorldInv, EnemiesDone
    PROVE  UNCHANGED Field!worldVars
<1>0. /\ phase = "enemies" /\ phase' = "towers" /\ UNCHANGED <<prev, next>>
      /\ cursor > Len(prev.enemies) /\ cursor \in Nat /\ Len(prev.enemies) \in Nat
  BY WorldFields DEF EnemiesDone, WorldInv, TypeOK
<1>1. cursor..Len(prev.enemies) = {}
  BY <1>0
<1>2. EnemiesInWorld' = EnemiesInWorld
  BY <1>0, <1>1 DEF EnemiesInWorld
<1>3. TowersInWorld' = TowersInWorld
  BY <1>0 DEF TowersInWorld, Afterwards
<1> QED BY <1>0, <1>2, <1>3 DEF Field!worldVars

LEMMA TowersDoneUnseen ==
    ASSUME WorldInv, TowersDone
    PROVE  UNCHANGED Field!worldVars
<1>0. /\ phase = "towers" /\ phase' = "projectiles" /\ UNCHANGED <<prev, next>>
      /\ cursor > Len(prev.towers) /\ cursor = Len(next.towers) + 1
      /\ Len(prev.towers) \in Nat /\ Len(next.towers) \in Nat
  BY WorldFields DEF TowersDone, WorldInv, TypeOK, IndicesOK
<1>1. Len(next.towers) = Len(prev.towers)
  <2>1. Len(next.towers) # 0 => Len(next.towers) <= Len(prev.towers)
    <3>1. Len(next.towers) # 0 => Len(next.towers) \in 1..Len(next.towers)
      BY <1>0
    <3> QED BY <1>0, <3>1 DEF WorldInv, IdsInv, TowersInPlace
  <2> QED BY <1>0, <2>1
<1>2. \A i \in 1..Len(next.towers) : Placed(next.towers[i]) = Placed(prev.towers[i])
  <2>1. \A i \in 1..Len(next.towers) : SameTower(next.towers[i], prev.towers[i])
    BY <1>0, <1>1 DEF WorldInv, CopyInv
  <2> QED BY <2>1 DEF SameTower, Placed
<1>3. TowersInWorld' = TowersInWorld
  BY <1>0, <1>1, <1>2 DEF TowersInWorld, Afterwards
<1>4. EnemiesInWorld' = EnemiesInWorld
  BY <1>0 DEF EnemiesInWorld
<1> QED BY <1>0, <1>3, <1>4 DEF Field!worldVars

(* All that neither cross a boundary of the mapping nor touch what it maps. *)
LEMMA Unseen ==
    ASSUME prev' = prev, next'.enemies = next.enemies, next'.gold = next.gold,
           next'.nextObjectId = next.nextObjectId,
           phase \in Afterwards => next'.towers = next.towers,
           phase' \in Afterwards <=> phase \in Afterwards, phase # "enemies", phase' # "enemies"
    PROVE  UNCHANGED Field!worldVars
<1>1. EnemiesInWorld' = EnemiesInWorld
  BY DEF EnemiesInWorld
<1>2. TowersInWorld' = TowersInWorld
  BY DEF TowersInWorld
<1> QED BY <1>1, <1>2 DEF Field!worldVars

-----------------------------------------------------------------------------
(* The steps that do: each is one step of the world.                       *)

LateComers == {Seen(prev.enemies[i]) : i \in cursor + 1..Len(prev.enemies)}

(* The enemy the loop is at is one of the world, and no other is like it.  *)
LEMMA NextInLine ==
    ASSUME WorldInv, phase = "enemies", cursor \in 1..Len(prev.enemies)
    PROVE  /\ Ahead = LateComers \cup {Seen(prev.enemies[cursor])}
           /\ Seen(prev.enemies[cursor]) \notin LateComers
           /\ Seen(prev.enemies[cursor]) \notin Moved
<1>0. prev \in World /\ next \in World /\ Len(prev.enemies) \in Nat
  BY WorldFields DEF WorldInv, TypeOK
<1>1. \A i : i \in cursor..Len(prev.enemies)
               <=> i \in cursor + 1..Len(prev.enemies) \/ i = cursor
  BY <1>0
<1>2. Seen(prev.enemies[cursor]) \notin LateComers
  <2> SUFFICES ASSUME NEW i \in cursor + 1..Len(prev.enemies)
               PROVE  Seen(prev.enemies[i]) # Seen(prev.enemies[cursor])
    BY DEF LateComers
  <2>1. i \in 1..Len(prev.enemies) /\ i # cursor
    BY <1>0
  <2>2. prev.enemies[i].id # prev.enemies[cursor].id
    BY <1>0, <2>1, DistinctIds DEF WorldInv, IdsInv
  <2> QED BY <2>2, SeenFields
<1>3. Seen(prev.enemies[cursor]) \notin Moved
  <2> SUFFICES ASSUME NEW j \in 1..Len(next.enemies)
               PROVE  Seen(next.enemies[j]) # Seen(prev.enemies[cursor])
    BY DEF Moved
  <2>1. next.enemies[j].id < prev.enemies[cursor].id
    BY MovedAreOlder DEF WorldInv
  <2>2. next.enemies[j].id # prev.enemies[cursor].id
    BY <1>0, <2>1, IdsAreNumbers
  <2> QED BY <2>2, SeenFields
<1> QED BY <1>1, <1>2, <1>3 DEF Ahead, LateComers

LEMMA RemoveLeaves ==
    ASSUME WorldInv, RemoveEnemy
    PROVE  Field!Next
<1> DEFINE e == Seen(prev.enemies[cursor])
<1>0. /\ phase = "enemies" /\ phase' = "enemies" /\ cursor' = cursor + 1
      /\ UNCHANGED <<prev, next>> /\ cursor \in 1..Len(prev.enemies)
      /\ Leaves(prev.enemies[cursor])
  BY WorldFields DEF RemoveEnemy, WorldInv, TypeOK
<1>1. EnemiesInWorld = Moved \cup LateComers \cup {e} /\ e \notin Moved \cup LateComers
  BY <1>0, NextInLine, WorldInParts
<1>2. EnemiesInWorld' = Moved \cup LateComers
  BY <1>0 DEF EnemiesInWorld, Moved, LateComers
<1>3. e.health = 0 \/ e.home
  BY <1>0, SeenFields DEF Leaves
<1>4. TowersInWorld' = TowersInWorld
  BY <1>0 DEF TowersInWorld, Afterwards
<1> HIDE DEF e
<1>5. EnemiesInWorld' = EnemiesInWorld \ {e} /\ e \in EnemiesInWorld
  BY <1>1, <1>2
<1>6. Field!Leave(e)
  BY <1>0, <1>3, <1>4, <1>5 DEF Field!Leave
<1> QED BY <1>5, <1>6 DEF Field!Next

LEMMA MoveWalks ==
    ASSUME WorldInv, MoveEnemy
    PROVE  Field!Next
<1> DEFINE old == prev.enemies[cursor]
           e == Seen(old)
<1>0. /\ prev \in World /\ next \in World /\ cursor \in Nat \ {0} /\ next.enemies \in Seq(Enemy)
  BY WorldFields DEF WorldInv, TypeOK
<1>1. cursor \in 1..Len(prev.enemies) /\ ~Leaves(old)
  BY <1>0, WorldFields DEF MoveEnemy
<1>2. old \in Enemy
  BY <1>0, <1>1, WorldFields
<1>3. PICK pos \in Positions, nearWaypoint \in BOOLEAN :
        next' = [next EXCEPT !.enemies = Append(@,
                  [old EXCEPT !.pos = pos, !.waypoint = IF nearWaypoint THEN @ + 1 ELSE @])]
  BY DEF MoveEnemy, WithEnemy
<1> DEFINE new == [old EXCEPT !.pos = pos, !.waypoint = IF nearWaypoint THEN @ + 1 ELSE @]
<1>4. old.waypoint + 1 \in Nat /\ old.waypoint \in Nat /\ old.health \in Nat
  BY <1>2 DEF Enemy
<1>5. new \in Enemy
  BY <1>2, <1>4 DEF Enemy
<1>6. Seen(new) = [e EXCEPT !.home = (pos = "goal")]
  <2>1. new.id = old.id /\ new.type = old.type /\ new.health = old.health /\ new.pos = pos
    BY <1>2 DEF Enemy
  <2> HIDE DEF new, old
  <2> QED BY <2>1 DEF Seen
<1>7. /\ next'.enemies = Append(next.enemies, new) /\ next'.gold = next.gold
      /\ next'.nextObjectId = next.nextObjectId
  BY <1>0, <1>3 DEF World
<1>8. /\ phase = "enemies" /\ phase' = "enemies" /\ cursor' = cursor + 1 /\ prev' = prev
  BY DEF MoveEnemy
<1>9. e.health > 0 /\ ~e.home
  <2>1. old.health > 0 /\ old.pos # "goal"
    BY <1>1, <1>4 DEF Leaves
  <2>2. e.health = old.health /\ (e.home <=> old.pos = "goal")
    BY DEF Seen
  <2> HIDE DEF e, old
  <2> QED BY <2>1, <2>2
<1>10. EnemiesInWorld = Moved \cup LateComers \cup {e} /\ e \notin Moved \cup LateComers
  BY <1>1, <1>8, NextInLine, WorldInParts
<1> HIDE DEF new, old, e
<1>11. /\ Len(next.enemies) \in Nat /\ Len(next'.enemies) = Len(next.enemies) + 1
       /\ \A i \in 1..Len(next.enemies) : next'.enemies[i] = next.enemies[i]
       /\ next'.enemies[Len(next.enemies) + 1] = new
  BY <1>0, <1>5, <1>7, AppendProperties, LenProperties
<1>12. {Seen(next'.enemies[i]) : i \in 1..Len(next'.enemies)} = Moved \cup {Seen(new)}
  <2>1. \A i : i \in 1..Len(next'.enemies)
                 <=> i \in 1..Len(next.enemies) \/ i = Len(next.enemies) + 1
    BY <1>11
  <2> QED BY <1>11, <2>1 DEF Moved
<1>13. EnemiesInWorld' = Moved \cup {Seen(new)} \cup LateComers
  BY <1>8, <1>12 DEF EnemiesInWorld, LateComers
<1>14. EnemiesInWorld' = (EnemiesInWorld \ {e}) \cup {[e EXCEPT !.home = (pos = "goal")]}
       /\ e \in EnemiesInWorld
  BY <1>6, <1>10, <1>13
<1>15. TowersInWorld' = TowersInWorld
  BY <1>8 DEF TowersInWorld, Afterwards
<1>16. Field!Walk(e, pos = "goal")
  BY <1>7, <1>9, <1>14, <1>15 DEF Field!Walk
<1> QED BY <1>14, <1>16 DEF Field!Next

(* A tower shoots only where there is a tower, at somebody alive.          *)
LEMMA FireLaunches ==
    ASSUME WorldInv, FireShot
    PROVE  Field!Next
<1>0. /\ prev \in World /\ next \in World /\ target \in Nat \ {0} /\ cursor \in Nat \ {0}
      /\ phase = "firing" /\ phase' = "firing" /\ prev' = prev
      /\ cursor <= Len(prev.towers) /\ target <= Len(next.enemies)
  BY DEF FireShot, WorldInv, TypeOK, IndicesOK
<1>1. cursor \in 1..Len(prev.towers) /\ target \in 1..Len(next.enemies)
  BY <1>0, WorldFields
<1>2. next.enemies[target].health > 0
  BY <1>0, <1>1 DEF WorldInv, EnemiesInv, AliveSoFar
<1>3. Seen(next.enemies[target]) \in EnemiesInWorld /\ Seen(next.enemies[target]).health > 0
  BY <1>1, <1>2, SeenFields DEF EnemiesInWorld
<1>4. Placed(prev.towers[cursor]) \in TowersInWorld
  BY <1>0, <1>1 DEF TowersInWorld, Afterwards
<1>5. /\ next'.enemies = next.enemies /\ next'.gold = next.gold
      /\ next'.nextObjectId = next.nextObjectId + 1
  BY <1>0 DEF FireShot, World
<1>6. EnemiesInWorld' = EnemiesInWorld
  BY <1>0, <1>5 DEF EnemiesInWorld
<1>7. TowersInWorld' = TowersInWorld
  BY <1>0 DEF TowersInWorld, Afterwards
<1>8. Field!Launch
  BY <1>3, <1>4, <1>5, <1>6, <1>7 DEF Field!Launch
<1> QED BY <1>8 DEF Field!Next

(* Damage to one enemy is one strike, and nobody else changes.             *)
LEMMA DamageStrikes ==
    ASSUME WorldInv, NEW type \in TowerTypes, NEW n \in 1..Len(next.enemies),
           ApplyDamage(n, Damage[type]), prev' = prev,
           phase \in {"projectiles", "splash"}, phase' = "splash"
    PROVE  Field!Next
<1> DEFINE enemy == next.enemies[n]
           damage == Damage[type]
           hurt == Wounded(enemy, damage)
           e == Seen(enemy)
           rest == {Seen(next.enemies[j]) : j \in (1..Len(next.enemies)) \ {n}}
<1>0. /\ next \in World /\ next.enemies \in Seq(Enemy) /\ enemy \in Enemy /\ damage \in Nat
      /\ TypeOK
  BY WorldFields, MapAssumption DEF WorldInv, TypeOK
<1>1. /\ Len(next'.enemies) = Len(next.enemies)
      /\ next'.enemies[n] = hurt
      /\ \A j \in 1..Len(next.enemies) : j # n => next'.enemies[j] = next.enemies[j]
      /\ next'.towers = next.towers /\ next'.nextObjectId = next.nextObjectId
  <2>1. next'.enemies = [next.enemies EXCEPT ![n] = hurt]
        /\ Len(next'.enemies) = Len(next.enemies)
    BY <1>0, DamageTypes
  <2>2. /\ \A j \in 1..Len(next.enemies) : j # n => next'.enemies[j] = next.enemies[j]
        /\ next'.towers = next.towers /\ next'.nextObjectId = next.nextObjectId
    BY <1>0, DamageKeepsIds
  <2> HIDE DEF hurt
  <2> QED BY <1>0, <2>1, <2>2
<1>2. e \notin rest
  <2> SUFFICES ASSUME NEW j \in (1..Len(next.enemies)) \ {n}
               PROVE  Seen(next.enemies[j]) # e
    OBVIOUS
  <2>1. next.enemies[j].id # enemy.id
    BY <1>0, DistinctIds DEF WorldInv, IdsInv
  <2> QED BY <2>1, SeenFields
<1>3. EnemiesInWorld = rest \cup {e}
  BY WorldInParts DEF Moved
<1>4. EnemiesInWorld' = rest \cup {Seen(hurt)}
  <2>1. EnemiesInWorld' = {Seen(next'.enemies[j]) : j \in 1..Len(next.enemies)}
    BY <1>1 DEF EnemiesInWorld
  <2> HIDE DEF hurt
  <2> QED BY <1>1, <2>1
<1>5. TowersInWorld' = TowersInWorld
  BY <1>1 DEF TowersInWorld, Afterwards
<1>6. enemy.health \in Nat /\ enemy.type \in EnemyTypes
  BY <1>0 DEF Enemy
<1>7. CASE Dies(enemy, damage)
  <2>1. Seen(hurt) = [e EXCEPT !.health = 0]
    <3>1. /\ hurt.id = enemy.id /\ hurt.type = enemy.type /\ hurt.pos = enemy.pos
          /\ hurt.health = 0
      BY <1>0, <1>7 DEF Wounded, Enemy
    <3> HIDE DEF hurt, enemy
    <3> QED BY <3>1 DEF Seen
  <2>2. next'.gold = next.gold + GoldReward[enemy.type]
    BY <1>0, <1>7 DEF ApplyDamage, World
  <2>3. ~(e.health > damage) /\ e.type = enemy.type
    BY <1>0, <1>6, <1>7, SeenFields DEF Dies
  <2> HIDE DEF e, hurt, rest, enemy, damage
  <2>4. EnemiesInWorld' = (EnemiesInWorld \ {e}) \cup {[e EXCEPT !.health = 0]}
    BY <1>2, <1>3, <1>4, <2>1
  <2>5. Field!Strike(e, damage)
    BY <1>1, <1>5, <2>2, <2>3, <2>4 DEF Field!Strike
  <2> QED BY <1>3, <2>5 DEF Field!Next, damage
<1>8. CASE ~Dies(enemy, damage)
  <2>1. Seen(hurt) = [e EXCEPT !.health = @ - damage]
    <3>1. /\ hurt.id = enemy.id /\ hurt.type = enemy.type /\ hurt.pos = enemy.pos
          /\ hurt.health = enemy.health - damage
      BY <1>0, <1>8 DEF Wounded, Enemy
    <3> HIDE DEF hurt, enemy, damage
    <3> QED BY <3>1 DEF Seen
  <2>2. next'.gold = next.gold
    BY <1>0, <1>8, WorldFields DEF ApplyDamage, World
  <2>3. e.health > damage
    BY <1>0, <1>6, <1>8, SeenFields DEF Dies
  <2> HIDE DEF e, hurt, rest, enemy, damage
  <2>4. EnemiesInWorld' = (EnemiesInWorld \ {e}) \cup {[e EXCEPT !.health = @ - damage]}
    BY <1>2, <1>3, <1>4, <2>1
  <2>5. Field!Strike(e, damage)
    BY <1>1, <1>5, <2>2, <2>3, <2>4 DEF Field!Strike
  <2> QED BY <1>3, <2>5 DEF Field!Next, damage
<1> QED BY <1>7, <1>8

LEMMA HitStrikes ==
    ASSUME WorldInv, HitProjectile
    PROVE  Field!Next \/ UNCHANGED Field!worldVars
<1> DEFINE p == prev.projectiles[cursor]
<1>0. prev \in World /\ next \in World
  BY DEF WorldInv, TypeOK
<1>1. p \in Projectile
  BY <1>0, WorldFields DEF HitProjectile, WorldInv, TypeOK
<1>2. p.targetIdx \in Nat \ {0} /\ p.type \in TowerTypes
  BY <1>1 DEF Projectile
<1>3. p.targetIdx \in 1..Len(next.enemies)
  BY <1>0, <1>2, WorldFields DEF HitProjectile
<1>4. phase = "projectiles" /\ phase' = "splash" /\ prev' = prev
  BY DEF HitProjectile
<1>5. CASE TargetAlive(next.enemies, p)
  BY <1>2, <1>3, <1>4, <1>5, DamageStrikes DEF HitProjectile
<1>6. CASE ~TargetAlive(next.enemies, p)
  BY <1>4, <1>6, Unseen DEF HitProjectile, Afterwards
<1> QED BY <1>5, <1>6

LEMMA SplashStrikes ==
    ASSUME WorldInv, SplashEnemy
    PROVE  Field!Next
<1>0. prev \in World /\ splash \subseteq 1..Len(next.enemies)
  BY DEF WorldInv, TypeOK, IndicesOK
<1>1. prev.projectiles[cursor] \in Projectile
  BY <1>0, WorldFields DEF SplashEnemy, WorldInv, TypeOK, IndicesOK
<1>2. prev.projectiles[cursor].type \in TowerTypes
  BY <1>1 DEF Projectile
<1> QED BY <1>0, <1>2, DamageStrikes DEF SplashEnemy

LEMMA CommandSpawns ==
    ASSUME WorldInv, ExecSpawn
    PROVE  Field!Next
<1> DEFINE type == commands[cursor].type
           new == NewEnemy(next.nextObjectId, type)
<1>0. next \in World /\ next.enemies \in Seq(Enemy) /\ next.nextObjectId \in Nat
  BY WorldFields DEF WorldInv, TypeOK
<1>1. commands[cursor] \in Command
  BY ElementOfSeq, LenProperties DEF ExecSpawn, NextCommand, WorldInv, TypeOK
<1>2. type \in EnemyTypes
  BY <1>1 DEF ExecSpawn, NextCommand, Command
<1>3. new \in Enemy
  BY <1>0, <1>2, MapAssumption DEF NewEnemy, Enemy, Positions
<1>4. Seen(new) = [id |-> next.nextObjectId, type |-> type,
                   health |-> MaxHealth[type], home |-> FALSE]
  BY DEF Seen, NewEnemy
<1>5. next' = [next EXCEPT !.enemies = Append(@, new), !.nextObjectId = @ + 1]
      /\ prev' = prev /\ phase = "commands" /\ phase' = "commands"
  BY DEF ExecSpawn, NextCommand
<1> HIDE DEF new, type
<1>6. /\ next'.enemies = Append(next.enemies, new) /\ next'.gold = next.gold
      /\ next'.towers = next.towers /\ next'.nextObjectId = next.nextObjectId + 1
  BY <1>0, <1>5 DEF World
<1>7. /\ Len(next.enemies) \in Nat /\ Len(next'.enemies) = Len(next.enemies) + 1
      /\ \A i \in 1..Len(next.enemies) : next'.enemies[i] = next.enemies[i]
      /\ next'.enemies[Len(next.enemies) + 1] = new
  BY <1>0, <1>3, <1>6, AppendProperties, LenProperties
<1>8. EnemiesInWorld' = EnemiesInWorld \cup {Seen(new)}
  <2>1. \A i : i \in 1..Len(next'.enemies)
                 <=> i \in 1..Len(next.enemies) \/ i = Len(next.enemies) + 1
    BY <1>7
  <2>2. EnemiesInWorld' = {Seen(next'.enemies[i]) : i \in 1..Len(next'.enemies)}
    BY <1>5 DEF EnemiesInWorld
  <2>3. EnemiesInWorld = {Seen(next.enemies[i]) : i \in 1..Len(next.enemies)}
    BY <1>5 DEF EnemiesInWorld
  <2> QED BY <1>7, <2>1, <2>2, <2>3
<1>9. TowersInWorld' = TowersInWorld
  BY <1>5, <1>6 DEF TowersInWorld, Afterwards
<1>10. Field!Spawn(type)
  BY <1>4, <1>6, <1>8, <1>9 DEF Field!Spawn
<1> QED BY <1>2, <1>10 DEF Field!Next

LEMMA CommandBuilds ==
    ASSUME WorldInv, ExecBuild
    PROVE  Field!Next
<1> DEFINE c == commands[cursor]
           new == NewTower(next.nextObjectId, c.type, c.tile)
<1>0. next \in World /\ next.towers \in Seq(Tower) /\ next.nextObjectId \in Nat
  BY WorldFields DEF WorldInv, TypeOK
<1>1. c \in Command
  BY ElementOfSeq, LenProperties DEF ExecBuild, NextCommand, WorldInv, TypeOK
<1>2. c.type \in TowerTypes /\ c.tile \in BuildableTiles
  BY <1>1 DEF ExecBuild, NextCommand, Command
<1>3. new \in Tower
  BY <1>0, <1>2 DEF NewTower, Tower
<1>4. Placed(new) = [id |-> next.nextObjectId, type |-> c.type, tile |-> c.tile]
  BY DEF Placed, NewTower
<1>5. /\ next.gold >= Cost[c.type]
      /\ next' = [next EXCEPT !.gold = @ - Cost[c.type], !.towers = Append(@, new),
                              !.nextObjectId = @ + 1]
      /\ prev' = prev /\ phase = "commands" /\ phase' = "commands"
  BY DEF ExecBuild, NextCommand
<1> HIDE DEF new, c
<1>6. /\ next'.towers = Append(next.towers, new) /\ next'.gold = next.gold - Cost[c.type]
      /\ next'.enemies = next.enemies /\ next'.nextObjectId = next.nextObjectId + 1
  BY <1>0, <1>5 DEF World
<1>7. /\ Len(next.towers) \in Nat /\ Len(next'.towers) = Len(next.towers) + 1
      /\ \A i \in 1..Len(next.towers) : next'.towers[i] = next.towers[i]
      /\ next'.towers[Len(next.towers) + 1] = new
  BY <1>0, <1>3, <1>6, AppendProperties, LenProperties
<1>8. TowersInWorld' = TowersInWorld \cup {Placed(new)}
  <2>1. \A i : i \in 1..Len(next'.towers)
                 <=> i \in 1..Len(next.towers) \/ i = Len(next.towers) + 1
    BY <1>7
  <2>2. TowersInWorld' = {Placed(next'.towers[i]) : i \in 1..Len(next'.towers)}
    BY <1>5 DEF TowersInWorld, Afterwards
  <2>3. TowersInWorld = {Placed(next.towers[i]) : i \in 1..Len(next.towers)}
    BY <1>5 DEF TowersInWorld, Afterwards
  <2> QED BY <1>7, <2>1, <2>2, <2>3
<1>9. EnemiesInWorld' = EnemiesInWorld
  BY <1>5, <1>6 DEF EnemiesInWorld
<1>10. Field!Build(c.type, c.tile)
  BY <1>4, <1>5, <1>6, <1>8, <1>9 DEF Field!Build
<1> QED BY <1>2, <1>10 DEF Field!Next

LEMMA CommandDespawns ==
    ASSUME WorldInv, ExecDespawn
    PROVE  Field!Next
<1>0. next \in World /\ Len(<<>>) = 0
  BY EmptySeq DEF WorldInv, TypeOK
<1>1. /\ next'.enemies = <<>> /\ next'.towers = next.towers
      /\ next'.gold = next.gold /\ next'.nextObjectId = next.nextObjectId
  BY <1>0 DEF ExecDespawn, World
<1>2. prev' = prev /\ phase = "commands" /\ phase' = "commands"
  BY DEF ExecDespawn, NextCommand
<1>3. EnemiesInWorld' = {}
  BY <1>0, <1>1, <1>2 DEF EnemiesInWorld
<1>4. TowersInWorld' = TowersInWorld
  BY <1>1, <1>2 DEF TowersInWorld, Afterwards
<1>5. Field!DespawnAll
  BY <1>1, <1>3, <1>4 DEF Field!DespawnAll
<1> QED BY <1>5 DEF Field!Next

LEMMA CommandGrants ==
    ASSUME WorldInv, ExecAddGold
    PROVE  Field!Next
<1>0. next \in World
  BY DEF WorldInv, TypeOK
<1>1. commands[cursor] \in Command
  BY ElementOfSeq, LenProperties DEF ExecAddGold, NextCommand, WorldInv, TypeOK
<1>2. commands[cursor].amount \in GoldAmounts
  BY <1>1 DEF ExecAddGold, NextCommand, Command
<1>3. /\ next'.enemies = next.enemies /\ next'.towers = next.towers
      /\ next'.gold = next.gold + commands[cursor].amount
      /\ next'.nextObjectId = next.nextObjectId
  BY <1>0 DEF ExecAddGold, World
<1>4. prev' = prev /\ phase = "commands" /\ phase' = "commands"
  BY DEF ExecAddGold, NextCommand
<1>5. EnemiesInWorld' = EnemiesInWorld
  BY <1>3, <1>4 DEF EnemiesInWorld
<1>6. TowersInWorld' = TowersInWorld
  BY <1>3, <1>4 DEF TowersInWorld, Afterwards
<1>7. Field!Grant(commands[cursor].amount)
  BY <1>3, <1>5, <1>6 DEF Field!Grant
<1> QED BY <1>2, <1>7 DEF Field!Next

-----------------------------------------------------------------------------
LEMMA StepRefines ==
    ASSUME WorldInv, [Next]_vars
    PROVE  [Field!Next]_Field!worldVars
<1>0. next \in World
  BY DEF WorldInv, TypeOK
<1>1. CASE BeginTimeStep
  BY <1>1, NewStepUnseen
<1>2. CASE RemoveEnemy
  BY <1>2, RemoveLeaves
<1>3. CASE MoveEnemy
  BY <1>3, MoveWalks
<1>4. CASE EnemiesDone
  BY <1>4, EnemiesDoneUnseen
<1>5. CASE SkipTower \/ AimTower \/ HoldFire
  <2>1. /\ next'.enemies = next.enemies /\ next'.gold = next.gold
        /\ next'.nextObjectId = next.nextObjectId
    BY <1>0, <1>5 DEF SkipTower, AimTower, HoldFire, World
  <2>2. prev' = prev /\ phase \in {"towers", "firing"} /\ phase' \in {"towers", "firing"}
    BY <1>5 DEF SkipTower, AimTower, HoldFire
  <2> QED BY <2>1, <2>2, Unseen DEF Afterwards
<1>6. CASE FireShot
  BY <1>6, FireLaunches
<1>7. CASE TowersDone
  BY <1>7, TowersDoneUnseen
<1>8. CASE FlyProjectile
  <2>1. /\ next'.enemies = next.enemies /\ next'.gold = next.gold
        /\ next'.nextObjectId = next.nextObjectId /\ next'.towers = next.towers
    BY <1>0, <1>8 DEF FlyProjectile, World
  <2>2. prev' = prev /\ phase = "projectiles" /\ phase' = "projectiles"
    BY <1>8 DEF FlyProjectile
  <2> QED BY <2>1, <2>2, Unseen
<1>9. CASE HitProjectile
  BY <1>9, HitStrikes
<1>10. CASE SplashEnemy
  BY <1>10, SplashStrikes
<1>11. CASE ExecSpawn
  BY <1>11, CommandSpawns
<1>12. CASE ExecBuild
  BY <1>12, CommandBuilds
<1>13. CASE ExecDespawn
  BY <1>13, CommandDespawns
<1>14. CASE ExecAddGold
  BY <1>14, CommandGrants
<1>15. CASE IssueCommand \/ Quit \/ DropProjectile \/ ProjectileSpent \/ ProjectilesDone
              \/ RejectBuild \/ EndTimeStep
  <2>1. prev' = prev /\ next' = next
    BY <1>15 DEF IssueCommand, Quit, DropProjectile, ProjectileSpent, ProjectilesDone,
                 RejectBuild, NextCommand, EndTimeStep
  <2>2. phase \in Afterwards /\ phase' \in Afterwards /\ phase # "enemies" /\ phase' # "enemies"
    BY <1>15 DEF IssueCommand, Quit, DropProjectile, ProjectileSpent, ProjectilesDone,
                 RejectBuild, NextCommand, EndTimeStep, Afterwards
  <2> QED BY <2>1, <2>2, Unseen
<1>16. CASE UNCHANGED vars
  BY <1>16 DEF vars, Field!worldVars, EnemiesInWorld, TowersInWorld
<1> QED
  BY <1>1, <1>2, <1>3, <1>4, <1>5, <1>6, <1>7, <1>8, <1>9, <1>10, <1>11, <1>12, <1>13,
     <1>14, <1>15, <1>16
     DEF Next, InTimeStep, EnemyLoop, TowerLoop, ProjectileLoop, CommandLoop, Finished

(* A session implements the world it shows its player: every step of every *)
(* loop of a time step, on either buffer, is one step of Battlefield or    *)
(* none.                                                                   *)
THEOREM SessionIsBattlefield == Spec => ImplementsBattlefield
<1>1. WorldInv /\ [Next]_vars => [Field!Next]_Field!worldVars
  BY StepRefines
<1> QED
  BY <1>1, StartsEmpty, WorldInvariant, PTL DEF Spec, ImplementsBattlefield, Field!Spec

-----------------------------------------------------------------------------
(* What is drawn.                                                          *)

LEMMA IdList ==
    ASSUME NEW list, Len(list) \in Nat, \A i \in 1..Len(list) : list[i].id \in Nat
    PROVE  /\ IdsOf(list) \in Seq(Nat) /\ Len(IdsOf(list)) = Len(list)
           /\ \A i \in 1..Len(list) : IdsOf(list)[i] = list[i].id
<1>1. IdsOf(list) \in [1..Len(list) -> Nat]
  BY DEF IdsOf
<1> QED BY <1>1 DEF IdsOf

LEMMA InElements ==
    ASSUME NEW list
    PROVE  \A x : x \in Elements(list) <=> \E i \in 1..Len(list) : x = list[i]
BY DEF Elements

LEMMA IdElements ==
    ASSUME NEW list, Len(list) \in Nat, \A i \in 1..Len(list) : list[i].id \in Nat
    PROVE  \A x : x \in Elements(IdsOf(list)) <=> \E i \in 1..Len(list) : x = list[i].id
<1>1. /\ Len(IdsOf(list)) = Len(list)
      /\ \A i \in 1..Len(list) : IdsOf(list)[i] = list[i].id
  BY IdList
<1>2. \A x : x \in Elements(IdsOf(list))
               <=> \E i \in 1..Len(IdsOf(list)) : x = IdsOf(list)[i]
  BY InElements, Zenon
<1> QED BY <1>1, <1>2

(* Of a list that begins with n survivors, and goes on with newcomers, the *)
(* survivors are drawn, if neither list was reordered.                     *)
LEMMA SurvivorsFound ==
    ASSUME NEW old, NEW new, NEW n \in 0..Len(new),
           Len(old) \in Nat, \A i \in 1..Len(old) : old[i].id \in Nat, Increasing(old),
           Len(new) \in Nat, \A i \in 1..Len(new) : new[i].id \in Nat, Increasing(new),
           \A i \in 1..n : \E k \in 1..Len(old) : new[i].id = old[k].id,
           \A i \in n + 1..Len(new) : \A k \in 1..Len(old) : new[i].id # old[k].id
    PROVE  DrawsSurvivors(old, new)
<1> DEFINE f == [i \in 1..n |-> CHOOSE k \in 1..Len(old) : new[i].id = old[k].id]
<1>1. \A i \in 1..n : f[i] \in 1..Len(old) /\ new[i].id = old[f[i]].id
  OBVIOUS
<1>2. f \in [1..n -> 1..Len(old)]
  BY <1>1
<1>3. /\ IdsOf(old) \in Seq(Nat) /\ Len(IdsOf(old)) = Len(old)
      /\ \A i \in 1..Len(old) : IdsOf(old)[i] = old[i].id
  BY IdList
<1>4. /\ IdsOf(new) \in Seq(Nat) /\ Len(IdsOf(new)) = Len(new)
      /\ \A i \in 1..Len(new) : IdsOf(new)[i] = new[i].id
  BY IdList
<1> HIDE DEF f
<1>5. \A i \in 1..n : i \in 1..Len(new)
  OBVIOUS
<1>6. \A i, j \in 1..n : i < j => f[i] < f[j]
  <2> SUFFICES ASSUME NEW i \in 1..n, NEW j \in 1..n, i < j, ~(f[i] < f[j])
               PROVE  FALSE
    OBVIOUS
  <2>1. old[f[i]].id < old[f[j]].id
    BY <1>1, <1>5 DEF Increasing
  <2>2. f[j] < f[i] \/ f[j] = f[i]
    BY <1>1
  <2>3. old[f[i]].id \in Nat /\ old[f[j]].id \in Nat
    BY <1>1
  <2>4. f[j] < f[i] => old[f[j]].id < old[f[i]].id
    BY <1>1 DEF Increasing
  <2> QED BY <2>1, <2>2, <2>3, <2>4
<1>7. Finds(f, n, IdsOf(old), IdsOf(new))
  BY <1>1, <1>3, <1>4, <1>5, <1>6 DEF Finds
<1>8. n < Len(IdsOf(new)) => \A i \in 1..Len(IdsOf(old)) : IdsOf(old)[i] # IdsOf(new)[n + 1]
  <2> SUFFICES ASSUME n < Len(new), NEW i \in 1..Len(old)
               PROVE  IdsOf(old)[i] # IdsOf(new)[n + 1]
    BY <1>3, <1>4
  <2>1. n + 1 \in n + 1..Len(new) /\ n + 1 \in 1..Len(new)
    OBVIOUS
  <2>2. new[n + 1].id # old[i].id
    BY <2>1
  <2> QED BY <1>3, <1>4, <2>1, <2>2
<1>9. DrawnOf(old, new) = SubSeq(IdsOf(new), 1, n)
  <2> DEFINE ids == IdsOf(old)
             others == IdsOf(new)
  <2>1. ids \in Seq(Nat) /\ others \in Seq(Nat) /\ n \in 0..Len(others)
    BY <1>3, <1>4
  <2>2. f \in [1..n -> 1..Len(ids)]
    BY <1>2, <1>3
  <2>3. Finds(f, n, ids, others)
    BY <1>7
  <2>4. n < Len(others) => \A i \in 1..Len(ids) : ids[i] # others[n + 1]
    BY <1>8
  <2> HIDE DEF ids, others
  <2>5. Drawn(ids, others) = SubSeq(others, 1, n)
    BY <2>1, <2>2, <2>3, <2>4, DrawnUpToNewcomer
  <2> QED BY <2>5 DEF DrawnOf, ids, others
<1>10. Len(DrawnOf(old, new)) = n /\ \A i \in 1..n : DrawnOf(old, new)[i] = new[i].id
  <2> DEFINE ids == IdsOf(new)
  <2>1. ids \in Seq(Nat) /\ Len(ids) = Len(new) /\ \A i \in 1..n : ids[i] = new[i].id
    BY <1>4, <1>5
  <2> HIDE DEF ids
  <2>2. Len(SubSeq(ids, 1, n)) = n /\ \A i \in 1..n : SubSeq(ids, 1, n)[i] = ids[i]
    BY <2>1
  <2>3. DrawnOf(old, new) = SubSeq(ids, 1, n)
    BY <1>9 DEF ids
  <2> QED BY <2>1, <2>2, <2>3
<1>11. \A x : x \in Elements(DrawnOf(old, new)) <=> \E i \in 1..n : x = new[i].id
  <2>1. \A x : x \in Elements(DrawnOf(old, new)) <=> \E i \in 1..Len(DrawnOf(old, new)) : x = DrawnOf(old, new)[i]
    BY InElements, Zenon
  <2> QED BY <1>10, <2>1
<1>12. \A x : x \in Elements(IdsOf(old)) <=> \E i \in 1..Len(old) : x = old[i].id
  BY IdElements
<1>13. \A x : x \in Elements(IdsOf(new)) <=> \E i \in 1..Len(new) : x = new[i].id
  BY IdElements
<1>14. \A i \in 1..Len(new) : i \in 1..n \/ i \in n + 1..Len(new)
  OBVIOUS
<1>15. \A x : x \in Elements(DrawnOf(old, new))
               <=> x \in Elements(IdsOf(old)) /\ x \in Elements(IdsOf(new))
  <2> TAKE x
  <2>1. ASSUME NEW i \in 1..n, x = new[i].id
        PROVE  (\E k \in 1..Len(old) : x = old[k].id) /\ (\E k \in 1..Len(new) : x = new[k].id)
    BY <1>5, <2>1
  <2>2. ASSUME NEW i \in 1..Len(new), x = new[i].id, NEW k \in 1..Len(old), x = old[k].id
        PROVE  \E l \in 1..n : x = new[l].id
    BY <1>14, <2>2
  <2> QED BY <1>11, <1>12, <1>13, <2>1, <2>2
<1>16. Elements(DrawnOf(old, new)) = Elements(IdsOf(old)) \cap Elements(IdsOf(new))
  <2> DEFINE drawn == Elements(DrawnOf(old, new))
             before == Elements(IdsOf(old))
             after == Elements(IdsOf(new))
  <2>1. \A x : x \in drawn <=> x \in before /\ x \in after
    BY <1>15
  <2> HIDE DEF drawn, before, after
  <2>2. drawn = before \cap after
    BY <2>1
  <2> QED BY <2>2 DEF drawn, before, after
<1> QED BY <1>16 DEF DrawsSurvivors

(* Once the commands run, the enemies that survived the step come first,   *)
(* and those behind them have ids that were not given out before it.       *)
NewcomersInv ==
    phase \in {"commands", "idle", "quit"} =>
      \E n \in 0..Len(next.enemies) :
        /\ \A i \in 1..n : \E k \in 1..Len(prev.enemies) : next.enemies[i].id = prev.enemies[k].id
        /\ \A i \in n + 1..Len(next.enemies) : next.enemies[i].id >= prev.nextObjectId

LEMMA NewcomersSpawned ==
    ASSUME TypeOK, IdsInv, NewcomersInv, ExecSpawn
    PROVE  NewcomersInv'
<1> DEFINE type == commands[cursor].type
           new == NewEnemy(next.nextObjectId, type)
<1>0. next \in World /\ next.enemies \in Seq(Enemy) /\ next.nextObjectId \in Nat
      /\ prev.nextObjectId <= next.nextObjectId
  BY WorldFields DEF TypeOK, IdsInv
<1>1. commands[cursor] \in Command
  BY ElementOfSeq, LenProperties DEF ExecSpawn, NextCommand, TypeOK
<1>2. type \in EnemyTypes
  BY <1>1 DEF ExecSpawn, NextCommand, Command
<1>3. new \in Enemy /\ new.id = next.nextObjectId
  BY <1>0, <1>2, MapAssumption DEF NewEnemy, Enemy, Positions
<1>4. next' = [next EXCEPT !.enemies = Append(@, new), !.nextObjectId = @ + 1]
      /\ prev' = prev /\ phase = "commands" /\ phase' = "commands"
  BY DEF ExecSpawn, NextCommand
<1> HIDE DEF new, type
<1>5. next'.enemies = Append(next.enemies, new)
  BY <1>0, <1>4 DEF World
<1>6. /\ Len(next.enemies) \in Nat /\ Len(next'.enemies) = Len(next.enemies) + 1
      /\ \A i \in 1..Len(next.enemies) : next'.enemies[i] = next.enemies[i]
      /\ next'.enemies[Len(next.enemies) + 1] = new
  BY <1>0, <1>3, <1>5, AppendProperties, LenProperties
<1>7. PICK n \in 0..Len(next.enemies) :
        /\ \A i \in 1..n : \E k \in 1..Len(prev.enemies) : next.enemies[i].id = prev.enemies[k].id
        /\ \A i \in n + 1..Len(next.enemies) : next.enemies[i].id >= prev.nextObjectId
  BY <1>4 DEF NewcomersInv
<1>8. n \in 0..Len(next'.enemies)
  BY <1>6
<1>9. \A i \in 1..n : \E k \in 1..Len(prev.enemies) : next'.enemies[i].id = prev.enemies[k].id
  <2>1. \A i \in 1..n : i \in 1..Len(next.enemies)
    BY <1>6
  <2> QED BY <1>6, <1>7, <2>1
<1>10. \A i \in n + 1..Len(next'.enemies) : next'.enemies[i].id >= prev.nextObjectId
  <2> TAKE i \in n + 1..Len(next'.enemies)
  <2>1. CASE i \in n + 1..Len(next.enemies)
    <3>1. i \in 1..Len(next.enemies)
      BY <1>6, <2>1
    <3> QED BY <1>6, <1>7, <2>1, <3>1
  <2>2. CASE i = Len(next.enemies) + 1
    BY <1>0, <1>3, <1>6, <2>2
  <2> QED BY <1>6, <2>1, <2>2
<1>11. \E m \in 0..Len(next'.enemies) :
         /\ \A i \in 1..m : \E k \in 1..Len(prev'.enemies) : next'.enemies[i].id = prev'.enemies[k].id
         /\ \A i \in m + 1..Len(next'.enemies) : next'.enemies[i].id >= prev'.nextObjectId
  <2> WITNESS n \in 0..Len(next'.enemies)
  <2> QED BY <1>4, <1>9, <1>10
<1> QED BY <1>11 DEF NewcomersInv

LEMMA NewcomersStep ==
    ASSUME TypeOK, IdsInv, NewcomersInv, [Next]_vars
    PROVE  NewcomersInv'
<1>0. next \in World /\ Len(next.enemies) \in Nat /\ Len(<<>>) = 0
  BY WorldFields, EmptySeq DEF TypeOK
<1>1. CASE ProjectilesDone
  <2>1. UNCHANGED <<prev, next>> /\ phase \in Moving /\ phase # "enemies"
    BY <1>1 DEF ProjectilesDone, Moving
  <2>2. \A i \in 1..Len(next.enemies) : \E k \in 1..Len(prev.enemies) :
          next.enemies[i].id = prev.enemies[k].id
    BY <2>1 DEF IdsInv, Survivors
  <2>3. Len(next.enemies) + 1..Len(next.enemies) = {} /\ Len(next.enemies) \in 0..Len(next.enemies)
    BY <1>0
  <2> QED BY <2>1, <2>2, <2>3 DEF NewcomersInv
<1>2. CASE ExecSpawn
  BY <1>2, NewcomersSpawned
<1>3. CASE ExecDespawn
  <2>1. next'.enemies = <<>>
    BY <1>0, <1>3 DEF ExecDespawn, World
  <2> QED BY <1>0, <2>1 DEF NewcomersInv
<1>4. CASE UNCHANGED prev /\ next'.enemies = next.enemies
           /\ (phase' \in {"commands", "idle", "quit"} => phase \in {"commands", "idle", "quit"})
  BY <1>4 DEF NewcomersInv
<1>5. CASE ExecAddGold \/ ExecBuild
  <2>1. next'.enemies = next.enemies
    BY <1>0, <1>5 DEF ExecAddGold, ExecBuild, World
  <2> QED BY <1>4, <1>5, <2>1 DEF ExecAddGold, ExecBuild, NextCommand
<1>6. CASE IssueCommand \/ Quit \/ RejectBuild \/ EndTimeStep \/ UNCHANGED vars
  BY <1>4, <1>6 DEF IssueCommand, Quit, RejectBuild, NextCommand, EndTimeStep, vars
<1>7. CASE phase' \notin {"commands", "idle", "quit"}
  BY <1>7 DEF NewcomersInv
<1>8. CASE BeginTimeStep \/ EnemyLoop \/ TowerLoop \/ DropProjectile \/ FlyProjectile
             \/ HitProjectile \/ SplashEnemy \/ ProjectileSpent
  BY <1>7, <1>8
     DEF BeginTimeStep, EnemyLoop, RemoveEnemy, MoveEnemy, EnemiesDone, TowerLoop, SkipTower,
         AimTower, FireShot, HoldFire, TowersDone, DropProjectile, FlyProjectile,
         HitProjectile, SplashEnemy, ProjectileSpent
<1> QED
  BY <1>1, <1>2, <1>3, <1>5, <1>6, <1>8
     DEF Next, InTimeStep, ProjectileLoop, CommandLoop, Finished

LEMMA NewcomersInvariant == Spec => []NewcomersInv
<1>1. Init => NewcomersInv
  BY DEF Init, NewcomersInv
<1>2. TypeOK /\ IdsInv /\ NewcomersInv /\ [Next]_vars => NewcomersInv'
  BY NewcomersStep
<1> QED BY <1>1, <1>2, IdsInvariant, PTL DEF Spec

LEMMA EnemiesShown ==
    ASSUME TypeOK, IdsInv, NewcomersInv, phase = "idle"
    PROVE  DrawsSurvivors(prev.enemies, next.enemies)
<1>0. /\ Len(prev.enemies) \in Nat /\ Len(next.enemies) \in Nat /\ prev.nextObjectId \in Nat
      /\ \A i \in 1..Len(prev.enemies) : prev.enemies[i].id \in Nat
      /\ \A i \in 1..Len(next.enemies) : next.enemies[i].id \in Nat
  BY WorldFields, IdsAreNumbers DEF TypeOK
<1>1. /\ Increasing(prev.enemies) /\ Increasing(next.enemies)
      /\ \A k \in 1..Len(prev.enemies) : prev.enemies[k].id < prev.nextObjectId
  BY DEF IdsInv, FreshIds
<1>2. PICK n \in 0..Len(next.enemies) :
        /\ \A i \in 1..n : \E k \in 1..Len(prev.enemies) : next.enemies[i].id = prev.enemies[k].id
        /\ \A i \in n + 1..Len(next.enemies) : next.enemies[i].id >= prev.nextObjectId
  BY DEF NewcomersInv
<1>3. \A i \in n + 1..Len(next.enemies) : \A k \in 1..Len(prev.enemies) :
        next.enemies[i].id # prev.enemies[k].id
  <2>1. \A i \in n + 1..Len(next.enemies) : i \in 1..Len(next.enemies)
    BY <1>0
  <2> QED BY <1>0, <1>1, <1>2, <2>1
<1> QED BY <1>0, <1>1, <1>2, <1>3, SurvivorsFound

(* No tower ever leaves; new ones are built behind the others.             *)
LEMMA TowersShown ==
    ASSUME TypeOK, IdsInv, CopyInv, phase = "idle"
    PROVE  DrawsSurvivors(prev.towers, next.towers)
<1> DEFINE n == Len(prev.towers)
<1>0. /\ Len(prev.towers) \in Nat /\ Len(next.towers) \in Nat
      /\ \A i \in 1..Len(prev.towers) : prev.towers[i].id \in Nat
      /\ \A i \in 1..Len(next.towers) : next.towers[i].id \in Nat
  BY WorldFields, IdsAreNumbers DEF TypeOK
<1>1. Increasing(prev.towers) /\ Increasing(next.towers) /\ n <= Len(next.towers)
  BY DEF IdsInv, FreshIds, CopyInv, Afterwards
<1>2. \A k \in 1..n : k \in 1..Len(next.towers) /\ next.towers[k].id = prev.towers[k].id
  BY <1>0, <1>1 DEF CopyInv, SameTower
<1>3. \A i \in n + 1..Len(next.towers) : \A k \in 1..n : next.towers[i].id # prev.towers[k].id
  <2> SUFFICES ASSUME NEW i \in n + 1..Len(next.towers), NEW k \in 1..n
               PROVE  next.towers[i].id # prev.towers[k].id
    OBVIOUS
  <2>1. i \in 1..Len(next.towers) /\ k \in 1..Len(next.towers) /\ k < i
    BY <1>0, <1>1
  <2>2. next.towers[k].id < next.towers[i].id
    BY <1>1, <2>1 DEF Increasing
  <2> QED BY <1>0, <1>2, <2>1, <2>2
<1>4. n \in 0..Len(next.towers)
  BY <1>0, <1>1
<1> QED BY <1>0, <1>1, <1>2, <1>3, <1>4, SurvivorsFound

(* Every enemy and every tower of both states is drawn, and no other.      *)
THEOREM SurvivorsAreDrawn == Spec => []SurvivorsDrawn
<1>1. TypeOK /\ IdsInv /\ CopyInv /\ NewcomersInv => SurvivorsDrawn
  BY EnemiesShown, TowersShown DEF SurvivorsDrawn
<1> QED BY <1>1, IdsInvariant, CopyInvariant, NewcomersInvariant, PTL

-----------------------------------------------------------------------------
(* Projectiles.  The n that were launched in this step come first; behind  *)
(* them are the m in flight, f telling where each was in the old list.     *)
InFlight(n, m, f) ==
    /\ Len(next.projectiles) = n + m
    /\ \A i \in 1..n : next.projectiles[i].id >= prev.nextObjectId
    /\ \A k \in 1..m : next.projectiles[n + k].id = prev.projectiles[f[k]].id
    /\ \A k, l \in 1..m : k < l => f[k] < f[l]
    /\ phase \in {"projectiles", "splash"} => \A k \in 1..m : f[k] < cursor

FlightInv ==
    /\ phase \in {"towers", "firing"} =>
         \A i \in 1..Len(next.projectiles) : next.projectiles[i].id >= prev.nextObjectId
    /\ phase \in Afterwards =>
         \E n, m \in Nat : \E f \in [1..m -> 1..Len(prev.projectiles)] : InFlight(n, m, f)

LEMMA FlightFired ==
    ASSUME TypeOK, IdsInv, FlightInv, FireShot
    PROVE  FlightInv'
<1> DEFINE tower == next.towers[cursor]
           shot == [id |-> next.nextObjectId, type |-> tower.type,
                    targetIdx |-> target, targetId |-> next.enemies[target].id]
<1>0. /\ next \in World /\ next.projectiles \in Seq(Projectile) /\ next.nextObjectId \in Nat
      /\ prev.nextObjectId <= next.nextObjectId
      /\ phase = "firing" /\ phase' = "firing" /\ prev' = prev
  BY WorldFields DEF TypeOK, IdsInv, FireShot
<1>1. next'.projectiles = Append(next.projectiles, shot) /\ shot.id = next.nextObjectId
  BY <1>0 DEF FireShot, World
<1> HIDE DEF shot
<1>2. /\ Len(next.projectiles) \in Nat /\ Len(next'.projectiles) = Len(next.projectiles) + 1
      /\ \A i \in 1..Len(next.projectiles) : next'.projectiles[i] = next.projectiles[i]
      /\ next'.projectiles[Len(next.projectiles) + 1] = shot
  BY <1>0, <1>1, LenProperties
<1>3. \A i \in 1..Len(next'.projectiles) : next'.projectiles[i].id >= prev.nextObjectId
  <2> TAKE i \in 1..Len(next'.projectiles)
  <2>1. CASE i \in 1..Len(next.projectiles)
    BY <1>0, <1>2, <2>1 DEF FlightInv
  <2>2. CASE i = Len(next.projectiles) + 1
    BY <1>0, <1>1, <1>2, <2>2
  <2> QED BY <1>2, <2>1, <2>2
<1> QED BY <1>0, <1>3 DEF FlightInv, Afterwards

LEMMA FlightFlown ==
    ASSUME TypeOK, FlightInv, FlyProjectile
    PROVE  FlightInv'
<1> DEFINE p == prev.projectiles[cursor]
<1>0. /\ next \in World /\ prev \in World /\ next.projectiles \in Seq(Projectile)
      /\ phase = "projectiles" /\ phase' = "projectiles" /\ prev' = prev
      /\ cursor' = cursor + 1 /\ cursor \in 1..Len(prev.projectiles)
  BY WorldFields DEF TypeOK, FlyProjectile
<1>1. p \in Projectile
  BY <1>0, WorldFields
<1>2. next'.projectiles = Append(next.projectiles, p)
  BY <1>0 DEF FlyProjectile, World
<1>3. /\ Len(next.projectiles) \in Nat /\ Len(next'.projectiles) = Len(next.projectiles) + 1
      /\ \A i \in 1..Len(next.projectiles) : next'.projectiles[i] = next.projectiles[i]
      /\ next'.projectiles[Len(next.projectiles) + 1] = p
  BY <1>0, <1>1, <1>2, AppendProperties, LenProperties
<1>4. PICK n \in Nat, m \in Nat :
        \E f \in [1..m -> 1..Len(prev.projectiles)] : InFlight(n, m, f)
  BY <1>0 DEF FlightInv, Afterwards
<1>14. PICK f \in [1..m -> 1..Len(prev.projectiles)] : InFlight(n, m, f)
  BY <1>4
<1>5. /\ Len(next.projectiles) = n + m
      /\ \A i \in 1..n : next.projectiles[i].id >= prev.nextObjectId
      /\ \A k \in 1..m : next.projectiles[n + k].id = prev.projectiles[f[k]].id
      /\ \A k, l \in 1..m : k < l => f[k] < f[l]
      /\ \A k \in 1..m : f[k] < cursor
  BY <1>0, <1>14 DEF InFlight
<1>6. PICK g \in [1..m + 1 -> 1..Len(prev.projectiles)] :
        g[m + 1] = cursor /\ \A k \in 1..m : g[k] = f[k]
  <2> DEFINE h == [k \in 1..m + 1 |-> IF k = m + 1 THEN cursor ELSE f[k]]
  <2>1. \A k \in 1..m + 1 : k = m + 1 \/ k \in 1..m
    BY <1>4
  <2>2. h \in [1..m + 1 -> 1..Len(prev.projectiles)]
    BY <1>0, <2>1
  <2>3. h[m + 1] = cursor /\ \A k \in 1..m : h[k] = f[k]
    BY <1>4
  <2> QED BY <2>2, <2>3
<1> HIDE DEF p
<1>7. Len(next'.projectiles) = n + (m + 1)
  BY <1>3, <1>5
<1>8. \A i \in 1..n : next'.projectiles[i].id >= prev.nextObjectId
  <2>1. \A i \in 1..n : i \in 1..Len(next.projectiles)
    BY <1>5
  <2> QED BY <1>3, <1>5, <2>1
<1>9. \A k \in 1..m + 1 : next'.projectiles[n + k].id = prev.projectiles[g[k]].id
  <2> TAKE k \in 1..m + 1
  <2>1. CASE k \in 1..m
    <3>1. n + k \in 1..Len(next.projectiles)
      BY <1>5, <2>1
    <3> QED BY <1>3, <1>5, <1>6, <2>1, <3>1
  <2>2. CASE k = m + 1
    <3>1. n + k = Len(next.projectiles) + 1
      BY <1>5, <2>2
    <3> QED BY <1>3, <1>6, <2>2, <3>1 DEF p
  <2> QED BY <2>1, <2>2
<1>10. \A k, l \in 1..m + 1 : k < l => g[k] < g[l]
  <2> SUFFICES ASSUME NEW k \in 1..m + 1, NEW l \in 1..m + 1, k < l PROVE g[k] < g[l]
    OBVIOUS
  <2>1. k \in 1..m /\ (l \in 1..m \/ l = m + 1)
    OBVIOUS
  <2> QED BY <1>5, <1>6, <2>1
<1>11. \A k \in 1..m + 1 : g[k] < cursor'
  <2> SUFFICES ASSUME NEW k \in 1..m + 1 PROVE g[k] < cursor'
    OBVIOUS
  <2>1. g[k] \in Int /\ cursor \in Int /\ cursor' = cursor + 1
    BY <1>0, <1>6
  <2>2. CASE k = m + 1
    BY <1>6, <2>1, <2>2
  <2>3. CASE k \in 1..m
    <3>1. g[k] < cursor
      BY <1>5, <1>6, <2>3
    <3> QED BY <2>1, <3>1
  <2> QED BY <2>2, <2>3
<1>12. InFlight(n, m + 1, g)'
  BY <1>0, <1>7, <1>8, <1>9, <1>10, <1>11 DEF InFlight
<1>13. \E i, j \in Nat : \E h \in [1..j -> 1..Len(prev'.projectiles)] : InFlight(i, j, h)'
  <2>1. m + 1 \in Nat /\ g \in [1..m + 1 -> 1..Len(prev'.projectiles)]
    BY <1>0, <1>6
  <2> QED BY <1>12, <2>1, Zenon
<1> QED BY <1>0, <1>13 DEF FlightInv

LEMMA FlightBegun ==
    ASSUME TypeOK, FlightInv, TowersDone
    PROVE  FlightInv'
<1>0. /\ Len(next.projectiles) \in Nat /\ UNCHANGED <<prev, next>>
      /\ phase = "towers" /\ phase' = "projectiles"
  BY WorldFields DEF TypeOK, TowersDone
<1>1. PICK n \in Nat : n = Len(next.projectiles)
  BY <1>0
<1>2. PICK f \in [1..0 -> 1..Len(prev.projectiles)] : TRUE
  <2> DEFINE e == [k \in 1..0 |-> 1]
  <2>1. e \in [1..0 -> 1..Len(prev.projectiles)]
    OBVIOUS
  <2> QED BY <2>1
<1>3. 1..0 = {} /\ n = n + 0
  BY <1>1
<1>4. InFlight(n, 0, f)'
  BY <1>0, <1>1, <1>3 DEF InFlight, FlightInv
<1>5. \E i, j \in Nat : \E h \in [1..j -> 1..Len(prev'.projectiles)] : InFlight(i, j, h)'
  <2>1. 0 \in Nat /\ n \in Nat /\ f \in [1..0 -> 1..Len(prev'.projectiles)]
    BY <1>0, <1>1
  <2> QED BY <1>4, <2>1, Zenon
<1> QED BY <1>0, <1>5 DEF FlightInv

(* All steps that leave the projectiles alone.                             *)
LEMMA FlightKept ==
    ASSUME TypeOK, FlightInv, prev' = prev, next'.projectiles = next.projectiles,
           phase \in Afterwards, phase' \in Afterwards,
           phase' \in {"projectiles", "splash"} =>
             phase \in {"projectiles", "splash"} /\ cursor' \in {cursor, cursor + 1}
    PROVE  FlightInv'
<1>0. PICK n \in Nat, m \in Nat :
        \E f \in [1..m -> 1..Len(prev.projectiles)] : InFlight(n, m, f)
  BY DEF FlightInv
<1>1. PICK f \in [1..m -> 1..Len(prev.projectiles)] : InFlight(n, m, f)
  BY <1>0
<1>2. \A k \in 1..m : f[k] \in Int
  BY LenProperties DEF TypeOK
<1>3. cursor \in Int
  BY DEF TypeOK
<1>4. phase' \in {"projectiles", "splash"} => \A k \in 1..m : f[k] < cursor'
  BY <1>1, <1>2, <1>3 DEF InFlight
<1>5. InFlight(n, m, f)'
  BY <1>1, <1>4 DEF InFlight
<1>6. \E i, j \in Nat : \E h \in [1..j -> 1..Len(prev'.projectiles)] : InFlight(i, j, h)'
  BY <1>5
<1> QED BY <1>6 DEF FlightInv, Afterwards

LEMMA FlightStep ==
    ASSUME TypeOK, IdsInv, FlightInv, [Next]_vars
    PROVE  FlightInv'
<1>0. next \in World /\ Len(<<>>) = 0
  BY EmptySeq DEF TypeOK
<1>1. CASE FireShot
  BY <1>1, FlightFired
<1>2. CASE TowersDone
  BY <1>2, FlightBegun
<1>3. CASE FlyProjectile
  BY <1>3, FlightFlown
<1>4. CASE EnemiesDone
  <2>1. next'.projectiles = <<>> /\ phase' = "towers"
    BY <1>4 DEF EnemiesDone, IdsInv
  <2> QED BY <1>0, <2>1 DEF FlightInv, Afterwards
<1>5. CASE SkipTower \/ AimTower \/ HoldFire
  <2>1. next'.projectiles = next.projectiles
    BY <1>0, <1>5 DEF SkipTower, AimTower, HoldFire, World
  <2>2. phase \in {"towers", "firing"} /\ phase' \in {"towers", "firing"} /\ prev' = prev
    BY <1>5 DEF SkipTower, AimTower, HoldFire
  <2> QED BY <2>1, <2>2 DEF FlightInv, Afterwards
<1>6. CASE HitProjectile \/ SplashEnemy
  <2>1. next'.projectiles = next.projectiles
    BY <1>6, HitsKeepIds
  <2> QED BY <1>6, <2>1, FlightKept DEF HitProjectile, SplashEnemy, Afterwards
<1>7. CASE ExecSpawn \/ ExecDespawn \/ ExecAddGold \/ ExecBuild
  <2>1. next'.projectiles = next.projectiles
    BY <1>0, <1>7 DEF ExecSpawn, ExecDespawn, ExecAddGold, ExecBuild, World
  <2>2. prev' = prev /\ phase = "commands" /\ phase' = "commands"
    BY <1>7 DEF ExecSpawn, ExecDespawn, ExecAddGold, ExecBuild, NextCommand
  <2> QED BY <2>1, <2>2, FlightKept DEF Afterwards
<1>8. CASE IssueCommand \/ Quit \/ DropProjectile \/ ProjectileSpent \/ ProjectilesDone
             \/ RejectBuild \/ EndTimeStep
  <2>1. UNCHANGED <<prev, next>> /\ phase \in Afterwards /\ phase' \in Afterwards
    BY <1>8 DEF IssueCommand, Quit, DropProjectile, ProjectileSpent, ProjectilesDone,
                RejectBuild, NextCommand, EndTimeStep, Afterwards
  <2>2. phase' \in {"projectiles", "splash"} =>
          phase \in {"projectiles", "splash"} /\ cursor' \in {cursor, cursor + 1}
    BY <1>8 DEF IssueCommand, Quit, DropProjectile, ProjectileSpent, ProjectilesDone,
                RejectBuild, NextCommand, EndTimeStep
  <2> QED BY <2>1, <2>2, FlightKept
<1>9. CASE BeginTimeStep \/ RemoveEnemy \/ MoveEnemy
  <2>1. phase' = "enemies"
    BY <1>9 DEF BeginTimeStep, RemoveEnemy, MoveEnemy
  <2> QED BY <2>1 DEF FlightInv, Afterwards
<1>10. CASE UNCHANGED vars
  BY <1>10 DEF vars, FlightInv, InFlight
<1> QED
  BY <1>1, <1>2, <1>3, <1>4, <1>5, <1>6, <1>7, <1>8, <1>9, <1>10
     DEF Next, InTimeStep, EnemyLoop, TowerLoop, ProjectileLoop, CommandLoop, Finished

LEMMA FlightInvariant == Spec => []FlightInv
<1>1. Init => FlightInv
  BY DEF Init, FlightInv, Afterwards
<1>2. TypeOK /\ IdsInv /\ FlightInv /\ [Next]_vars => FlightInv'
  BY FlightStep
<1> QED BY <1>1, <1>2, IdsInvariant, PTL DEF Spec

LEMMA ShotsShown ==
    ASSUME TypeOK, IdsInv, FlightInv, phase = "idle"
    PROVE  DrawnOf(prev.projectiles, next.projectiles)
             = IF Launched THEN <<>> ELSE IdsOf(next.projectiles)
<1> DEFINE old == prev.projectiles
           new == next.projectiles
           ids == IdsOf(old)
           others == IdsOf(new)
<1>0. /\ Len(old) \in Nat /\ Len(new) \in Nat /\ prev.nextObjectId \in Nat
      /\ \A i \in 1..Len(old) : old[i].id \in Nat
      /\ \A i \in 1..Len(new) : new[i].id \in Nat
  BY WorldFields, IdsAreNumbers DEF TypeOK
<1>1. \A i \in 1..Len(old) : old[i].id < prev.nextObjectId
  BY DEF IdsInv, FreshIds
<1>9. PICK n \in Nat, m \in Nat : \E f \in [1..m -> 1..Len(old)] : InFlight(n, m, f)
  BY DEF FlightInv, Afterwards
<1>2. PICK f \in [1..m -> 1..Len(old)] : InFlight(n, m, f)
  BY <1>9
<1>3. /\ Len(new) = n + m
      /\ \A i \in 1..n : new[i].id >= prev.nextObjectId
      /\ \A k \in 1..m : new[n + k].id = old[f[k]].id
      /\ \A k, l \in 1..m : k < l => f[k] < f[l]
  BY <1>2 DEF InFlight
<1>4. /\ ids \in Seq(Nat) /\ Len(ids) = Len(old) /\ \A i \in 1..Len(old) : ids[i] = old[i].id
      /\ others \in Seq(Nat) /\ Len(others) = Len(new)
      /\ \A i \in 1..Len(new) : others[i] = new[i].id
  BY <1>0, IdList
<1>5. Launched => n # 0
  <2> SUFFICES ASSUME Launched, n = 0 PROVE FALSE
    OBVIOUS
  <2>1. PICK i \in 1..Len(new) : new[i].id >= prev.nextObjectId
    BY DEF Launched
  <2>2. i \in 1..m /\ n + i = i
    BY <1>3
  <2>3. new[i].id = old[f[i]].id /\ f[i] \in 1..Len(old)
    BY <1>3, <2>2
  <2> QED BY <1>0, <1>1, <2>1, <2>3
<1>6. ~Launched => n = 0
  <2>1. n # 0 => 1 \in 1..n /\ 1 \in 1..Len(new)
    BY <1>3
  <2> QED BY <1>3, <2>1 DEF Launched
<1>7. CASE Launched
  <2> DEFINE e == [k \in 1..0 |-> 1]
  <2>1. 1 \in 1..n /\ 1 \in 1..Len(new)
    BY <1>3, <1>5, <1>7
  <2>2. \A i \in 1..Len(old) : old[i].id # new[1].id
    BY <1>0, <1>1, <1>3, <2>1
  <2>3. e \in [1..0 -> 1..Len(ids)] /\ Finds(e, 0, ids, others)
    BY DEF Finds
  <2>4. 0 \in 0..Len(others) /\ ids \in Seq(Nat) /\ others \in Seq(Nat)
    BY <1>0, <1>4
  <2>5. 0 < Len(others) => \A i \in 1..Len(ids) : ids[i] # others[0 + 1]
    BY <1>4, <2>1, <2>2
  <2> HIDE DEF e, ids, others
  <2>6. Drawn(ids, others) = SubSeq(others, 1, 0)
    BY <2>3, <2>4, <2>5, DrawnUpToNewcomer
  <2>7. SubSeq(others, 1, 0) = <<>>
    BY SubSeqEmpty
  <2> QED BY <1>7, <2>6, <2>7 DEF DrawnOf, ids, others
<1>8. CASE ~Launched
  <2>1. n = 0 /\ Len(new) = m
    BY <1>3, <1>6, <1>8
  <2>2. Finds(f, m, ids, others)
    <3>1. \A k \in 1..m : k \in 1..Len(new) /\ n + k = k
      BY <2>1
    <3>2. \A k \in 1..m : ids[f[k]] = others[k]
      BY <1>3, <1>4, <3>1
    <3> QED BY <1>3, <3>2 DEF Finds
  <2>3. f \in [1..m -> 1..Len(ids)] /\ m \in 0..Len(others) /\ ~(m < Len(others))
    BY <1>4, <2>1
  <2>4. ids \in Seq(Nat) /\ others \in Seq(Nat) /\ Len(others) = m
    BY <1>4, <2>1
  <2> HIDE DEF ids, others
  <2>5. Drawn(ids, others) = SubSeq(others, 1, m)
    BY <2>2, <2>3, <2>4, DrawnUpToNewcomer
  <2>6. SubSeq(others, 1, m) = others
    BY <2>4
  <2> QED BY <1>8, <2>5, <2>6 DEF DrawnOf, ids, others
<1> QED BY <1>7, <1>8

(* One launched projectile hides all those in flight for a step, whatever  *)
(* the towers, the projectiles and their targets.                          *)
THEOREM LaunchHidesThem == Spec => []LaunchHidesProjectiles
<1>1. TypeOK /\ IdsInv /\ FlightInv => LaunchHidesProjectiles
  BY ShotsShown DEF LaunchHidesProjectiles
<1> QED BY <1>1, IdsInvariant, FlightInvariant, PTL

=============================================================================
