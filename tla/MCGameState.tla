---------------------------- MODULE MCGameState ----------------------------
(* Instances of GameState for TLC.  "Combat": mortars that fire twice in   *)
(* one step, with ids for two enemies, a tower and three shots: splashes   *)
(* with two victims, shots of one step that meet the same corpse.          *)
(* "Targeting": one gun, many enemies.  "Economy": guns and mortars, full  *)
(* command queues, and ids enough for a bounty to buy the second tower.    *)
EXTENDS GameStateRefinement, GameStateView, TLC

CombatMaxHealth == "grunt" :> 2
CombatGoldReward == "grunt" :> 1
CombatCost == "mortar" :> 2
CombatShotInterval == "mortar" :> 1
CombatDamage == "mortar" :> 1

EconomyMaxHealth == "tank" :> 2
EconomyGoldReward == "tank" :> 3
EconomyCost == "gun" :> 2 @@ "mortar" :> 3
EconomyShotInterval == "gun" :> 1 @@ "mortar" :> 3
EconomyDamage == "gun" :> 2 @@ "mortar" :> 1

TargetingMaxHealth == "grunt" :> 2
TargetingGoldReward == "grunt" :> 0
TargetingCost == "gun" :> 3
TargetingShotInterval == "gun" :> 2
TargetingDamage == "gun" :> 2
Uninitialised == -100

=============================================================================
