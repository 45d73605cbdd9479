---------------------------- MODULE Battlefield ----------------------------
(***************************************************************************)
(* What a tower-defence session promises its player, without buffers,      *)
(* time steps, loops or indices: one world of enemies and towers, each     *)
(* under an id that is never used again, and a purse.  GameState is shown  *)
(* to implement it.                                                        *)
(***************************************************************************)
EXTENDS Integers

CONSTANTS
    EnemyTypes, MaxHealth, GoldReward,
    TowerTypes, Cost, Damage,
    BuildableTiles, GoldAmounts, StartingGold

VARIABLES
    gold,
    enemies,        \* [id, type, health, home] of the enemies on the map, corpses included
    towers,         \* [id, type, tile] of the towers on the map
    minted          \* how many ids have been given out: 0 .. minted - 1

worldVars == <<gold, enemies, towers, minted>>

Init ==
    /\ gold = StartingGold
    /\ enemies = {} /\ towers = {}
    /\ minted = 0

Spawn(type) ==
    /\ enemies' = enemies \cup {[id |-> minted, type |-> type,
                                health |-> MaxHealth[type], home |-> FALSE]}
    /\ minted' = minted + 1
    /\ UNCHANGED <<gold, towers>>

(* A tower is paid for in full when it is built, or it is not built.       *)
Build(type, tile) ==
    /\ gold >= Cost[type]
    /\ gold' = gold - Cost[type]
    /\ towers' = towers \cup {[id |-> minted, type |-> type, tile |-> tile]}
    /\ minted' = minted + 1
    /\ UNCHANGED enemies

Launch ==           \* projectiles are not part of this view, their ids are
    /\ towers # {} /\ \E e \in enemies : e.health > 0
    /\ minted' = minted + 1
    /\ UNCHANGED <<gold, enemies, towers>>

(* Health falls to zero at worst; the blow that brings it there, and any   *)
(* that lands on the corpse, pays the reward.                              *)
Strike(e, damage) ==
    /\ IF e.health > damage
       THEN /\ enemies' = (enemies \ {e}) \cup {[e EXCEPT !.health = @ - damage]}
            /\ gold' = gold
       ELSE /\ enemies' = (enemies \ {e}) \cup {[e EXCEPT !.health = 0]}
            /\ gold' = gold + GoldReward[e.type]
    /\ UNCHANGED <<towers, minted>>

Walk(e, home) ==    \* home: at the end of the road
    /\ e.health > 0 /\ ~e.home
    /\ enemies' = (enemies \ {e}) \cup {[e EXCEPT !.home = home]}
    /\ UNCHANGED <<gold, towers, minted>>

Leave(e) ==
    /\ e.health = 0 \/ e.home
    /\ enemies' = enemies \ {e}
    /\ UNCHANGED <<gold, towers, minted>>

DespawnAll ==
    /\ enemies' = {}
    /\ UNCHANGED <<gold, towers, minted>>

Grant(amount) ==
    /\ gold' = gold + amount
    /\ UNCHANGED <<enemies, towers, minted>>

Next ==
    \/ \E type \in EnemyTypes : Spawn(type)
    \/ \E type \in TowerTypes, tile \in BuildableTiles : Build(type, tile)
    \/ Launch
    \/ \E e \in enemies, type \in TowerTypes : Strike(e, Damage[type])
    \/ \E e \in enemies, home \in BOOLEAN : Walk(e, home)
    \/ \E e \in enemies : Leave(e)
    \/ DespawnAll
    \/ \E amount \in GoldAmounts : Grant(amount)

Spec == Init /\ [][Next]_worldVars

=============================================================================
