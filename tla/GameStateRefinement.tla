------------------------ MODULE GameStateRefinement ------------------------
(***************************************************************************)
(* GameState implements Battlefield.  While the enemy loop runs, the       *)
(* enemies it has not reached yet are still those of the previous buffer;  *)
(* until the tower loop is through, the towers are.                        *)
(***************************************************************************)
EXTENDS GameState

Seen(e) == [id |-> e.id, type |-> e.type, health |-> e.health, home |-> e.pos = "goal"]
Placed(t) == [id |-> t.id, type |-> t.type, tile |-> t.tile]

EnemiesInWorld ==
    {Seen(next.enemies[i]) : i \in 1..Len(next.enemies)}
      \cup IF phase = "enemies"
           THEN {Seen(prev.enemies[i]) : i \in cursor..Len(prev.enemies)}
           ELSE {}

TowersInWorld ==
    LET list == IF phase \in Afterwards THEN next.towers ELSE prev.towers
    IN  {Placed(list[i]) : i \in 1..Len(list)}

Field == INSTANCE Battlefield WITH
    gold <- next.gold,
    enemies <- EnemiesInWorld,
    towers <- TowersInWorld,
    minted <- next.nextObjectId

(* Double buffering, deferred commands and stale indices do not show: a    *)
(* session is a Battlefield in which every step of every loop is one step  *)
(* of the world or none.                                                   *)
ImplementsBattlefield == Field!Spec

=============================================================================
