--------------------------- MODULE GameStateView ---------------------------
(***************************************************************************)
(* What the player sees between two time steps: GameState::Interpolate,    *)
(* called by GameSession::InterpolateState on the two buffers, draws the   *)
(* entities that InterpolateEntities finds in both.                        *)
(***************************************************************************)
EXTENDS GameState, Drawing

IdsOf(list) == [i \in 1..Len(list) |-> list[i].id]

Elements(list) == {list[i] : i \in 1..Len(list)}

DrawnOf(old, new) == Drawn(IdsOf(old), IdsOf(new))

Launched == \E i \in 1..Len(next.projectiles) : next.projectiles[i].id >= prev.nextObjectId

(* Every enemy and every tower that both states hold is drawn, none is     *)
(* drawn that only one of them holds: a spawned enemy or a new tower waits *)
(* one step to appear, and one that left is gone at once.                  *)
DrawsSurvivors(old, new) ==
    Elements(DrawnOf(old, new)) = Elements(IdsOf(old)) \cap Elements(IdsOf(new))

SurvivorsDrawn ==
    phase = "idle" =>
      /\ DrawsSurvivors(prev.enemies, next.enemies)
      /\ DrawsSurvivors(prev.towers, next.towers)

(* Launched projectiles are stored in front of those in flight.  So all    *)
(* projectiles in flight are drawn if no tower fired in the last step, and *)
(* none at all if one did.                                                 *)
LaunchHidesProjectiles ==
    phase = "idle" =>
      DrawnOf(prev.projectiles, next.projectiles)
        = IF Launched THEN <<>> ELSE IdsOf(next.projectiles)

=============================================================================
