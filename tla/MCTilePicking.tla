--------------------------- MODULE MCTilePicking ---------------------------
(* A map wider than it is high, with buildable tiles at opposite corners,  *)
(* under a window of odd width.                                            *)
EXTENDS TilePicking

MCBuildingAllowed == {<<0, 0>>, <<1, 1>>, <<2, 0>>}
MCPixelsPerUnit == <<4, 3, 1>>

=============================================================================
