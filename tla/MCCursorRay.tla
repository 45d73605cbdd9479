---------------------------- MODULE MCCursorRay ----------------------------
(* One buildable tile under a window of six pixels.                        *)
EXTENDS CursorRay

MCBuildingAllowed == {<<0, 0>>}
MCPixelsPerUnit == <<4, 3>>

=============================================================================
