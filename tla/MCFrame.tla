------------------------------ MODULE MCFrame ------------------------------
(* Lists of up to three sprites with two textures, the placeholder and two  *)
(* layers, in batches of two; Im3d lists of two lengths.                   *)
EXTENDS Frame

=============================================================================
