----------------------------- MODULE MCGameLoop -----------------------------
(* Instances of GameLoop for TLC: a machine fast enough for the fastest    *)
(* speed, with every speed of the menu.                                    *)
EXTENDS GameLoop

=============================================================================
