------------------------------ MODULE MCAngles ------------------------------
(* Twelve directions, on the circle of radius 5.                           *)
EXTENDS Angles

=============================================================================
