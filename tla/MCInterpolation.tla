-------------------------- MODULE MCInterpolation --------------------------
(* Every pair of lists of up to four of four ids.                          *)
EXTENDS Interpolation

=============================================================================
