-------------------------- MODULE MCCollateralDlc ---------------------------
(***************************************************************************)
(* Terms on both sides of every limit of the builder: 0, a fixed term that *)
(* leaves less than the gap, exactly the gap, one block more, and more.    *)
(***************************************************************************)
EXTENDS CollateralDlc

MCHeights == 0 .. 7

=============================================================================
