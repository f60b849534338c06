---------------------------- MODULE MCLpPositions ----------------------------
(* Instances of LpPositions for TLC.                                         *)
EXTENDS LpPositions, TLC

CONSTANTS lp1, lp2

EitherLp == Permutations(LPs)
=============================================================================
