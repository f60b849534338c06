--------------------------- MODULE MCCurveMarket ---------------------------
(* Instances of CurveMarket for TLC: numbers of ten bits on either side of  *)
(* the point, the multipliers of the stages in tenths (BPS = 10).           *)
EXTENDS CurveMarket

Multipliers == [normal |-> 10, mid |-> 12, final |-> 15]
=============================================================================
