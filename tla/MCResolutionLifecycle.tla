------------------------ MODULE MCResolutionLifecycle ------------------------
(* Instances of ResolutionLifecycle for TLC.                                 *)
EXTENDS ResolutionLifecycle, TLC

CONSTANTS m1, m2, q1, q2

EitherRequest == Permutations(Requests)
=============================================================================
