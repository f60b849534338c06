--------------------------- MODULE MCProposalApi ----------------------------
(* Instances of ProposalApi for TLC: four requests without a fault, three    *)
(* with one, three long enough for the windows to be cleaned up, or one       *)
(* proposal and three calls of the worker routes.                             *)
EXTENDS ProposalApi, TLC

Alike == Permutations(Pages) \cup Permutations(Calls)
MCLimits == <<1, 2>>
MCLengths == <<1, 2>>
MCBudgets == {[requests |-> 4, calls |-> 0, faults |-> 0, clock |-> 2],
              [requests |-> 3, calls |-> 0, faults |-> 0, clock |-> 4],
              [requests |-> 3, calls |-> 0, faults |-> 1, clock |-> 2],
              [requests |-> 1, calls |-> 3, faults |-> 1, clock |-> 0]}
=============================================================================
