-------------------------- MODULE MCWalletSessions --------------------------
(* Instances of WalletSessions for TLC. *)
EXTENDS WalletSessions, TLC
CONSTANTS u1, u2, n1, n2, m1, m2, s1, s2
Alike == Permutations({u1, u2}) \cup Permutations({n1, n2}) \cup Permutations({m1, m2})
           \cup Permutations({s1, s2})
=============================================================================
