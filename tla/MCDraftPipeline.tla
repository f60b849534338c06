--------------------------- MODULE MCDraftPipeline ---------------------------
(* Instances of DraftPipeline for TLC: n1 and n2 come from news, p1 and p2
   from users. *)
EXTENDS DraftPipeline, TLC

CONSTANTS n1, n2, p1, p2

EitherNews == Permutations({n1, n2})
EitherUser == Permutations({p1, p2})
=============================================================================
