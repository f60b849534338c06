--------------------------- MODULE LifecycleClaims ---------------------------
(***************************************************************************)
(* What a document says of the resolution of markets and the workers do    *)
(* not do.                                                                 *)
(***************************************************************************)
EXTENDS MCResolutionLifecycle

\* README.md: the resolver stores a resolution for a market it is sent.  Its
\* insertion always lacks columns the table demands, so only a worker that
\* reports to the API can end the status "resolving".
ResolverResolves ==
  \A m \in Markets :
    status[m] = "resolving" /\ (\E msg \in queue : msg.market = m) ~> Rows(m) # {}
==============================================================================
