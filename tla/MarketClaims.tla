---------------------------- MODULE MarketClaims ----------------------------
(***************************************************************************)
(* What comments of the on-chain program say of a market and the program   *)
(* does not do.  Each property is checked by a run of its own, which finds *)
(* the instructions that break it; README.md tells the stories.            *)
(***************************************************************************)
EXTENDS MCMarketLedger

\* resolution.rs: the tokens of the program burn without underflow, so that the
\* collateral can be released.  token_yes_total_supply misses what add_liquidity
\* minted, so the subtraction fails while the pool holds more than that.
BurnNeverUnderflows ==
  phase = "over" /\ ~completed => supply.yes >= ata.yes
=============================================================================
