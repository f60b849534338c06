--------------------------- MODULE MCMarketLedger ---------------------------
(* Instances of MarketLedger for TLC: the rates in quarters (BPS = 4).      *)
EXTENDS MarketLedger

Free == {[platform |-> 0, lp |-> 0]}
\* Half of the amount to the platform, or half of it to the LPs.
Halves == {[platform |-> 2, lp |-> 0], [platform |-> 0, lp |-> 2]}
\* Tokens at half a USDC, and at half a USDC or a whole one.
EvenOdds == {[usdc |-> n \div 2, tokens |-> n] : n \in 0 .. 8}
AnyOdds == EvenOdds \cup {[usdc |-> n, tokens |-> n] : n \in 0 .. 8}
HalfExits == [skew \in {"even", "mild", "moderate", "high"} |-> 2]
=============================================================================
