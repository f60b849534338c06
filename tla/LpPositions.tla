----------------------------- MODULE LpPositions -----------------------------
(***************************************************************************)
(* The positions of the liquidity providers of one market: who is due      *)
(* which part of the fees, and whom the insurance compensates.  Module     *)
(* MarketLedger keeps the money of the same market and leaves open how     *)
(* much a claim or a compensation takes; here each LP has its position,    *)
(* and reserves, prices, pauses and the clock, which only refuse some of   *)
(* these steps, are left to that module.                                   *)
(*                                                                         *)
(* Fees are paid by a mark: cum grows by the fee per share at every trade, *)
(* a position remembers cum as it was when it was last paid, and is due    *)
(* its shares times the difference.  Both divisions round down.            *)
(***************************************************************************)
EXTENDS Integers, FiniteSetsExt

CONSTANTS
  LPs,            \* the liquidity providers
  Precision,      \* FEE_PER_SHARE_PRECISION
  BPS,            \* BASIS_POINTS_DIVISOR
  MinLiquidity,   \* MIN_LIQUIDITY
  ExitCap,        \* what one withdrawal may take of all shares, in BPS
  LossThreshold,  \* insurance_loss_threshold_bps
  MaxCover,       \* insurance_max_compensation_bps
  LpFees,         \* LP fees of one trade
  Allocations,    \* what one trade adds to the insurance
  Stakes,         \* USDC of one deposit
  Issues,         \* shares a later deposit may be worth
  Proceeds,       \* USDC a withdrawal may bring after its penalty
  MaxFees,        \* bound: fees of all trades together
  MaxShares,      \* bound: shares of all LPs together
  MaxInvested,    \* bound: principal on record of one LP
  MaxInsured      \* bound: the insurance money of all markets

ASSUME Providers == IsFiniteSet(LPs)

ASSUME PositionsAssumption ==
  /\ Precision \in Nat \ {0} /\ BPS \in Nat \ {0}
  /\ {LossThreshold, MaxCover} \subseteq 0 .. BPS
  /\ ExitCap \in 0 .. (BPS - 1)
  /\ {MinLiquidity, MaxFees, MaxShares, MaxInvested, MaxInsured} \subseteq Nat
  /\ LpFees \cup Allocations \cup Issues \cup Proceeds \subseteq Nat
  /\ Stakes \subseteq Nat \ {0}

VARIABLES
  shares,        \* lp_shares of each position
  mark,          \* last_fee_per_share of each position
  invested,      \* invested_usdc of each position
  total,         \* total_lp_shares
  cum,           \* fee_per_share_cumulative
  pot,           \* accumulated_lp_fees
  contribution,  \* insurance_pool_contribution of this market
  others,        \* the same of all other markets together
  balance,       \* lp_insurance_pool_balance of the configuration
  claimed,       \* history: fees paid to each LP
  accrued,       \* history: Precision times the fees earned by its shares
  reconfigured   \* history: whether configure replaced the balance

positions == <<shares, mark, invested, total>>
fees == <<cum, pot, claimed, accrued>>
insurance == <<contribution, others, balance, reconfigured>>
vars == <<positions, fees, insurance>>

-----------------------------------------------------------------------------

Lesser(a, b) == IF a <= b THEN a ELSE b
Monus(a, b) == IF a <= b THEN 0 ELSE a - b
Portion(x, n, d) == (x * n) \div d

\* The fees a position is due.
DueRoundedUp(lp) ==                             \* mutant
  (shares[lp] * (cum - mark[lp]) + Precision - 1) \div Precision
Due(lp) == (shares[lp] * (cum - mark[lp])) \div Precision

Init ==
  /\ shares = [lp \in LPs |-> 0] /\ mark = [lp \in LPs |-> 0]
  /\ invested = [lp \in LPs |-> 0] /\ total = 0
  /\ cum = 0 /\ pot = 0
  /\ claimed = [lp \in LPs |-> 0] /\ accrued = [lp \in LPs |-> 0]
  /\ contribution = 0 /\ others = 0 /\ balance = 0 /\ reconfigured = FALSE

TypeOK ==
  /\ {shares, mark, invested, claimed, accrued} \subseteq [LPs -> Nat]
  /\ {total, cum, pot, contribution, others, balance} \subseteq Nat
  /\ reconfigured \in BOOLEAN

-----------------------------------------------------------------------------
(* Trades bring fees and insurance money.                                   *)

PerShareReset(f) == Portion(f, Precision, total) - cum   \* mutant
PerShareRounded(f) ==                           \* mutant
  (f * Precision + total - 1) \div total
\* What an LP fee adds to cum.
PerShare(f) == Portion(f, Precision, total)

\* A purchase or a sale with LP fee f and insurance allocation c.
Trade(f, c) ==
  /\ pot + MapThenSumSet(LAMBDA lp : claimed[lp], LPs) + f <= MaxFees
  /\ contribution + others + c <= MaxInsured
  /\ pot' = pot + f
  /\ LET rise == IF total > 0 /\ f > 0 THEN PerShare(f) ELSE 0 IN
     /\ cum' = cum + rise
     /\ accrued' = [lp \in LPs |-> accrued[lp] + shares[lp] * rise]
  /\ contribution' = contribution + c
  /\ balance' = balance + c
  /\ UNCHANGED <<positions, claimed, others, reconfigured>>

\* A claim; an LP that is due nothing is told so and nothing changes.
ClaimLpFees(lp) ==
  /\ total > 0 /\ Due(lp) > 0
  /\ pot >= Due(lp)
  /\ pot' = pot - Due(lp)
  /\ mark' = [mark EXCEPT ![lp] = cum]
  /\ claimed' = [claimed EXCEPT ![lp] = @ + Due(lp)]
  /\ UNCHANGED <<shares, invested, total, cum, accrued, insurance>>

-----------------------------------------------------------------------------
(* Liquidity goes in.                                                       *)

\* A new deposit starts from the present cum: what the position was due and
\* did not claim stays in the pot.
Marked(lp) == [mark EXCEPT ![lp] = cum]

\* The creator's seed, which finds no shares in the market.
SeedPool(lp, a) ==
  /\ total = 0
  /\ a > 0 /\ a <= MaxShares /\ a <= MaxInvested
  /\ total' = a
  /\ mark' = IF shares[lp] = 0 THEN Marked(lp) ELSE mark
  /\ shares' = [shares EXCEPT ![lp] = a]
  /\ invested' = [invested EXCEPT ![lp] = a]
  /\ UNCHANGED <<fees, insurance>>

\* A deposit of a USDC worth s shares.
AddLiquidity(lp, a, s) ==
  /\ s = Monus(a, MinLiquidity) \/ total > 0
  /\ total + s <= MaxShares /\ invested[lp] + a <= MaxInvested
  /\ total' = total + s
  /\ shares' = [shares EXCEPT ![lp] = @ + s]
  /\ invested' = [invested EXCEPT ![lp] = @ + a]
  /\ mark' = Marked(lp)
  /\ UNCHANGED <<fees, insurance>>

-----------------------------------------------------------------------------
(* Liquidity goes out.                                                      *)

\* What the insurance adds for a loss on principal p that brought v.
Compensation(p, v) ==
  LET loss == p - v
      lossRate == Portion(loss, BPS, p)
  IN IF v < p /\ lossRate > LossThreshold
     THEN Lesser(Portion(loss, MaxCover, BPS), Lesser(balance, contribution))
     ELSE 0

SettleGlobally(comp) == contribution            \* mutant
\* The market's own contribution pays the compensation.
Settle(comp) == contribution - comp

\* n shares leave and bring v after the early-exit penalty.  The principal
\* that leaves is the position's, times the part of all shares that leaves.
WithdrawLiquidity(lp, n, v) ==
  LET part == Portion(invested[lp], n, total)
      comp == Compensation(part, v)
  IN
  /\ n \in 1 .. shares[lp]
  /\ n <= Portion(total, ExitCap, BPS)
  /\ shares' = [shares EXCEPT ![lp] = @ - n]
  /\ total' = total - n
  /\ invested' = [invested EXCEPT ![lp] = @ - part]
  /\ contribution' = Settle(comp)
  /\ balance' = balance - comp
  /\ UNCHANGED <<mark, fees, others, reconfigured>>

-----------------------------------------------------------------------------
(* The insurance is booked for all markets together.                        *)

OtherMarketTrades(c) ==
  /\ contribution + others + c <= MaxInsured
  /\ others' = others + c /\ balance' = balance + c
  /\ UNCHANGED <<positions, fees, contribution, reconfigured>>

OtherMarketCompensates(c) ==
  /\ c <= Lesser(balance, others)
  /\ others' = others - c /\ balance' = balance - c
  /\ UNCHANGED <<positions, fees, contribution, reconfigured>>

\* configure writes the whole configuration, the balance included.
Configure(b) ==
  /\ balance' = b /\ reconfigured' = TRUE
  /\ UNCHANGED <<positions, fees, contribution, others>>

Next ==
  \/ \E f \in LpFees, c \in Allocations : Trade(f, c)
  \/ \E c \in Allocations \ {0} :
       OtherMarketTrades(c) \/ OtherMarketCompensates(c)
  \/ \E lp \in LPs :
       \/ ClaimLpFees(lp)
       \/ \E a \in Stakes :
            \/ SeedPool(lp, a)
            \/ \E s \in Issues \cup {Monus(a, MinLiquidity)} :
                 AddLiquidity(lp, a, s)
       \/ \E n \in 1 .. shares[lp], v \in Proceeds : WithdrawLiquidity(lp, n, v)
  \/ \E b \in Allocations : Configure(b)

Spec == Init /\ [][Next]_vars

-----------------------------------------------------------------------------
(* What the positions guarantee.                                            *)

\* The pot covers what all LPs are due together, whatever was rounded and in
\* whichever order they claim: nobody finds the pot empty.
FeesCovered == MapThenSumSet(Due, LPs) <= pot

\* No LP is ever paid more than its shares earned while it held them, however
\* it claims, adds and withdraws.
NeverOverpaid == \A lp \in LPs : Precision * claimed[lp] <= accrued[lp]

\* What an LP is due shrinks only when it claims it or changes its own
\* position: nobody else's step takes fees from it.
OthersKeepDues ==
  [][\A lp \in LPs :
       Due(lp)' < Due(lp) =>
         \/ claimed'[lp] = claimed[lp] + Due(lp)
         \/ shares'[lp] # shares[lp] \/ invested'[lp] # invested[lp]]_vars

\* The global insurance balance is the sum of what the markets contributed, so
\* that no market's LPs are paid with another market's money, until configure
\* replaces the balance.
InsuranceAgrees == ~reconfigured => balance = contribution + others
=============================================================================
