---------------------------- MODULE CurveMarket ----------------------------
(***************************************************************************)
(* A market's pool and the curve that prices it (state/market.rs): the      *)
(* exact exchanges of swap, the sale of a withdrawal's leftover, and the     *)
(* preview of a sale.  MarketLedger lets the curve quote any price and keeps *)
(* the books; here the quotes are the program's own arithmetic, fees are     *)
(* left out, and the books are the pool's.                                   *)
(***************************************************************************)
EXTENDS Lmsr

CONSTANTS
    LmsrB,                  \* lmsr_b of the market
    Seed,                   \* USDC, and tokens of a side, in the pool at the start
    Sets,                   \* complete sets in the hands of traders at the start
    Amounts,                \* amounts of a trade
    Share,                  \* a withdrawal takes 1/Share of the pool
    BPS,                    \* basis points in one
    MaxTradeBps,            \* MAX_SINGLE_TRADE_BPS
    StageBps,               \* the multiplier of lmsr_b in each stage
    MaxImbalance,           \* MAX_POSITION_IMBALANCE_MULTIPLIER
    MinTradingLiquidity,    \* of the configuration
    CircuitRatio,           \* IMBALANCE_RATIO_CIRCUIT, as a ratio
    Reach,                  \* the powers of two an exponential is near one within
    MaxTrades               \* bound of the model: trades and withdrawals

Stages == {"normal", "mid", "final"}

ASSUME PoolAssumption ==
    /\ LmsrB \in 1..MAX_B_PARAM
    /\ {Seed, Sets, MinTradingLiquidity, MaxImbalance, MaxTradeBps, MaxTrades} \subseteq Nat
    /\ Amounts \subseteq Nat \ {0} /\ Share \in Nat \ {0, 1}
    /\ BPS \in Nat \ {0} /\ StageBps \in [Stages -> Nat \ {0}]
    /\ StageBps["normal"] = BPS     \* NORMAL_STAGE_B_MULTIPLIER
    /\ CircuitRatio \in Nat \ {0} /\ Reach \in Nat

\* A position and a parameter are far below what a word holds: in the program at most
\* 10^15 and 10^12.
WordIsWide == 2 * MAX_B_PARAM <= Word /\ MAX_POSITION < Word

\* The powers of two that fp_exp shifts by fit in a third of the upper half: in the
\* program the largest is 2^62, in a word of 2^64.
PowersFit == \A i \in 0..(MAX_EXP_INPUT \div LN_2) : 2^i \in 1..(Word \div 3)

\* A word carries exponents up to k times ln(2) with room for a quotient of two of their
\* exponentials: in the program up to k = 30.
Carries(k) ==
    /\ (k + 1) * LN_2 <= MAX_EXP_INPUT + 1
    /\ 2^k \in Nat /\ \A i \in 0..k : 2^i \in 1..2^k
    /\ 3 * 2^k * (3 * 2^k + 1) <= Word

ASSUME WidthAssumption == WordIsWide /\ PowersFit /\ Carries(Reach)

VARIABLES
    q,          \* lmsr_q_yes, lmsr_q_no
    pool,       \* pool_yes_reserve, pool_no_reserve
    reserve,    \* pool_collateral_reserve
    held,       \* tokens in the hands of traders
    stage,      \* how far the end of the market is
    last,       \* ghost: the step just taken, and what it exchanged or previewed
    spare,      \* ghost: tokens a side that withdrawals have sold to the pool
    count       \* bound: trades and withdrawals made

vars == <<q, pool, reserve, held, stage, last, spare, count>>

Step(op, s, tokens, usdc) == [op |-> op, side |-> s, tokens |-> tokens, usdc |-> usdc]

\* create_market opens at q = 0 whatever price it is told; seed_pool fills the pool,
\* mint_complete_set gives traders their sets.
Init ==
    /\ q = [s \in Sides |-> 0]
    /\ pool = [s \in Sides |-> Seed]
    /\ reserve = Seed
    /\ held = [s \in Sides |-> Sets]
    /\ stage = "normal"
    /\ last = Step("none", "yes", 0, 0)
    /\ spare = [s \in Sides |-> 0]
    /\ count = 0

calculate_effective_lmsr_b == (LmsrB * StageBps[stage]) \div BPS

MaxTradeSize == (reserve * MaxTradeBps) \div BPS

Imbalance(p) == Abs(p["yes"] - p["no"])
Cap == MaxImbalance * calculate_effective_lmsr_b

\* The checks before either kind of trade.
MayTrade(amount) ==
    /\ count < MaxTrades
    /\ reserve >= MinTradingLiquidity
    /\ amount <= MaxTradeSize

\* The side the pool has sold more of may not be bought beyond the cap.
Buyable(s) == Imbalance(q) >= Cap => s # (IF q["yes"] > q["no"] THEN "yes" ELSE "no")

\* What the curve gives for USDC, and for tokens, at its present stage.
get_tokens_for_buy_sol(s, usdc) ==
    lmsr_tokens_for_usdc(calculate_effective_lmsr_b, q, s, usdc)
get_tokens_for_sell_sol(s, tokens) ==
    lmsr_sell_payout(calculate_effective_lmsr_b, q, s, tokens)

\* One buy of tokens for usdc, or one sale of tokens for usdc.
Bought(s, tokens, usdc) ==
    /\ q' = Moved(q, s, tokens)
    /\ pool' = [pool EXCEPT ![s] = @ - tokens]
    /\ reserve' = reserve + usdc
    /\ held' = [held EXCEPT ![s] = @ + tokens]

\* The sale that leaves the curve where it was.
SoldUnpriced(s, tokens, usdc) ==
    /\ pool' = [pool EXCEPT ![s] = @ + tokens]
    /\ reserve' = reserve - usdc
    /\ held' = [held EXCEPT ![s] = @ - tokens]
    /\ UNCHANGED q

Sold(s, tokens, usdc) ==
    /\ q' = Moved(q, s, -tokens)
    /\ pool' = [pool EXCEPT ![s] = @ + tokens]
    /\ reserve' = reserve - usdc
    /\ held' = [held EXCEPT ![s] = @ - tokens]

Trade(op, s, tokens, usdc) ==
    /\ Imbalance(q') <= Cap
    /\ last' = Step(op, s, tokens, usdc)
    /\ count' = count + 1
    /\ UNCHANGED <<stage, spare>>

Buy(s, usdc) ==
    /\ MayTrade(usdc) /\ Buyable(s)
    /\ \E tokens \in {get_tokens_for_buy_sol(s, usdc)} :
        /\ tokens \in 0..pool[s]
        /\ Bought(s, tokens, usdc)
        /\ Trade("buy", s, tokens, usdc)

Sell(s, tokens) ==
    /\ MayTrade(tokens)
    /\ \E usdc \in {get_tokens_for_sell_sol(s, tokens)} :
        /\ usdc \in 0..reserve /\ tokens <= held[s]
        /\ Sold(s, tokens, usdc)
        /\ Trade("sell", s, tokens, usdc)

\* A preview at the price of the moment.
SellPreviewAtPrice(s, tokens) ==
    /\ last' = Step("preview", s, tokens, AtMarginalPrice(LmsrB, q, tokens))
    /\ UNCHANGED <<q, pool, reserve, held, stage, spare, count>>

\* The preview uses lmsr_b, whatever the stage.
SellPreview(s, tokens) ==
    \E usdc \in {lmsr_sell_payout(LmsrB, q, s, tokens)} :
        /\ usdc # Err
        /\ last' = Step("preview", s, tokens, usdc)
        /\ UNCHANGED <<q, pool, reserve, held, stage, spare, count>>

\* A provider takes 1/Share of the pool.  Pairs are redeemed; the leftover of one side is
\* sold to the pool, whose position and reserve of that side rise although the tokens
\* are burned.  Refused when the pool left behind would be too lopsided.
Part(x) == x \div Share
Leftover(s) == Monus(Part(pool[s]), Part(pool[Other(s)]))

Lopsided(p) ==
    \E s \in Sides : p[Other(s)] > 0 /\ p[s] \div p[Other(s)] >= CircuitRatio

internal_sell(s, tokens) ==
    IF tokens = 0 THEN 0 ELSE sell_proceeds(LmsrB, q, s, tokens)

WithdrawLiquidity ==
    LET more == IF Part(pool["yes"]) > Part(pool["no"]) THEN "yes" ELSE "no"
        left == Leftover(more)
        sets == Part(pool[Other(more)])
    IN  /\ count < MaxTrades
        /\ \E out \in {internal_sell(more, left)} :
            /\ out \in 0..reserve /\ reserve >= out + Part(reserve) + sets
            /\ q' = Moved(q, more, left)
            /\ pool' = [s \in Sides |-> pool[s] - sets + IF s = more THEN left ELSE 0]
            /\ reserve' = reserve - out - Part(reserve) - sets
            /\ ~ Lopsided([s \in Sides |-> Monus(pool'[s], Part(pool[s]))])
            /\ spare' = [spare EXCEPT ![more] = @ + left]
            /\ last' = Step("withdraw", more, left, out)
            /\ count' = count + 1
            /\ UNCHANGED <<held, stage>>

\* Time brings the end nearer; a market without an end stays as it is.
Age ==
    /\ stage # "final"
    /\ stage' = IF stage = "normal" THEN "mid" ELSE "final"
    /\ last' = Step("age", "yes", 0, 0)
    /\ UNCHANGED <<q, pool, reserve, held, spare, count>>

Next ==
    \/ \E s \in Sides, a \in Amounts : Buy(s, a) \/ Sell(s, a) \/ SellPreview(s, a)
    \/ WithdrawLiquidity
    \/ Age

Spec == Init /\ [][Next]_vars

-----------------------------------------------------------------------------

TypeOK ==
    /\ q \in [Sides -> Int]
    /\ {pool, held, spare} \subseteq [Sides -> Nat]
    /\ reserve \in Nat
    /\ stage \in Stages
    /\ count \in 0..MaxTrades

\* The curve stands where the traders have moved it, but for the leftovers of
\* withdrawals: internal_sell_yes and internal_sell_no price them as a sale and then
\* move the position up, as a purchase would, on a path no trader takes.
PositionExplained ==
    \A s \in Sides : q[s] = held[s] - Sets + spare[s]

\* No position is further from zero than k + 1 times ln(2) times the parameter.
Near(b, z, k) ==
    InRange(b, z) /\ \A s \in Sides : Abs(z[s]) * Word < (k + 1) * LN_2 * b

\* Whatever was sold, bought back and left over, on either side of zero: both sides have
\* a price strictly between nothing and one USDC while no position is far from zero.
\* Further out a price may vanish, and from where fp_exp takes the exponent no more
\* there is none; but no price is ever a whole USDC or beyond (lmsr_marginal_price).
PricesAreOdds ==
    LET price == lmsr_marginal_price(LmsrB, q)
    IN  /\ Near(LmsrB, q, Reach) => price \in 1..(One - 1)
        /\ price \in 0..(One - 1) \cup {Err}

\* A preview tells what the sale that follows pays, as long as nothing happens between
\* and the multiplier of the stage is one.
PreviewKept ==
    [][ /\ last.op = "preview" /\ last'.op = "sell" /\ stage = "normal"
        /\ last.side = last'.side /\ last.tokens = last'.tokens
        => last'.usdc = last.usdc ]_vars

=============================================================================
