---------------------------- MODULE MarketLedger ----------------------------
(***************************************************************************)
(* The money of one prediction market: the USDC vault of the market, the   *)
(* YES and NO tokens that exist against it, and the ledger fields of the   *)
(* Market account that every on-chain instruction keeps beside them.       *)
(*                                                                         *)
(* A Solana instruction runs alone and is undone when it fails, so each    *)
(* instruction is one action and each require! or checked_sub is a guard.  *)
(* The holders of tokens are one account per side (held): an SPL transfer  *)
(* between two of them is invisible here, and a claim takes any part of    *)
(* it.  LMSR prices are abstracted to what they bound (LmsrTokens,         *)
(* LmsrProceeds), the wall clock to the three phases around start_slot and *)
(* ending_slot; the withdrawal window and the cooldown of the breaker may  *)
(* elapse between any two instructions.                                    *)
(***************************************************************************)
EXTENDS Integers

CONSTANTS
  BPS,                  \* BASIS_POINTS_DIVISOR, the denominator of every rate
  InitialYesProb,       \* initial_yes_prob of the market
  MinLiquidity,         \* MIN_LIQUIDITY, the shares the first LP gives up
  RatioTolerance,       \* how far a first deposit may miss the opening odds
  MinUsdcLiquidity,     \* min_usdc_liquidity of the configuration
  MinTradingLiquidity,  \* min_trading_liquidity of the configuration
  VaultMin,             \* usdc_vault_min_balance of the configuration
  MaxTradeBps,          \* MAX_SINGLE_TRADE_BPS
  InsuranceBps,         \* lp_insurance_allocation_bps
  FeeSchedules,         \* the fees that may be in force, global or override
  Quotes,               \* USDC and tokens the LMSR curve may exchange
  Prices,               \* YES prices, in BPS, a later LP may meet
  ExitCaps,             \* share of the pool one withdrawal may take, by skew
  Penalties,            \* early-exit penalties, by holding period
  MinReserveBps,        \* CIRCUIT_BREAKER_MIN_RESERVE_BPS
  MaxOut24Bps,          \* CIRCUIT_BREAKER_WITHDRAW_24H_BPS
  HasEnd,               \* whether the market has an ending_slot
  Pauses,               \* the pause switches the operators of a run use
  Draws,                \* the YES ratios a draw may be settled at
  Amounts,              \* amounts users mint, redeem and trade
  Stakes,               \* amounts LPs put into the pool
  MaxVault              \* bound: deposits stop at this vault balance

Sides == {"yes", "no"}
Switches == {"contract", "market"}

ASSUME RatesAssumption ==
  /\ BPS \in Nat \ {0}
  /\ {InitialYesProb, RatioTolerance, MaxTradeBps, InsuranceBps, MinReserveBps,
      MaxOut24Bps}
       \subseteq 0 .. BPS
  /\ Prices \cup Draws \subseteq 0 .. BPS
  /\ Penalties \subseteq 0 .. BPS
  /\ FeeSchedules \subseteq [platform : 0 .. BPS, lp : 0 .. BPS]
  /\ ExitCaps \in [{"even", "mild", "moderate", "high"} -> 0 .. (BPS - 1)]

ASSUME AmountsAssumption ==
  /\ {MinLiquidity, MinUsdcLiquidity, MinTradingLiquidity, VaultMin, MaxVault}
       \subseteq Nat
  /\ Quotes \subseteq [usdc : Nat, tokens : Nat]
  /\ \A q \in Quotes : q.usdc <= q.tokens
  /\ Amounts \cup Stakes \subseteq Nat
  /\ HasEnd \in BOOLEAN
  /\ Pauses \subseteq Switches

VARIABLES
  vault,      \* market_usdc_ata: USDC the program really holds
  locked,     \* total_collateral_locked
  reserve,    \* pool_collateral_reserve
  fees,       \* accumulated_lp_fees
  ins,        \* insurance_pool_contribution
  minted,     \* total_yes_minted, total_no_minted
  supply,     \* token_yes_total_supply, token_no_total_supply
  pool,       \* pool_yes_reserve, pool_no_reserve
  ata,        \* global_yes_ata, global_no_ata: tokens the program holds
  held,       \* tokens of everybody else
  lpShares,   \* total_lp_shares
  initial,    \* initial_yes_reserve, initial_no_reserve
  out24,      \* withdraw_last_24h
  breaker,    \* circuit_breaker_active
  phase,      \* "early", "open" or "over", against start_slot, ending_slot
  own,        \* whether the market PDA has the mint authority
  paused,     \* is_paused and market_paused, the switches that are set
  payout,     \* resolution_yes_ratio, resolution_no_ratio
  winner,     \* winner_token_type
  completed,  \* is_completed
  settled,    \* pool_settled
  sentinel,   \* sentinel_no_minted
  seeded,     \* history: USDC that seed_pool booked twice
  rulings,    \* history: none, one or several resolutions (0, 1, 2)
  swept       \* history: whether reclaim_dust has run

money == <<vault, locked, reserve, fees, ins>>
tokens == <<minted, supply, pool, ata, held>>
exits == <<initial, out24, breaker>>
status == <<payout, winner, completed, settled, sentinel, rulings>>
control == <<phase, own, paused>>
vars == <<money, tokens, lpShares, exits, status, control, seeded, swept>>

-----------------------------------------------------------------------------
(* Arithmetic of the program.                                               *)

Lesser(a, b) == IF a <= b THEN a ELSE b
Larger(a, b) == IF a <= b THEN b ELSE a
MonusWrapped(a, b) == a - b                     \* mutant
Monus(a, b) == IF a <= b THEN 0 ELSE a - b      \* saturating_sub
Portion(x, n, d) == (x * n) \div d              \* rounds down
Bps(x, rate) == Portion(x, rate, BPS)
Opposite(s) == IF s = "yes" THEN "no" ELSE "yes"
Same(n) == [s \in Sides |-> n]
Plus(f, g) == [s \in Sides |-> f[s] + g[s]]
Minus(f, g) == [s \in Sides |-> f[s] - g[s]]
Covers(f, g) == \A s \in Sides : f[s] >= g[s]

\* What a purchase for net USDC may buy, and what a sale of n tokens may bring.
LmsrTokens(net) == {q.tokens : q \in {r \in Quotes : r.usdc = net}}
LmsrProceeds(n) == {q.usdc : q \in {r \in Quotes : r.tokens = n}}

\* An internal sale of nothing does not happen.
Proceeds(n) == IF n = 0 THEN {0} ELSE LmsrProceeds(n)

Init ==
  /\ vault = 0 /\ locked = 0 /\ reserve = 0 /\ fees = 0 /\ ins = 0
  /\ minted = Same(0) /\ supply = Same(0) /\ pool = Same(0) /\ held = Same(0)
  /\ ata = [yes |-> 0, no |-> 1]                \* the sentinel NO token
  /\ lpShares = 0
  /\ initial = Same(0) /\ out24 = 0 /\ breaker = FALSE
  /\ phase \in {"early", "open"} /\ own = FALSE /\ paused = {}
  /\ payout = Same(0) /\ winner = "no" /\ completed = FALSE
  /\ settled = FALSE /\ sentinel = TRUE
  /\ seeded = 0 /\ rulings = 0 /\ swept = FALSE

TypeOK ==
  /\ {vault, locked, reserve, fees, ins, lpShares, out24, seeded} \subseteq Nat
  /\ {minted, supply, pool, ata, held, initial} \subseteq [Sides -> Nat]
  /\ payout \in [Sides -> 0 .. BPS]
  /\ winner \in Sides \cup {"draw"}
  /\ {breaker, own, completed, settled, sentinel, swept}
       \subseteq BOOLEAN
  /\ phase \in {"early", "open", "over"}
  /\ paused \subseteq Pauses
  /\ rulings \in 0 .. 2

-----------------------------------------------------------------------------
(* Complete sets: one USDC against one YES and one NO.                      *)

Fits(a) == vault + a <= MaxVault

RunningUnchecked == TRUE                        \* mutant
Running == "contract" \notin paused

MintCompleteSet(a) ==
  /\ Fits(a) /\ a > 0
  /\ Running /\ ~completed
  /\ vault' = vault + a
  /\ locked' = locked + a
  /\ minted' = Plus(minted, Same(a))
  /\ supply' = Plus(supply, Same(a))
  /\ held' = Plus(held, Same(a))
  /\ UNCHANGED <<reserve, fees, ins, pool, ata, lpShares, exits, status,
                 control, seeded, swept>>

RedeemCompleteSet(a) ==
  /\ a > 0
  /\ Running /\ ~completed
  /\ Covers(held, Same(a))
  /\ locked >= a /\ vault >= a
  /\ Covers(minted, Same(a)) /\ Covers(supply, Same(a))
  /\ vault' = vault - a
  /\ locked' = locked - a
  /\ minted' = Minus(minted, Same(a))
  /\ supply' = Minus(supply, Same(a))
  /\ held' = Minus(held, Same(a))
  /\ UNCHANGED <<reserve, fees, ins, pool, ata, lpShares, exits, status,
                 control, seeded, swept>>

-----------------------------------------------------------------------------
(* Liquidity goes in: seed_pool by the creator, add_liquidity by anybody.   *)

\* The same USDC enters locked and reserve: seeded records it.
SeedPool(a) ==
  /\ Fits(a) /\ a > 0 /\ a >= MinUsdcLiquidity
  /\ Running /\ ~completed
  /\ reserve = 0 /\ lpShares = 0
  /\ vault' = vault + a
  /\ locked' = locked + a
  /\ reserve' = a
  /\ pool' = Same(a)
  /\ minted' = Plus(minted, Same(a))
  /\ supply' = Plus(supply, Same(a))
  /\ ata' = Plus(ata, Same(a))
  /\ lpShares' = a
  /\ seeded' = seeded + a
  /\ UNCHANGED <<fees, ins, held, exits, status, control, swept>>

\* The complete sets among the minted tokens, which the deposit must back.
SetsInUnlocked(mint) == 0                       \* mutant
SetsIn(mint) == Lesser(mint.yes, mint.no)

\* The part of add_liquidity both kinds of deposit share: mint[s] tokens go to
\* the pool, toPool USDC to the reserve, the rest backs the complete sets.
Deposit(a, shares, mint, toPool) ==
  /\ Fits(a) /\ a >= MinUsdcLiquidity
  /\ own /\ ~completed /\ "market" \notin paused
  /\ toPool + SetsIn(mint) = a
  /\ vault' = vault + a
  /\ locked' = locked + SetsIn(mint)
  /\ reserve' = reserve + toPool
  /\ minted' = Plus(minted, mint)
  /\ pool' = Plus(pool, mint)
  /\ ata' = Plus(ata, mint)
  /\ lpShares' = lpShares + shares
  /\ initial' = IF initial.yes = 0 THEN pool' ELSE initial
  /\ UNCHANGED <<fees, ins, supply, held, out24, breaker, status, control,
                 seeded, swept>>

FirstMint(a) ==
  [yes |-> Bps(a, InitialYesProb), no |-> Bps(a, BPS - InitialYesProb)]

\* The YES share of the tokens, in BPS, beside the one that was asked for.
KeepsOdds(mint) ==
  LET sum == mint.yes + mint.no
      odds == IF sum > 0 THEN Portion(mint.yes, BPS, sum) ELSE 0
  IN odds - InitialYesProb \in -RatioTolerance .. RatioTolerance

AddFirstLiquidity(a) ==
  LET mint == FirstMint(a) IN
  /\ lpShares = 0
  /\ mint.yes + mint.no \in (a - 1) .. (a + 1) /\ KeepsOdds(mint)
  /\ Deposit(a, Monus(a, MinLiquidity), mint, Monus(a, SetsIn(mint)))

\* A later LP at YES price p buys shares at the value of the pool.
AddLiquidity(a, p) ==
  LET value == reserve + Bps(pool.yes, p) + Bps(pool.no, BPS - p)
      shares == Portion(a, lpShares, value)
      sets == Larger(Portion(pool.yes, shares, lpShares),
                     Portion(pool.no, shares, lpShares))
  IN /\ lpShares > 0 /\ value > 0
     /\ Deposit(a, shares, Same(sets), Portion(reserve, shares, lpShares))

-----------------------------------------------------------------------------
(* Trading.                                                                 *)

TradingOpen ==
  /\ paused = {} /\ ~completed
  /\ phase = "open"
  /\ reserve >= MinTradingLiquidity

SplitGross(gross, f) ==                         \* mutant
  LET platform == Bps(gross, f.platform)
      cover == Bps(platform, InsuranceBps)
      lpFee == Bps(gross, f.lp)
  IN [team |-> platform - cover, cover |-> cover, lp |-> lpFee,
      net |-> gross - lpFee]

\* How a gross amount splits under fees f: the platform fee goes to the team
\* but for the insurance cut, the LP fee stays in the vault.
Split(gross, f) ==
  LET platform == Bps(gross, f.platform)
      cover == Bps(platform, InsuranceBps)
      lpFee == Bps(gross, f.lp)
  IN [team |-> platform - cover, cover |-> cover, lp |-> lpFee,
      net |-> gross - platform - lpFee]

\* t tokens of side s go from the pool to a user, or back when t is negative.
DeliverOtherMint(s, t) ==                       \* mutant
  /\ pool' = [pool EXCEPT ![s] = @ - t]
  /\ ata' = [ata EXCEPT ![s] = @ - t]
  /\ held' = [held EXCEPT ![Opposite(s)] = @ + t]

Deliver(s, t) ==
  /\ pool' = [pool EXCEPT ![s] = @ - t]
  /\ ata' = [ata EXCEPT ![s] = @ - t]
  /\ held' = [held EXCEPT ![s] = @ + t]

\* What a trade leaves in the vault for the LPs and for the insurance.
Collect(part) ==
  /\ fees' = fees + part.lp
  /\ ins' = ins + part.cover

Buy(s, a) ==
  /\ Fits(a) /\ TradingOpen
  /\ a \in 1 .. Bps(reserve, MaxTradeBps)
  /\ \E f \in FeeSchedules :
       LET part == Split(a, f) IN
       /\ part.net >= 0
       /\ \E t \in LmsrTokens(part.net) :
            /\ pool[s] >= t /\ ata[s] >= t
            /\ Deliver(s, t)
       /\ vault' = vault + part.net + part.lp + part.cover
       /\ reserve' = reserve + part.net
       /\ Collect(part)
  /\ UNCHANGED <<locked, minted, supply, lpShares, exits, status, control,
                 seeded, swept>>

Sell(s, n) ==
  /\ TradingOpen
  /\ n \in 1 .. Bps(reserve, MaxTradeBps)
  /\ held[s] >= n
  /\ \E f \in FeeSchedules, change \in LmsrProceeds(n) :
       LET part == Split(change, f)
           paid == part.net + part.team
       IN /\ part.net >= 0
          /\ reserve >= change
          /\ vault - paid >= VaultMin
          /\ vault' = vault - paid
          /\ reserve' = reserve - change
          /\ Collect(part)
  /\ Deliver(s, -n)
  /\ UNCHANGED <<locked, minted, supply, lpShares, exits, status, control,
                 seeded, swept>>

-----------------------------------------------------------------------------
(* Liquidity goes out: withdraw_liquidity and the circuit breaker.          *)

\* What the imbalance of the pool lets one withdrawal take.
Skew ==
  LET big == Larger(pool.yes, pool.no)
      small == Lesser(pool.yes, pool.no)
  IN CASE 2 * big < 3 * small -> "even"
       [] 2 * big >= 3 * small /\ big < 2 * small -> "mild"
       [] big >= 2 * small /\ big < 3 * small -> "moderate"
       [] OTHER -> "high"

ExitLimitLifted == lpShares                     \* mutant
ExitLimit == Bps(lpShares, ExitCaps[Skew])

Lopsided(p) ==
  LET big == Larger(p.yes, p.no) small == Lesser(p.yes, p.no)
  IN small > 0 /\ big >= 4 * small

\* The check before the withdrawal counts the LP's part of the pool out twice.
WouldTrip(pools, rest, share, usdc, out) ==
  LET after == [s \in Sides |-> Monus(pools[s], share[s])] IN
  \/ Lopsided(after)
  \/ \E s \in Sides : initial[s] > 0 /\ after[s] < initial[s] \div 10
  \/ out > (Monus(rest, usdc) + after.yes + after.no) \div 2

\* The check after it, which sets the breaker.
Trips(pools, rest, out) ==
  \/ Lopsided(pools) \/ Lesser(pools.yes, pools.no) = 0
  \/ \E s \in Sides : pools[s] < Bps(initial[s], MinReserveBps)
  \/ out > Bps(rest + pools.yes + pools.no, MaxOut24Bps)

\* The checks before a withdrawal.  Until the pool is settled, what stays in
\* the reserve must cover the collateral.
MayWithdraw(lp) ==
  /\ lp \in 1 .. lpShares
  /\ own /\ paused = {} /\ ~breaker
  /\ (completed /\ ~settled) => reserve - Portion(reserve, lp, lpShares) >= locked

\* lp shares leave.  Pairs of the LP's tokens are redeemed, the rest is sold
\* back to the pool (internal_sell_yes, internal_sell_no) for sold USDC; comp is
\* what the insurance adds, base the withdrawals of the last 24 hours.
WithdrawLiquidity(lp) ==
  LET usdc == Portion(reserve, lp, lpShares)
      share == [s \in Sides |-> Portion(pool[s], lp, lpShares)]
      paired == Lesser(share.yes, share.no)
      spare == [s \in Sides |-> share[s] - paired]
  IN
  /\ MayWithdraw(lp)
  /\ lp <= ExitLimit
  /\ \E sold \in Proceeds(spare.yes + spare.no), penalty \in Penalties,
        comp \in 0 .. ins, base \in {0, out24} :
       LET gross == usdc + paired + sold
           final == gross - Bps(gross, penalty) + comp
       IN /\ vault >= final
          /\ vault' = vault - final
          /\ ins' = ins - comp
          /\ reserve - sold - usdc - paired >= 0
          /\ reserve' = reserve - sold - usdc - paired
          /\ out24' = base + final
  /\ locked >= paired /\ Covers(minted, share) /\ Covers(ata, share)
  /\ Covers(Plus(pool, spare), Same(paired))
  /\ locked' = locked - paired
  /\ minted' = Minus(minted, share)
  /\ ata' = Minus(ata, share)
  /\ pool' = Minus(Plus(pool, spare), Same(paired))
  /\ lpShares' = lpShares - lp
  /\ ~WouldTrip(pool', reserve', share, usdc, out24')
  /\ breaker' = Trips(pool', reserve', out24')
  /\ UNCHANGED <<fees, supply, held, initial, status, control, seeded, swept>>

\* The fees of a position, some part of the pot: module LpPositions says which.
ClaimLpFees ==
  /\ Running /\ lpShares > 0
  /\ \E due \in 1 .. fees :
       /\ vault - due >= VaultMin
       /\ vault' = vault - due
       /\ fees' = fees - due
  /\ UNCHANGED <<locked, reserve, ins, tokens, lpShares, exits, status, control,
                 seeded, swept>>

ResetCircuitBreaker ==
  /\ breaker
  /\ Lesser(pool.yes, pool.no) > 0
  /\ 2 * Larger(pool.yes, pool.no) < 7 * Lesser(pool.yes, pool.no)
  /\ breaker' = FALSE /\ out24' = 0
  /\ UNCHANGED <<money, tokens, lpShares, initial, status, control, seeded,
                 swept>>

-----------------------------------------------------------------------------
(* The outcome: resolution, settle_pool, claim_rewards, reclaim_dust.       *)

RatiosInFull(w, r) ==                           \* mutant
  [s \in Sides |-> IF s = w \/ w = "draw" THEN BPS ELSE 0]
Ratios(w, r) ==
  IF w = "draw" THEN [yes |-> r, no |-> BPS - r]
  ELSE [s \in Sides |-> IF s = w THEN BPS ELSE 0]

\* The collateral the program's own tokens release.
ReleaseAll(burn, ratio) == burn.yes + burn.no   \* mutant
Release(burn, ratio) ==
  Bps(burn.yes, ratio.yes) + Bps(Lesser(burn.no, minted.no), ratio.no)

\* The burned tokens leave the counters; a burned sentinel, its flag.
TakeDown(burn) ==
  LET fewerNo == Lesser(burn.no, minted.no) IN
  /\ minted' = [yes |-> minted.yes - burn.yes, no |-> minted.no - fewerNo]
  /\ supply' = [yes |-> supply.yes - burn.yes, no |-> Monus(supply.no, burn.no)]
  /\ pool' = [s \in Sides |-> Monus(pool[s], burn[s])]
  /\ sentinel' = (sentinel /\ ~(/\ burn.no > 0 /\ supply.no > 0
                                /\ minted.no = fewerNo))

\* The authority names the outcome; final tells whether the market is closed
\* with it.  The tokens in the program's hands burn and release collateral.
Resolution(w, r, final) ==
  LET ratio == Ratios(w, r)
      burn == [ata EXCEPT !.no = Lesser(@, minted.no + IF sentinel THEN 1 ELSE 0)]
      release == Release(burn, ratio)
  IN
  /\ ~completed /\ (HasEnd => phase = "over")
  /\ ata.yes <= minted.yes
  /\ ata.no <= minted.no + IF sentinel THEN 1 ELSE 0
  /\ locked >= release /\ supply.yes >= burn.yes
  /\ payout' = ratio /\ winner' = w
  /\ completed' = (completed \/ final)
  /\ locked' = locked - release
  /\ ata' = Minus(ata, burn)
  /\ TakeDown(burn)
  /\ rulings' = Lesser(rulings + 1, 2)
  /\ UNCHANGED <<vault, reserve, fees, ins, held, lpShares, exits, control,
                 settled, seeded, swept>>

\* The program burns what the ledger says the pool still holds of the loser.
SettlePool ==
  /\ completed
  /\ \/ winner = "draw" /\ UNCHANGED <<pool, ata>>
     \/ /\ winner # "draw"
        /\ LET loser == Opposite(winner) IN
           /\ ata[loser] >= pool[loser]
           /\ ata' = [ata EXCEPT ![loser] = @ - pool[loser]]
           /\ pool' = [pool EXCEPT ![loser] = 0]
  /\ settled' = TRUE
  /\ UNCHANGED <<money, minted, supply, held, lpShares, exits, payout, winner,
                 completed, sentinel, rulings, control, seeded, swept>>

\* Rewards are due once the market is completed, paused or not, and as long as
\* the vault keeps its least balance.
CanClaim(y, n) == completed /\ y + n > 0 /\ held.yes >= y /\ held.no >= n
CanPay(pay) == pay > 0 => vault - pay >= VaultMin /\ vault >= pay

\* What y YES and n NO are worth, and what is left when they burn: tokens
\* bought from the pool may exceed the counters.
TotalPayout(y, n) == Bps(y, payout.yes) + Bps(n, payout.no)
BurnHeld(y, n) ==
  /\ minted' = [yes |-> Monus(minted.yes, y), no |-> Monus(minted.no, n)]
  /\ supply' = [yes |-> Monus(supply.yes, y), no |-> Monus(supply.no, n)]
  /\ held' = [yes |-> held.yes - y, no |-> held.no - n]

\* A holder turns in all of its tokens, y YES and n NO.
ClaimRewards(y, n) ==
  LET pay == TotalPayout(y, n)
      released == Lesser(pay, locked)
  IN
  /\ CanClaim(y, n) /\ CanPay(pay)
  /\ reserve >= pay - released
  /\ vault' = vault - pay
  /\ locked' = locked - released
  /\ reserve' = reserve - (pay - released)
  /\ BurnHeld(y, n)
  /\ UNCHANGED <<fees, ins, pool, ata, lpShares, exits, status, control, seeded,
                 swept>>

ReclaimDust ==
  /\ settled /\ locked = 0 /\ lpShares = 0 /\ reserve = 0 /\ fees = 0
  /\ vault > 0
  /\ vault' = 0 /\ swept' = TRUE
  /\ UNCHANGED <<locked, reserve, fees, ins, tokens, lpShares, exits, status,
                 control, seeded>>

-----------------------------------------------------------------------------
(* Operators' switches and the clock.                                       *)

SetMintAuthority ==
  /\ ~own /\ own' = TRUE
  /\ UNCHANGED <<money, tokens, lpShares, exits, status, phase, paused, seeded,
                 swept>>

Pause(sw) ==
  /\ sw \notin paused /\ paused' = paused \cup {sw}
  /\ UNCHANGED <<money, tokens, lpShares, exits, status, phase, own, seeded,
                 swept>>

Unpause(sw) ==
  /\ sw \in paused /\ paused' = paused \ {sw}
  /\ UNCHANGED <<money, tokens, lpShares, exits, status, phase, own, seeded,
                 swept>>

\* start_slot passes, then ending_slot if the market has one.
Tick ==
  /\ \/ phase = "early" /\ phase' = "open"
     \/ phase = "open" /\ HasEnd /\ phase' = "over"
  /\ UNCHANGED <<money, tokens, lpShares, exits, status, own, paused, seeded,
                 swept>>

Next ==
  \/ \E a \in Amounts :
       \/ MintCompleteSet(a) \/ RedeemCompleteSet(a)
       \/ \E s \in Sides : Buy(s, a) \/ Sell(s, a)
  \/ \E a \in Stakes :
       \/ SeedPool(a) \/ AddFirstLiquidity(a)
       \/ \E p \in Prices : AddLiquidity(a, p)
  \/ \E lp \in 1 .. lpShares : WithdrawLiquidity(lp)
  \/ ClaimLpFees \/ ResetCircuitBreaker
  \/ \E w \in Sides, final \in BOOLEAN : Resolution(w, 0, final)
  \/ \E r \in Draws, final \in BOOLEAN : Resolution("draw", r, final)
  \/ SettlePool
  \/ \E y \in 0 .. held.yes, n \in 0 .. held.no : ClaimRewards(y, n)
  \/ ReclaimDust
  \/ SetMintAuthority \/ Tick
  \/ \E sw \in Pauses : Pause(sw) \/ Unpause(sw)

Spec == Init /\ [][Next]_vars

-----------------------------------------------------------------------------
(* What the ledger must guarantee.                                          *)

\* The vault covers everything the ledger promises: collateral of the tokens,
\* the pool's reserve, the fees of the LPs and the insurance, but for the USDC
\* seed_pool promises twice.  No other instruction pays out more than it books.
LedgerCovered ==
  vault + seeded >= locked + reserve + fees + IF swept THEN 0 ELSE ins

\* The minted counters agree with the tokens that exist, up to the sentinel NO
\* token of create_market, so the supply checks of resolution never fail.
SupplyAgrees ==
  /\ minted.yes = ata.yes + held.yes
  /\ ata.no + held.no - minted.no \in {0, 1}
  /\ rulings = 0 => ata.no + held.no - minted.no = 1

\* Holders who trade against a pool opened at even odds, its operators and LPs
\* coming and going, stay backed: before the outcome each side's tokens by the
\* locked collateral, after one ruling the sum all holders may claim.  The one
\* missing unit is the sentinel's.
Owed == TotalPayout(held.yes, held.no)

WinnersBacked ==
  2 * InitialYesProb = BPS =>
    /\ rulings = 0 => held.yes <= locked /\ held.no <= locked + 1
    /\ rulings = 1 => Owed <= locked + 1

\* Whatever the opening odds, before the outcome every pair of tokens that
\* users hold is backed by collateral.
PairsBacked ==
  rulings = 0 => Lesser(held.yes, held.no) <= locked + 1

\* While the contract is paused a market that still runs pays nothing out of its
\* vault but LP fees, and books no fee: nobody trades, redeems or withdraws.
\* Claims of LP fees are left open here.  emergency_pause.rs:7 and :66 say that
\* a pause does not touch them; claim_lp_fees.rs:148 refuses them all the same.
PauseHoldsMoney ==
  []["contract" \in paused /\ ~completed =>
       vault' - fees' >= vault - fees /\ fees' <= fees]_vars

\* LPs never empty the pool: no sequence of withdrawals takes the last share,
\* so reclaim_dust reaches only a market whose LPs got no share at all.
LpSharesPersist == [][lpShares > 0 => lpShares' > 0]_vars

\* What users see of the market: the stage it is in, ...
Stage ==
  IF swept THEN "swept"
  ELSE IF settled THEN "settled"
  ELSE IF completed THEN "closed"
  ELSE IF rulings > 0 THEN "ruled"
  ELSE "open"

\* ... the payout, their tokens and the USDC in the vault.
Market == INSTANCE BinaryMarket WITH stage <- Stage, cash <- vault

\* The ledger implements the market its users were promised: after the final
\* outcome no instruction of anybody issues or takes a token, changes a payout
\* or pays another price for a token than the outcome says.
KeepsPromise == Market!Spec
=============================================================================
