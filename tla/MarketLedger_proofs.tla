------------------------ MODULE MarketLedger_proofs ------------------------
(***************************************************************************)
(* Theorems about MarketLedger, for all rates, fee schedules, curves and   *)
(* amounts.  The first section bounds the rounded-down shares that occur   *)
(* everywhere, the second proves the type invariant action by action, the  *)
(* others one property each, the last that it implements BinaryMarket;     *)
(* README.md explains the inductive invariants.                            *)
(***************************************************************************)
EXTENDS MarketLedger, TLAPS

LEMMA DivisionFloors ==
  ASSUME NEW a \in Nat, NEW d \in Nat \ {0}
  PROVE  /\ a \div d \in Nat
         /\ d * (a \div d) <= a
         /\ a < d * (a \div d) + d
  BY SMT

LEMMA DivisionBelow ==
  ASSUME NEW d \in Nat \ {0}, NEW q \in Int, NEW x \in Int, d * q <= d * x
  PROVE  q <= x
  <1> SUFFICES ASSUME q > x PROVE FALSE
    OBVIOUS
  <1>1. q - x >= 1
    OBVIOUS
  <1>2. d * (q - x) >= d
    BY <1>1
  <1> QED
    BY <1>2

LEMMA PortionBound ==
  ASSUME NEW x \in Nat, NEW d \in Nat \ {0}, NEW n \in 0 .. d
  PROVE  /\ Portion(x, n, d) \in 0 .. x
         /\ x > 0 /\ n < d => Portion(x, n, d) < x
  <1> DEFINE q == (x * n) \div d
  <1>1. x * n \in Nat /\ x * n <= d * x
    OBVIOUS
  <1>2. q \in Nat /\ d * q <= x * n
    BY <1>1, DivisionFloors
  <1>3. q <= x
    BY <1>1, <1>2, DivisionBelow
  <1>4. ASSUME x > 0, n < d PROVE q < x
    <2>1. x * n < d * x
      BY <1>4
    <2>2. q # x
      BY <1>2, <2>1
    <2> QED
      BY <1>2, <1>3, <2>2
  <1> QED
    BY <1>2, <1>3, <1>4 DEF Portion

\* A larger rate takes no less.
LEMMA PortionMonotone ==
  ASSUME NEW x \in Nat, NEW d \in Nat \ {0}, NEW n \in Nat, NEW m \in Nat,
         n <= m
  PROVE  Portion(x, n, d) <= Portion(x, m, d)
  <1> DEFINE low == (x * n) \div d
             high == (x * m) \div d
  <1>1. x * n \in Nat /\ x * m \in Nat /\ x * n <= x * m
    OBVIOUS
  <1>2. low \in Nat /\ d * low <= x * n
    BY <1>1, DivisionFloors
  <1>3. high \in Nat /\ x * m < d * high + d
    BY <1>1, DivisionFloors
  <1> HIDE DEF low, high
  <1>4. d * low <= d * (high + 1) /\ d * low # d * (high + 1)
    BY <1>1, <1>2, <1>3
  <1>5. low <= high + 1 /\ low # high + 1
    BY <1>2, <1>3, <1>4, DivisionBelow
  <1> QED
    BY <1>2, <1>3, <1>5 DEF Portion, low, high

LEMMA PortionNat ==
  ASSUME NEW x \in Nat, NEW n \in Nat, NEW d \in Nat \ {0}
  PROVE  Portion(x, n, d) \in Nat
  BY x * n \in Nat, DivisionFloors DEF Portion

\* A rate never takes more than the whole.
LEMMA BpsBound ==
  ASSUME NEW x \in Nat, NEW rate \in 0 .. BPS
  PROVE  Bps(x, rate) \in 0 .. x
  BY PortionBound, RatesAssumption DEF Bps

LEMMA PairType ==
  ASSUME NEW a \in Nat, NEW b \in Nat
  PROVE  [yes |-> a, no |-> b] \in [Sides -> Nat]
  BY DEF Sides

LEMMA PlusType ==
  ASSUME NEW f \in [Sides -> Nat], NEW g \in [Sides -> Nat]
  PROVE  Plus(f, g) \in [Sides -> Nat]
  BY DEF Plus

LEMMA MinusType ==
  ASSUME NEW f \in [Sides -> Nat], NEW g \in [Sides -> Nat], Covers(f, g)
  PROVE  Minus(f, g) \in [Sides -> Nat]
  BY DEF Minus, Covers

LEMMA SameType ==
  ASSUME NEW n \in Nat
  PROVE  Same(n) \in [Sides -> Nat]
  BY DEF Same

-----------------------------------------------------------------------------

USE DEF Sides

LEMMA TypeInit == Init => TypeOK
  <1> SUFFICES ASSUME Init PROVE TypeOK
    OBVIOUS
  <1>1. {vault, locked, reserve, fees, ins, lpShares, out24, seeded} \subseteq Nat
    BY DEF Init
  <1>2. {minted, supply, pool, ata, held, initial} \subseteq [Sides -> Nat]
    BY PairType, SameType DEF Init
  <1>3. payout \in [Sides -> 0 .. BPS]
    BY RatesAssumption DEF Init, Same
  <1>4. {breaker, own, completed, settled, sentinel, swept} \subseteq BOOLEAN
    BY DEF Init
  <1>5. /\ winner \in Sides \cup {"draw"}
        /\ phase \in {"early", "open", "over"}
        /\ paused \subseteq Pauses
        /\ rulings \in 0 .. 2
    BY DEF Init
  <1> QED
    BY <1>1, <1>2, <1>3, <1>4, <1>5 DEF TypeOK

\* The parts of a split amount make up the whole.
LEMMA SplitParts ==
  ASSUME NEW g \in Nat, NEW f \in FeeSchedules
  PROVE  /\ Split(g, f).lp \in Nat /\ Split(g, f).cover \in Nat
         /\ Split(g, f).team \in Nat /\ Split(g, f).net \in Int
         /\ Split(g, f).net + Split(g, f).team + Split(g, f).cover
              + Split(g, f).lp = g
  <1>1. f.platform \in 0 .. BPS /\ f.lp \in 0 .. BPS /\ InsuranceBps \in 0 .. BPS
    BY RatesAssumption
  <1>2. Bps(g, f.platform) \in 0 .. g /\ Bps(g, f.lp) \in 0 .. g
    BY <1>1, BpsBound
  <1>3. Bps(Bps(g, f.platform), InsuranceBps) \in 0 .. Bps(g, f.platform)
    BY <1>1, <1>2, BpsBound
  <1> QED
    BY <1>2, <1>3 DEF Split

LEMMA TypeTrading ==
  ASSUME TypeOK, NEW a \in Amounts, NEW s \in Sides, Buy(s, a) \/ Sell(s, a)
  PROVE  TypeOK'
  <1>1. a \in Nat /\ VaultMin \in Nat
    BY AmountsAssumption
  <1>2. CASE Buy(s, a)
    <2>1. PICK f \in FeeSchedules :
            /\ Split(a, f).net >= 0
            /\ \E t \in LmsrTokens(Split(a, f).net) :
                 pool[s] >= t /\ ata[s] >= t /\ Deliver(s, t)
            /\ vault' = vault + Split(a, f).net + Split(a, f).lp
                          + Split(a, f).cover
            /\ reserve' = reserve + Split(a, f).net
            /\ fees' = fees + Split(a, f).lp
            /\ ins' = ins + Split(a, f).cover
      BY <1>2 DEF Buy, Collect
    <2>2. PICK t \in LmsrTokens(Split(a, f).net) :
            pool[s] >= t /\ ata[s] >= t /\ Deliver(s, t)
      BY <2>1
    <2>3. t \in Nat
      BY AmountsAssumption DEF LmsrTokens
    <2>4. {vault', reserve', fees', ins'} \subseteq Nat
      BY <1>1, <2>1, SplitParts DEF TypeOK
    <2>5. {pool', ata', held'} \subseteq [Sides -> Nat]
      BY <2>2, <2>3 DEF Deliver, TypeOK
    <2> QED
      BY <1>2, <2>4, <2>5 DEF Buy, TypeOK, exits, status, control, Collect
  <1>3. CASE Sell(s, a)
    <2>1. PICK f \in FeeSchedules, change \in LmsrProceeds(a) :
            /\ reserve >= change
            /\ vault - (Split(change, f).net + Split(change, f).team)
                 >= VaultMin
            /\ vault' = vault - (Split(change, f).net + Split(change, f).team)
            /\ reserve' = reserve - change
            /\ fees' = fees + Split(change, f).lp
            /\ ins' = ins + Split(change, f).cover
      BY <1>3 DEF Sell, Collect
    <2>2. change \in Nat
      BY AmountsAssumption DEF LmsrProceeds
    <2>3. {vault', reserve', fees', ins'} \subseteq Nat
      BY <1>1, <2>1, <2>2, SplitParts DEF TypeOK
    <2>4. held[s] >= a /\ Deliver(s, -a)
      BY <1>3 DEF Sell, Collect
    <2>5. {pool', ata', held'} \subseteq [Sides -> Nat]
      BY <1>1, <2>4 DEF Deliver, TypeOK
    <2> QED
      BY <1>3, <2>3, <2>5 DEF Sell, TypeOK, exits, status, control, Collect
  <1> QED
    BY <1>2, <1>3

LEMMA TypeSets ==
  ASSUME TypeOK, NEW a \in Amounts,
         MintCompleteSet(a) \/ RedeemCompleteSet(a)
  PROVE  TypeOK'
  <1>1. a \in Nat /\ Same(a) \in [Sides -> Nat]
    BY AmountsAssumption, SameType
  <1>2. CASE MintCompleteSet(a)
    <2>1. {minted', supply', held'} \subseteq [Sides -> Nat]
      BY <1>1, <1>2, PlusType DEF MintCompleteSet, TypeOK
    <2> QED
      BY <1>1, <1>2, <2>1 DEF MintCompleteSet, TypeOK, exits, status, control
  <1>3. CASE RedeemCompleteSet(a)
    <2>1. {minted', supply', held'} \subseteq [Sides -> Nat]
      BY <1>1, <1>3, MinusType DEF RedeemCompleteSet, TypeOK
    <2> QED
      BY <1>1, <1>3, <2>1 DEF RedeemCompleteSet, TypeOK, exits, status, control
  <1> QED
    BY <1>2, <1>3

LEMMA TypeSeed ==
  ASSUME TypeOK, NEW a \in Stakes, SeedPool(a)
  PROVE  TypeOK'
  <1>1. a \in Nat /\ Same(a) \in [Sides -> Nat]
    BY AmountsAssumption, SameType
  <1>2. {minted', supply', pool', ata'} \subseteq [Sides -> Nat]
    BY <1>1, PlusType DEF SeedPool, TypeOK
  <1> QED
    BY <1>1, <1>2 DEF SeedPool, TypeOK, exits, status, control

LEMMA TypeDeposit ==
  ASSUME TypeOK, NEW a \in Nat, NEW shares \in Nat,
         NEW mint \in [Sides -> Nat], NEW toPool \in Nat,
         Deposit(a, shares, mint, toPool)
  PROVE  TypeOK'
  <1>1. SetsIn(mint) \in Nat
    BY DEF SetsIn, Lesser
  <1>2. {minted', pool', ata'} \subseteq [Sides -> Nat]
    BY PlusType DEF Deposit, TypeOK
  <1>3. initial' \in [Sides -> Nat]
    BY <1>2 DEF Deposit, TypeOK
  <1> QED
    BY <1>1, <1>2, <1>3 DEF Deposit, TypeOK, status, control

\* What the first LP's deposit puts in has the types TypeDeposit asks for.
LEMMA FirstDeposit ==
  ASSUME NEW a \in Nat
  PROVE  /\ FirstMint(a) \in [Sides -> Nat]
         /\ Monus(a, MinLiquidity) \in Nat
         /\ Monus(a, SetsIn(FirstMint(a))) \in Nat
  <1>1. InitialYesProb \in 0 .. BPS /\ BPS - InitialYesProb \in 0 .. BPS
    BY RatesAssumption
  <1>2. FirstMint(a) \in [Sides -> Nat]
    BY <1>1, PortionNat, PairType, RatesAssumption DEF FirstMint, Bps
  <1>3. SetsIn(FirstMint(a)) \in Nat
    BY <1>2 DEF SetsIn, Lesser
  <1> QED
    BY <1>2, <1>3, AmountsAssumption DEF Monus

\* Both kinds of add_liquidity are a Deposit: of the tokens the opening odds
\* give, or of complete sets.
LEMMA DepositTerms ==
  ASSUME TypeOK, NEW a \in Stakes,
         \/ AddFirstLiquidity(a)
         \/ \E p \in Prices : AddLiquidity(a, p)
  PROVE  \E shares, toPool, sets \in Nat, mint \in [Sides -> Nat] :
           /\ Deposit(a, shares, mint, toPool)
           /\ mint \in {FirstMint(a), Same(sets)}
  <1>1. a \in Nat
    BY AmountsAssumption
  <1>2. CASE AddFirstLiquidity(a)
    BY <1>1, <1>2, FirstDeposit DEF AddFirstLiquidity
  <1>3. ASSUME NEW p \in Prices, AddLiquidity(a, p)
        PROVE  \E shares, toPool, sets \in Nat :
                 Deposit(a, shares, Same(sets), toPool)
    <2> DEFINE value == reserve + Bps(pool.yes, p) + Bps(pool.no, BPS - p)
               shares == Portion(a, lpShares, value)
               sets == Larger(Portion(pool.yes, shares, lpShares),
                              Portion(pool.no, shares, lpShares))
               toPool == Portion(reserve, shares, lpShares)
    <2>1. /\ lpShares > 0 /\ value > 0
          /\ Deposit(a, shares, Same(sets), toPool)
      BY <1>3 DEF AddLiquidity
    <2>2. p \in 0 .. BPS /\ BPS - p \in 0 .. BPS /\ BPS \in Nat \ {0}
      BY RatesAssumption
    <2>3. pool.yes \in Nat /\ pool.no \in Nat /\ reserve \in Nat
            /\ lpShares \in Nat
      BY DEF TypeOK
    <2>4. Bps(pool.yes, p) \in Nat /\ Bps(pool.no, BPS - p) \in Nat
      BY <2>2, <2>3, BpsBound
    <2>5. value \in Nat
      BY <2>3, <2>4
    <2> HIDE DEF value
    <2>6. shares \in Nat
      BY <1>1, <2>1, <2>3, <2>5, PortionNat
    <2> HIDE DEF shares
    <2>7. lpShares \in Nat \ {0}
      BY <2>1, <2>3
    <2>8. \A x \in Nat : Portion(x, shares, lpShares) \in Nat
      BY <2>6, <2>7, PortionNat
    <2>9. sets \in Nat /\ toPool \in Nat
      BY <2>3, <2>8 DEF Larger
    <2> HIDE DEF sets, toPool
    <2> QED
      BY <2>1, <2>6, <2>9
  <1>4. ASSUME NEW p \in Prices, AddLiquidity(a, p)
        PROVE  \E shares, toPool, sets \in Nat, mint \in [Sides -> Nat] :
                 /\ Deposit(a, shares, mint, toPool)
                 /\ mint \in {FirstMint(a), Same(sets)}
    BY <1>3, <1>4, SameType
  <1> QED
    BY <1>2, <1>4

LEMMA TypeLiquidity ==
  ASSUME TypeOK, NEW a \in Stakes,
         \/ AddFirstLiquidity(a)
         \/ \E p \in Prices : AddLiquidity(a, p)
  PROVE  TypeOK'
  BY DepositTerms, TypeDeposit, AmountsAssumption

\* The parts of a withdrawal of lp shares, as WithdrawLiquidity names them.
LEMMA ExitParts ==
  ASSUME TypeOK, NEW lp \in 1 .. lpShares
  PROVE  /\ Portion(reserve, lp, lpShares) \in 0 .. reserve
         /\ \A s \in Sides : Portion(pool[s], lp, lpShares) \in 0 .. pool[s]
  <1>1. lpShares \in Nat \ {0} /\ lp \in 0 .. lpShares
    BY DEF TypeOK
  <1>2. reserve \in Nat /\ \A s \in Sides : pool[s] \in Nat
    BY DEF TypeOK
  <1> QED
    BY <1>1, <1>2, PortionBound

\* A withdrawal in the terms of the money and tokens it moves.
LEMMA ExitStep ==
  ASSUME TypeOK, NEW lp \in Nat, WithdrawLiquidity(lp)
  PROVE  \E usdc, paired, sold, comp, final \in Nat, share \in [Sides -> Nat] :
           /\ paired = Lesser(share.yes, share.no)
           /\ final <= usdc + paired + sold + comp
           /\ vault >= final /\ vault' = vault - final
           /\ comp <= ins /\ ins' = ins - comp
           /\ reserve >= sold + usdc + paired
           /\ reserve' = reserve - sold - usdc - paired
           /\ locked >= paired /\ locked' = locked - paired
           /\ Covers(minted, share) /\ minted' = Minus(minted, share)
           /\ Covers(ata, share) /\ ata' = Minus(ata, share)
           /\ out24' \in Nat
  <1> DEFINE usdc == Portion(reserve, lp, lpShares)
             share == [s \in Sides |-> Portion(pool[s], lp, lpShares)]
             paired == Lesser(share.yes, share.no)
             spare == [s \in Sides |-> share[s] - paired]
  <1>1. lp \in 1 .. lpShares
    BY DEF WithdrawLiquidity, MayWithdraw
  <1>2. usdc \in Nat /\ share \in [Sides -> Nat]
    BY <1>1, ExitParts DEF TypeOK
  <1>3. paired \in Nat
    BY <1>2 DEF Lesser
  <1>4. PICK sold \in Proceeds(spare.yes + spare.no), penalty \in Penalties,
             comp \in 0 .. ins, base \in {0, out24} :
          LET gross == usdc + paired + sold
              final == gross - Bps(gross, penalty) + comp
          IN /\ vault >= final
             /\ vault' = vault - final
             /\ ins' = ins - comp
             /\ reserve - sold - usdc - paired >= 0
             /\ reserve' = reserve - sold - usdc - paired
             /\ out24' = base + final
    BY DEF WithdrawLiquidity, MayWithdraw
  <1>5. sold \in Nat
    BY AmountsAssumption DEF Proceeds, LmsrProceeds
  <1> DEFINE gross == usdc + paired + sold
             final == gross - Bps(gross, penalty) + comp
  <1>6. gross \in Nat
    BY <1>2, <1>3, <1>5
  <1>7. Bps(gross, penalty) \in 0 .. gross
    BY <1>6, BpsBound, RatesAssumption
  <1>8. comp \in Nat /\ comp <= ins /\ base \in Nat
    BY DEF TypeOK
  <1>9. final \in Nat /\ final <= usdc + paired + sold + comp
    BY <1>2, <1>3, <1>5, <1>6, <1>7, <1>8
  <1>10. /\ locked >= paired /\ locked' = locked - paired
         /\ Covers(minted, share) /\ minted' = Minus(minted, share)
         /\ Covers(ata, share) /\ ata' = Minus(ata, share)
    BY DEF WithdrawLiquidity, MayWithdraw
  <1>11. /\ vault >= final /\ vault' = vault - final /\ ins' = ins - comp
         /\ reserve - sold - usdc - paired >= 0
         /\ reserve' = reserve - sold - usdc - paired
         /\ out24' = base + final
    BY <1>4
  <1> HIDE DEF usdc, share, gross, final
  <1>12. reserve >= sold + usdc + paired /\ out24' \in Nat
    BY <1>2, <1>3, <1>5, <1>8, <1>9, <1>11 DEF TypeOK
  <1> QED
    BY <1>2, <1>3, <1>5, <1>8, <1>9, <1>10, <1>11, <1>12

LEMMA TypeExit ==
  ASSUME TypeOK, NEW lp \in Nat, WithdrawLiquidity(lp)
  PROVE  TypeOK'
  <1>1. {vault', ins', reserve', locked', out24'} \subseteq Nat
    BY ExitStep DEF TypeOK
  <1>2. {minted', ata'} \subseteq [Sides -> Nat]
    BY ExitStep, MinusType DEF TypeOK
  <1>3. lpShares' \in Nat
    BY DEF WithdrawLiquidity, TypeOK, MayWithdraw
  <1>4. pool' \in [Sides -> Nat]
    <2> DEFINE share == [s \in Sides |-> Portion(pool[s], lp, lpShares)]
               paired == Lesser(share.yes, share.no)
               spare == [s \in Sides |-> share[s] - paired]
    <2>1. /\ pool' = Minus(Plus(pool, spare), Same(paired))
          /\ Covers(Plus(pool, spare), Same(paired))
          /\ lp \in 1 .. lpShares
      BY DEF WithdrawLiquidity, MayWithdraw
    <2>2. share \in [Sides -> Nat]
      BY <2>1, ExitParts DEF TypeOK
    <2> HIDE DEF share
    <2>3. paired \in Nat /\ spare \in [Sides -> Nat]
      BY <2>2 DEF Lesser
    <2> HIDE DEF paired, spare
    <2> QED
      BY <2>1, <2>3, PlusType, MinusType, SameType DEF TypeOK
  <1>5. breaker' \in BOOLEAN
    BY Zenon DEF WithdrawLiquidity, Trips, Lopsided, MayWithdraw
  <1> QED
    BY <1>1, <1>2, <1>3, <1>4, <1>5 DEF WithdrawLiquidity, TypeOK, status, control, MayWithdraw

\* The instructions that move no money and no token.
LEMMA TypeSwitches ==
  ASSUME TypeOK,
         \/ ClaimLpFees \/ ResetCircuitBreaker \/ ReclaimDust
         \/ SetMintAuthority \/ Tick
         \/ \E sw \in Pauses : Pause(sw) \/ Unpause(sw)
  PROVE  TypeOK'
  <1> USE DEF money, tokens, exits, status, control
  <1>1. CASE ClaimLpFees
    <2>1. vault' \in Nat /\ fees' \in Nat
      BY <1>1, AmountsAssumption DEF ClaimLpFees, TypeOK
    <2> QED
      BY <1>1, <2>1 DEF ClaimLpFees, TypeOK
  <1>2. CASE ResetCircuitBreaker
    <2>1. breaker' \in BOOLEAN /\ out24' \in Nat
      BY <1>2 DEF ResetCircuitBreaker
    <2> QED
      BY <1>2, <2>1 DEF ResetCircuitBreaker, TypeOK
  <1>3. CASE ReclaimDust
    BY <1>3 DEF ReclaimDust, TypeOK
  <1>4. CASE SetMintAuthority
    BY <1>4 DEF SetMintAuthority, TypeOK
  <1>5. CASE Tick
    BY <1>5 DEF Tick, TypeOK
  <1>6. CASE \E sw \in Pauses : Pause(sw) \/ Unpause(sw)
    BY <1>6 DEF Pause, Unpause, TypeOK
  <1> QED
    BY <1>1, <1>2, <1>3, <1>4, <1>5, <1>6

\* A ruling burns every token in the program's hands, whatever they are, and
\* takes as many from the counters, the sentinel apart.
LEMMA RulingStep ==
  ASSUME TypeOK, NEW w \in Sides \cup {"draw"}, NEW r \in 0 .. BPS,
         NEW final \in BOOLEAN, Resolution(w, r, final)
  PROVE  /\ ata' = Same(0)
         /\ ata.yes <= minted.yes
         /\ ata.no <= minted.no + IF sentinel THEN 1 ELSE 0
         /\ minted' = [yes |-> minted.yes - ata.yes,
                       no |-> minted.no - Lesser(ata.no, minted.no)]
         /\ Release(ata, payout') \in Nat
         /\ locked >= Release(ata, payout')
         /\ locked' = locked - Release(ata, payout')
         /\ payout' = Ratios(w, r)
         /\ payout' \in [Sides -> 0 .. BPS]
         /\ supply.yes >= ata.yes
  <1> DEFINE burn == [ata EXCEPT !.no =
                        Lesser(@, minted.no + IF sentinel THEN 1 ELSE 0)]
  <1>1. /\ ata.yes <= minted.yes
        /\ ata.no <= minted.no + IF sentinel THEN 1 ELSE 0
        /\ locked >= Release(burn, Ratios(w, r))
        /\ locked' = locked - Release(burn, Ratios(w, r))
        /\ payout' = Ratios(w, r)
        /\ minted' = [yes |-> minted.yes - burn.yes,
                      no |-> minted.no - Lesser(burn.no, minted.no)]
        /\ ata' = Minus(ata, burn)
        /\ supply.yes >= burn.yes
    BY DEF Resolution, TakeDown
  <1>2. burn = ata
    BY <1>1 DEF TypeOK, Lesser
  <1> HIDE DEF burn
  <1>3. ata' = Same(0)
    BY <1>1, <1>2 DEF Minus, Same, TypeOK
  <1>4. Ratios(w, r) \in [Sides -> 0 .. BPS]
    BY RatesAssumption DEF Ratios
  <1>5. ata.yes \in Nat /\ Lesser(ata.no, minted.no) \in Nat
    BY DEF TypeOK, Lesser
  <1>6. /\ Bps(ata.yes, Ratios(w, r).yes) \in Nat
        /\ Bps(Lesser(ata.no, minted.no), Ratios(w, r).no) \in Nat
    <2>1. Ratios(w, r).yes \in 0 .. BPS /\ Ratios(w, r).no \in 0 .. BPS
      BY <1>4
    <2> QED
      BY <2>1, <1>5, BpsBound
  <1>7. Release(ata, Ratios(w, r)) \in Nat
    BY <1>6 DEF Release
  <1> QED
    BY <1>1, <1>2, <1>3, <1>4, <1>7

LEMMA TypeRuling ==
  ASSUME TypeOK, NEW w \in Sides \cup {"draw"}, NEW r \in 0 .. BPS,
         NEW final \in BOOLEAN, Resolution(w, r, final)
  PROVE  TypeOK'
  <1>1. /\ ata' = Same(0) /\ payout' \in [Sides -> 0 .. BPS]
        /\ locked' \in Nat
    BY RulingStep DEF TypeOK
  <1>2. minted' \in [Sides -> Nat]
    BY RulingStep, PairType DEF Lesser, TypeOK
  <1>3. ata' \in [Sides -> Nat]
    BY <1>1, SameType
  <1>4. supply' \in [Sides -> Nat] /\ pool' \in [Sides -> Nat]
    BY DEF Resolution, TypeOK, Monus, Lesser, TakeDown
  <1>5. /\ winner' \in Sides \cup {"draw"} /\ rulings' \in 0 .. 2
        /\ completed' \in BOOLEAN /\ sentinel' \in BOOLEAN
    BY DEF Resolution, TypeOK, Lesser, TakeDown
  <1> QED
    BY <1>1, <1>2, <1>3, <1>4, <1>5 DEF Resolution, TypeOK, exits, control, TakeDown

LEMMA TypeOutcome ==
  ASSUME TypeOK,
         \/ SettlePool
         \/ \E y \in 0 .. held.yes, n \in 0 .. held.no : ClaimRewards(y, n)
  PROVE  TypeOK'
  <1>1. CASE SettlePool
    <2>1. pool' \in [Sides -> Nat] /\ ata' \in [Sides -> Nat]
      BY <1>1 DEF SettlePool, TypeOK, Opposite
    <2> QED
      BY <1>1, <2>1 DEF SettlePool, TypeOK, money, exits, control
  <1>2. ASSUME NEW y \in 0 .. held.yes, NEW n \in 0 .. held.no,
               ClaimRewards(y, n)
        PROVE  TypeOK'
    <2> DEFINE pay == Bps(y, payout.yes) + Bps(n, payout.no)
    <2>1. pay \in Nat
      <3>1. /\ y \in Nat /\ n \in Nat
            /\ payout.yes \in 0 .. BPS /\ payout.no \in 0 .. BPS
        BY DEF TypeOK
      <3>2. Bps(y, payout.yes) \in Nat /\ Bps(n, payout.no) \in Nat
        BY <3>1, BpsBound
      <3> QED
        BY <3>2
    <2>2. /\ pay > 0 => vault >= pay
          /\ reserve >= pay - Lesser(pay, locked)
          /\ vault' = vault - pay
          /\ locked' = locked - Lesser(pay, locked)
          /\ reserve' = reserve - (pay - Lesser(pay, locked))
      BY <1>2 DEF ClaimRewards, CanClaim, CanPay, TotalPayout, BurnHeld
    <2> HIDE DEF pay
    <2>3. {vault', locked', reserve'} \subseteq Nat
      BY <2>1, <2>2 DEF TypeOK, Lesser
    <2>4. {minted', supply', held'} \subseteq [Sides -> Nat]
      BY <1>2 DEF ClaimRewards, TypeOK, Monus, CanClaim, CanPay, TotalPayout, BurnHeld
    <2> QED
      BY <1>2, <2>3, <2>4
      DEF ClaimRewards, TypeOK, exits, status, control, CanClaim, CanPay, TotalPayout, BurnHeld
  <1> QED
    BY <1>1, <1>2

LEMMA TypeStep == TypeOK /\ [Next]_vars => TypeOK'
  <1> SUFFICES ASSUME TypeOK, [Next]_vars PROVE TypeOK'
    OBVIOUS
  <1>1. ASSUME NEW a \in Amounts,
               \/ MintCompleteSet(a) \/ RedeemCompleteSet(a)
               \/ \E s \in Sides : Buy(s, a) \/ Sell(s, a)
        PROVE  TypeOK'
    BY <1>1, TypeSets, TypeTrading
  <1>2. ASSUME NEW a \in Stakes,
               \/ SeedPool(a) \/ AddFirstLiquidity(a)
               \/ \E p \in Prices : AddLiquidity(a, p)
        PROVE  TypeOK'
    BY <1>2, TypeSeed, TypeLiquidity
  <1>3. ASSUME NEW lp \in 1 .. lpShares, WithdrawLiquidity(lp)
        PROVE  TypeOK'
    BY <1>3, TypeExit
  <1>4. ASSUME NEW w \in Sides \cup {"draw"}, NEW r \in Draws \cup {0},
               NEW final \in BOOLEAN, Resolution(w, r, final)
        PROVE  TypeOK'
    BY <1>4, TypeRuling, RatesAssumption
  <1>5. CASE UNCHANGED vars
    BY <1>5 DEF TypeOK, vars, money, tokens, exits, status, control
  <1> QED
    BY <1>1, <1>2, <1>3, <1>4, <1>5, TypeSwitches, TypeOutcome DEF Next

\* Every variable keeps its type: no counter underflows.
THEOREM TypeCorrect == Spec => []TypeOK
  BY TypeInit, TypeStep, PTL DEF Spec

-----------------------------------------------------------------------------

\* What holds once the outcome is final: the program keeps no token, and dust
\* is swept only from a settled market without shares.
Closing ==
  /\ completed => rulings > 0 /\ ata = Same(0)
  /\ settled => completed
  /\ swept => settled /\ lpShares = 0

ClosingInv == TypeOK /\ Closing

LEMMA ClosingInit == Init => ClosingInv
  BY TypeInit DEF Init, ClosingInv, Closing

LEMMA ClosingStep == ClosingInv /\ [Next]_vars => ClosingInv'
  <1> SUFFICES ASSUME ClosingInv, [Next]_vars PROVE Closing'
    BY TypeStep DEF ClosingInv
  <1> USE DEF ClosingInv, Closing
  <1> USE DEF money, tokens, exits, status, control
  <1>1. ASSUME NEW a \in Amounts,
               \/ MintCompleteSet(a) \/ RedeemCompleteSet(a)
               \/ \E s \in Sides : Buy(s, a) \/ Sell(s, a)
        PROVE  Closing'
    <2>1. ~completed /\ UNCHANGED <<completed, settled, swept>>
      BY <1>1 DEF MintCompleteSet, RedeemCompleteSet, Buy, Sell, TradingOpen, Collect
    <2> QED
      BY <2>1
  <1>2. ASSUME NEW a \in Stakes,
               \/ SeedPool(a) \/ AddFirstLiquidity(a)
               \/ \E p \in Prices : AddLiquidity(a, p)
        PROVE  Closing'
    <2>1. ~completed /\ UNCHANGED <<completed, settled, swept>>
      BY <1>2 DEF SeedPool, AddFirstLiquidity, AddLiquidity, Deposit
    <2> QED
      BY <2>1
  <1>3. ASSUME NEW lp \in 1 .. lpShares, WithdrawLiquidity(lp)
        PROVE  Closing'
    <2>1. lpShares > 0 /\ ~swept
      BY DEF TypeOK
    <2>2. completed => ata' = Same(0)
      <3>1. PICK share \in [Sides -> Nat] :
              Covers(ata, share) /\ ata' = Minus(ata, share)
        BY <1>3, ExitStep DEF TypeOK
      <3>2. completed => share = Same(0)
        BY <3>1 DEF Covers, Same
      <3> QED
        BY <3>1, <3>2 DEF Minus, Same
    <2>3. UNCHANGED <<completed, settled, swept, rulings>>
      BY <1>3 DEF WithdrawLiquidity, MayWithdraw
    <2> QED
      BY <2>1, <2>2, <2>3
  <1>4. ASSUME NEW w \in Sides \cup {"draw"}, NEW r \in Draws \cup {0},
               NEW final \in BOOLEAN, Resolution(w, r, final)
        PROVE  Closing'
    <2>1. ata' = Same(0)
      BY <1>4, RulingStep, RatesAssumption
    <2>2. ~completed /\ rulings' > 0 /\ UNCHANGED <<settled, swept>>
      BY <1>4 DEF Resolution, TypeOK, Lesser, TakeDown
    <2> QED
      BY <2>1, <2>2
  <1>5. CASE SettlePool
    <2>1. completed /\ UNCHANGED <<completed, rulings, swept, lpShares>>
      BY <1>5 DEF SettlePool
    <2>2. ata' = Same(0)
      BY <1>5, <2>1 DEF SettlePool, Opposite, Same, TypeOK
    <2>3. settled'
      BY <1>5 DEF SettlePool
    <2> QED
      BY <2>1, <2>2, <2>3
  <1>6. ASSUME NEW y \in 0 .. held.yes, NEW n \in 0 .. held.no,
               ClaimRewards(y, n)
        PROVE  Closing'
    BY <1>6 DEF ClaimRewards, CanClaim, CanPay, TotalPayout, BurnHeld
  <1>7. CASE ReclaimDust
    BY <1>7 DEF ReclaimDust
  <1>8. CASE \/ ClaimLpFees \/ ResetCircuitBreaker \/ SetMintAuthority \/ Tick
             \/ \E sw \in Pauses : Pause(sw) \/ Unpause(sw)
    BY <1>8 DEF ClaimLpFees, ResetCircuitBreaker, SetMintAuthority, Tick,
                Pause, Unpause
  <1>9. CASE UNCHANGED vars
    BY <1>9 DEF vars
  <1> QED
    BY <1>1, <1>2, <1>3, <1>4, <1>5, <1>6, <1>7, <1>8, <1>9 DEF Next

-----------------------------------------------------------------------------
(* The vault covers the ledger.                                             *)

\* How a claim divides: the collateral pays first, the reserve pays the rest.
LEMMA ClaimStep ==
  ASSUME TypeOK, NEW y \in 0 .. held.yes, NEW n \in 0 .. held.no,
         ClaimRewards(y, n)
  PROVE  \E pay, released \in Nat :
           /\ pay = Bps(y, payout.yes) + Bps(n, payout.no)
           /\ released = Lesser(pay, locked)
           /\ vault >= pay /\ vault' = vault - pay
           /\ locked' = locked - released
           /\ reserve >= pay - released
           /\ reserve' = reserve - (pay - released)
  <1> DEFINE pay == Bps(y, payout.yes) + Bps(n, payout.no)
             released == Lesser(pay, locked)
  <1>1. /\ y \in Nat /\ n \in Nat
        /\ payout.yes \in 0 .. BPS /\ payout.no \in 0 .. BPS
    BY DEF TypeOK
  <1>2. Bps(y, payout.yes) \in Nat /\ Bps(n, payout.no) \in Nat
    BY <1>1, BpsBound
  <1>3. pay \in Nat /\ released \in Nat
    BY <1>2 DEF TypeOK, Lesser
  <1>4. /\ pay > 0 => vault >= pay
        /\ vault' = vault - pay
        /\ locked' = locked - released
        /\ reserve >= pay - released
        /\ reserve' = reserve - (pay - released)
    BY DEF ClaimRewards, CanClaim, CanPay, TotalPayout, BurnHeld
  <1> HIDE DEF pay, released
  <1>5. vault >= pay
    BY <1>3, <1>4 DEF TypeOK
  <1> QED
    BY <1>3, <1>4, <1>5 DEF pay, released

LEMMA CoveredStep ==
  ClosingInv /\ LedgerCovered /\ [Next]_vars => LedgerCovered'
  <1> SUFFICES ASSUME ClosingInv, LedgerCovered, [Next]_vars
               PROVE  LedgerCovered'
    OBVIOUS
  <1> USE DEF ClosingInv, LedgerCovered
  <1>t. {vault, locked, reserve, fees, ins, seeded, lpShares} \subseteq Nat
    BY DEF TypeOK
  <1>1. ASSUME NEW a \in Amounts,
               MintCompleteSet(a) \/ RedeemCompleteSet(a)
        PROVE  LedgerCovered'
    BY <1>1, <1>t, AmountsAssumption DEF MintCompleteSet, RedeemCompleteSet
  <1>2. ASSUME NEW a \in Amounts, NEW s \in Sides, Buy(s, a)
        PROVE  LedgerCovered'
    <2>1. PICK f \in FeeSchedules :
            /\ vault' = vault + Split(a, f).net + Split(a, f).lp
                          + Split(a, f).cover
            /\ reserve' = reserve + Split(a, f).net
            /\ fees' = fees + Split(a, f).lp
            /\ ins' = ins + Split(a, f).cover
      BY <1>2 DEF Buy, Collect
    <2>2. UNCHANGED <<locked, seeded, swept>>
      BY <1>2 DEF Buy, Collect
    <2> QED
      BY <1>t, <2>1, <2>2, SplitParts, AmountsAssumption
  <1>3. ASSUME NEW a \in Amounts, NEW s \in Sides, Sell(s, a)
        PROVE  LedgerCovered'
    <2>1. PICK f \in FeeSchedules, change \in LmsrProceeds(a) :
            /\ vault' = vault - (Split(change, f).net + Split(change, f).team)
            /\ reserve' = reserve - change
            /\ fees' = fees + Split(change, f).lp
            /\ ins' = ins + Split(change, f).cover
      BY <1>3 DEF Sell, Collect
    <2>2. change \in Nat
      BY AmountsAssumption DEF LmsrProceeds
    <2>3. UNCHANGED <<locked, seeded, swept>>
      BY <1>3 DEF Sell, Collect
    <2> QED
      BY <1>t, <2>1, <2>2, <2>3, SplitParts
  <1>4. ASSUME NEW a \in Stakes, SeedPool(a)
        PROVE  LedgerCovered'
    BY <1>4, <1>t, AmountsAssumption DEF SeedPool
  <1>5. ASSUME NEW a \in Stakes,
               \/ AddFirstLiquidity(a)
               \/ \E p \in Prices : AddLiquidity(a, p)
        PROVE  LedgerCovered'
    <2>1. PICK shares, toPool \in Nat, mint \in [Sides -> Nat] :
            Deposit(a, shares, mint, toPool)
      BY <1>5, DepositTerms
    <2>2. /\ toPool + SetsIn(mint) = a /\ SetsIn(mint) \in Nat
          /\ vault' = vault + a /\ locked' = locked + SetsIn(mint)
          /\ reserve' = reserve + toPool
          /\ UNCHANGED <<fees, ins, seeded, swept>>
      BY <2>1 DEF Deposit, SetsIn, Lesser
    <2> QED
      BY <1>t, <2>2
  <1>6. ASSUME NEW lp \in 1 .. lpShares, WithdrawLiquidity(lp)
        PROVE  LedgerCovered'
    <2>1. ~swept
      BY <1>t DEF Closing
    <2>2. UNCHANGED <<fees, seeded, swept>>
      BY <1>6 DEF WithdrawLiquidity, MayWithdraw
    <2>3. PICK usdc, paired, sold, comp, final \in Nat,
               share \in [Sides -> Nat] :
            /\ final <= usdc + paired + sold + comp
            /\ vault' = vault - final
            /\ ins' = ins - comp
            /\ reserve' = reserve - sold - usdc - paired
            /\ locked' = locked - paired
      BY <1>6, ExitStep
    <2> QED
      BY <1>t, <2>1, <2>2, <2>3
  <1>7. ASSUME NEW w \in Sides \cup {"draw"}, NEW r \in Draws \cup {0},
               NEW final \in BOOLEAN, Resolution(w, r, final)
        PROVE  LedgerCovered'
    <2>1. locked' <= locked /\ locked' \in Int
      BY <1>7, <1>t, RulingStep, RatesAssumption
    <2>2. UNCHANGED <<vault, reserve, fees, ins, seeded, swept>>
      BY <1>7 DEF Resolution, TakeDown
    <2> QED
      BY <1>t, <2>1, <2>2
  <1>8. ASSUME NEW y \in 0 .. held.yes, NEW n \in 0 .. held.no,
               ClaimRewards(y, n)
        PROVE  LedgerCovered'
    <2>1. PICK pay, released \in Nat :
            /\ vault' = vault - pay /\ locked' = locked - released
            /\ reserve' = reserve - (pay - released)
      BY <1>8, ClaimStep
    <2>2. UNCHANGED <<fees, ins, seeded, swept>>
      BY <1>8 DEF ClaimRewards, CanClaim, CanPay, TotalPayout, BurnHeld
    <2> QED
      BY <1>t, <2>1, <2>2
  <1>9. CASE ReclaimDust
    BY <1>9, <1>t DEF ReclaimDust
  <1>10. CASE ClaimLpFees
    BY <1>10, <1>t DEF ClaimLpFees
  <1>11. CASE \/ SettlePool \/ ResetCircuitBreaker \/ SetMintAuthority \/ Tick
              \/ \E sw \in Pauses : Pause(sw) \/ Unpause(sw)
              \/ UNCHANGED vars
    BY <1>11 DEF SettlePool, ResetCircuitBreaker, SetMintAuthority, Tick,
                 Pause, Unpause, vars, money
  <1> QED
    BY <1>1, <1>2, <1>3, <1>4, <1>5, <1>6, <1>7, <1>8, <1>9, <1>10, <1>11
       DEF Next

LEMMA CoveredInit == Init => LedgerCovered
  BY DEF Init, LedgerCovered

\* The vault covers what the ledger promises, whatever the rates and the curve.
THEOREM VaultCoversLedger == Spec => []LedgerCovered
  <1>1. ClosingInv /\ LedgerCovered /\ [Next]_vars
          => (ClosingInv /\ LedgerCovered)'
    BY ClosingStep, CoveredStep
  <1> QED
    BY <1>1, ClosingInit, CoveredInit, PTL DEF Spec

-----------------------------------------------------------------------------
(* The minted counters agree with the tokens that exist.                    *)

SupplyInv == ClosingInv /\ SupplyAgrees

LEMMA SupplyInit == Init => SupplyInv
  BY ClosingInit DEF Init, SupplyInv, SupplyAgrees, Same

LEMMA SupplyStep == SupplyInv /\ [Next]_vars => SupplyInv'
  <1> SUFFICES ASSUME SupplyInv, [Next]_vars PROVE SupplyAgrees'
    BY ClosingStep DEF SupplyInv
  <1> USE DEF SupplyInv, ClosingInv, SupplyAgrees
  <1>t. /\ {minted, ata, held} \subseteq [Sides -> Nat] /\ rulings \in 0 .. 2
        /\ sentinel \in BOOLEAN
    BY DEF TypeOK
  <1>d. \/ ata.no + held.no = minted.no
        \/ ata.no + held.no = minted.no + 1
    <2>1. ata.no \in Nat /\ held.no \in Nat /\ minted.no \in Nat
      BY <1>t
    <2>2. ata.no + held.no - minted.no \in {0, 1}
      OBVIOUS
    <2> QED
      BY <2>1, <2>2
  <1>1. ASSUME NEW a \in Amounts,
               MintCompleteSet(a) \/ RedeemCompleteSet(a)
        PROVE  SupplyAgrees'
    <2>1. UNCHANGED <<ata, rulings>> /\ a \in Nat
      BY <1>1, AmountsAssumption
         DEF MintCompleteSet, RedeemCompleteSet, status
    <2>2. \/ minted' = Plus(minted, Same(a)) /\ held' = Plus(held, Same(a))
          \/ minted' = Minus(minted, Same(a)) /\ held' = Minus(held, Same(a))
      BY <1>1 DEF MintCompleteSet, RedeemCompleteSet
    <2> QED
      BY <1>t, <2>1, <2>2 DEF Plus, Minus, Same
  <1>2. ASSUME NEW a \in Amounts, NEW s \in Sides, Buy(s, a) \/ Sell(s, a)
        PROVE  SupplyAgrees'
    <2>1. UNCHANGED <<minted, rulings>>
      BY <1>2 DEF Buy, Sell, status, Collect
    <2>2. PICK t \in Int : Deliver(s, t)
      BY <1>2, AmountsAssumption DEF Buy, Sell, LmsrTokens, Collect
    <2>3. \A x \in Sides : ata'[x] + held'[x] = ata[x] + held[x]
      BY <1>t, <2>2 DEF Deliver
    <2>4. \A x \in Sides : ata'[x] \in Int /\ held'[x] \in Int
      BY <1>t, <2>2 DEF Deliver
    <2>5. ata'.no + held'.no = ata.no + held.no
            /\ ata'.yes + held'.yes = ata.yes + held.yes
      BY <2>3
    <2> QED
      BY <1>t, <2>1, <2>4, <2>5
  <1>3. ASSUME NEW a \in Stakes, SeedPool(a)
        PROVE  SupplyAgrees'
    BY <1>3, <1>t, AmountsAssumption DEF SeedPool, Plus, Same, status
  <1>4. ASSUME NEW a \in Stakes,
               \/ AddFirstLiquidity(a)
               \/ \E p \in Prices : AddLiquidity(a, p)
        PROVE  SupplyAgrees'
    <2>1. PICK shares, toPool \in Nat, mint \in [Sides -> Nat] :
            Deposit(a, shares, mint, toPool)
      BY <1>4, DepositTerms
    <2> QED
      BY <1>t, <2>1 DEF Deposit, Plus, status
  <1>5. ASSUME NEW lp \in 1 .. lpShares, WithdrawLiquidity(lp)
        PROVE  SupplyAgrees'
    <2>1. PICK share \in [Sides -> Nat] :
            /\ Covers(minted, share) /\ minted' = Minus(minted, share)
            /\ Covers(ata, share) /\ ata' = Minus(ata, share)
      BY <1>5, ExitStep DEF TypeOK
    <2>2. UNCHANGED <<held, rulings>>
      BY <1>5 DEF WithdrawLiquidity, status, MayWithdraw
    <2> QED
      BY <1>t, <2>1, <2>2 DEF Minus, Covers
  <1>6. ASSUME NEW w \in Sides \cup {"draw"}, NEW r \in Draws \cup {0},
               NEW final \in BOOLEAN, Resolution(w, r, final)
        PROVE  SupplyAgrees'
    <2>1. /\ ata' = Same(0)
          /\ ata.yes <= minted.yes
          /\ ata.no <= minted.no + 1
          /\ minted' = [yes |-> minted.yes - ata.yes,
                        no |-> minted.no - Lesser(ata.no, minted.no)]
      BY <1>6, <1>t, RulingStep, RatesAssumption
    <2>2. UNCHANGED held /\ rulings' > 0
      BY <1>6, <1>t DEF Resolution, Lesser, TakeDown
    <2> QED
      BY <1>t, <2>1, <2>2 DEF Same, Lesser
  <1>7. CASE SettlePool
    <2>1. ata' = Same(0) /\ ata = Same(0)
      BY <1>7, <1>t DEF SettlePool, Closing, Opposite, Same, TypeOK
    <2>2. UNCHANGED <<minted, held, rulings>>
      BY <1>7 DEF SettlePool
    <2> QED
      BY <2>1, <2>2
  <1>8. ASSUME NEW y \in 0 .. held.yes, NEW n \in 0 .. held.no,
               ClaimRewards(y, n)
        PROVE  SupplyAgrees'
    <2>1. /\ ata = Same(0) /\ rulings > 0 /\ UNCHANGED <<ata, rulings>>
          /\ minted' = [yes |-> Monus(minted.yes, y), no |-> Monus(minted.no, n)]
          /\ held' = [yes |-> held.yes - y, no |-> held.no - n]
      BY <1>8 DEF ClaimRewards, Closing, status, CanClaim, CanPay, TotalPayout, BurnHeld
    <2>2. ata.yes = 0 /\ ata.no = 0
      BY <2>1 DEF Same
    <2>3. minted'.yes = held'.yes
      BY <1>t, <2>1, <2>2 DEF Monus
    <2>4. held'.no - minted'.no \in {0, 1}
      <3>1. /\ held.no \in Nat /\ minted.no \in Nat
            /\ held.no = minted.no \/ held.no = minted.no + 1
        BY <1>t, <1>d, <2>2
      <3>2. /\ held'.no = held.no - n
            /\ minted'.no = IF minted.no <= n THEN 0 ELSE minted.no - n
        BY <2>1 DEF Monus
      <3> QED
        BY <3>1, <3>2
    <2>5. held'.yes \in Nat /\ held'.no \in Nat
            /\ minted'.no \in Nat /\ minted'.yes \in Nat
      BY <1>t, <2>1 DEF Monus
    <2> QED
      BY <2>1, <2>2, <2>3, <2>4, <2>5
  <1>9. CASE \/ ClaimLpFees \/ ResetCircuitBreaker \/ ReclaimDust
             \/ SetMintAuthority \/ Tick
             \/ \E sw \in Pauses : Pause(sw) \/ Unpause(sw)
             \/ UNCHANGED vars
    BY <1>9 DEF ClaimLpFees, ResetCircuitBreaker, ReclaimDust,
                SetMintAuthority, Tick, Pause, Unpause, vars, tokens, status
  <1> QED
    BY <1>1, <1>2, <1>3, <1>4, <1>5, <1>6, <1>7, <1>8, <1>9 DEF Next

\* The counters follow the tokens through every instruction, so the supply
\* checks that resolution makes first never reject it.
THEOREM CountersAgree == Spec => []SupplyAgrees
  <1>1. SupplyInv => SupplyAgrees
    BY DEF SupplyInv
  <1> QED
    BY <1>1, SupplyInit, SupplyStep, PTL DEF Spec

-----------------------------------------------------------------------------
(* What no step may do.                                                     *)

\* Every cap on a withdrawal is below the whole, so a share always remains.
THEOREM SharesPersist == Spec => LpSharesPersist
  <1>1. ASSUME TypeOK, [Next]_vars, lpShares > 0
        PROVE  lpShares' > 0
    <2>1. ASSUME NEW lp \in 1 .. lpShares, WithdrawLiquidity(lp)
          PROVE  lpShares' > 0
      <3>1. lp <= ExitLimit /\ lpShares' = lpShares - lp
        BY <2>1 DEF WithdrawLiquidity, MayWithdraw
      <3>2. ExitCaps[Skew] \in 0 .. (BPS - 1) /\ BPS \in Nat \ {0}
        <4>1. Skew \in {"even", "mild", "moderate", "high"}
          BY DEF Skew
        <4> QED
          BY <4>1, RatesAssumption
      <3>3. lpShares \in Nat
        BY <1>1 DEF TypeOK
      <3>4. ExitLimit < lpShares /\ ExitLimit \in Nat
        BY <1>1, <3>2, <3>3, PortionBound DEF ExitLimit, Bps
      <3> QED
        BY <3>1, <3>3, <3>4
    <2>2. ASSUME NEW a \in Stakes,
                 \/ AddFirstLiquidity(a)
                 \/ \E p \in Prices : AddLiquidity(a, p)
          PROVE  lpShares' > 0
      <3>1. PICK shares, toPool \in Nat, mint \in [Sides -> Nat] :
              Deposit(a, shares, mint, toPool)
        BY <1>1, <2>2, DepositTerms
      <3> QED
        BY <1>1, <3>1 DEF Deposit, TypeOK
    <2>3. ASSUME NEW a \in Stakes, SeedPool(a)
          PROVE  FALSE
      BY <1>1, <2>3 DEF SeedPool
    <2>4. \/ lpShares' = lpShares
          \/ \E lp \in 1 .. lpShares : WithdrawLiquidity(lp)
          \/ \E a \in Stakes :
               \/ SeedPool(a) \/ AddFirstLiquidity(a)
               \/ \E p \in Prices : AddLiquidity(a, p)
      BY <1>1 DEF Next, vars, MintCompleteSet, RedeemCompleteSet, Buy, Sell,
                  ClaimLpFees, ResetCircuitBreaker, Resolution, SettlePool,
                  ClaimRewards, ReclaimDust, SetMintAuthority, Tick, Pause,
                  Unpause, Collect, TakeDown, CanClaim, CanPay, TotalPayout, BurnHeld
    <2> QED
      BY <1>1, <2>1, <2>2, <2>3, <2>4
  <1>2. TypeOK /\ [Next]_vars => [lpShares > 0 => lpShares' > 0]_vars
    BY <1>1
  <1> QED
    BY <1>2, TypeCorrect, PTL DEF Spec, LpSharesPersist

\* No instruction that runs while the contract is paused books a fee or pays out
\* anything but LP fees before the outcome is final.  A claim of fees is taken
\* as it is, with or without its check of the pause.
THEOREM PauseHolds == Spec => PauseHoldsMoney
  <1> DEFINE Held == vault' - fees' >= vault - fees /\ fees' <= fees
  <1>1. ASSUME ClosingInv, [Next]_vars, "contract" \in paused, ~completed
        PROVE  Held
    <2>1. vault \in Nat /\ fees \in Nat /\ ~settled /\ ~Running
      BY <1>1 DEF ClosingInv, Closing, TypeOK, Running
    <2>2. ASSUME NEW a \in Stakes,
                 \/ AddFirstLiquidity(a)
                 \/ \E p \in Prices : AddLiquidity(a, p)
          PROVE  vault' = vault + a /\ fees' = fees /\ a \in Nat
      BY <2>2, AmountsAssumption DEF AddFirstLiquidity, AddLiquidity, Deposit
    <2>3. CASE ClaimLpFees
      <3>1. PICK due \in 1 .. fees : vault' = vault - due /\ fees' = fees - due
        BY <2>3 DEF ClaimLpFees
      <3> QED
        BY <2>1, <3>1
    <2>4. \/ vault' = vault /\ fees' = fees
          \/ ClaimLpFees
          \/ \E a \in Stakes :
               \/ AddFirstLiquidity(a)
               \/ \E p \in Prices : AddLiquidity(a, p)
      BY <1>1, <2>1
         DEF Next, vars, money, MintCompleteSet, RedeemCompleteSet, SeedPool,
             Buy, Sell, TradingOpen, WithdrawLiquidity,
             ResetCircuitBreaker, Resolution, SettlePool, ClaimRewards,
             ReclaimDust, SetMintAuthority, Tick, Pause, Unpause, Collect,
             MayWithdraw, TakeDown, CanClaim, CanPay, TotalPayout, BurnHeld
    <2> QED
      BY <2>1, <2>2, <2>3, <2>4
  <1>2. ClosingInv /\ [Next]_vars
          => ["contract" \in paused /\ ~completed => Held]_vars
    BY <1>1
  <1>3. Spec => []ClosingInv
    BY ClosingInit, ClosingStep, PTL DEF Spec
  <1> QED
    BY <1>2, <1>3, PTL DEF Spec, PauseHoldsMoney

-----------------------------------------------------------------------------
(* The tokens in circulation are backed.                                    *)

\* The side the opening odds do not favour, or either side at even odds.
Minor(s) ==
  IF s = "yes" THEN 2 * InitialYesProb <= BPS ELSE 2 * InitialYesProb >= BPS

\* Until a ruling the collateral covers the minted tokens of a minor side: each
\* deposit locks as much as it mints of it.
MinorBacked == \A s \in Sides : Minor(s) /\ rulings = 0 => minted[s] <= locked

LEMMA MinorSets ==
  ASSUME NEW a \in Nat, NEW s \in Sides, Minor(s)
  PROVE  FirstMint(a)[s] = SetsIn(FirstMint(a))
  <1> DEFINE p == InitialYesProb
             q == BPS - InitialYesProb
  <1>1. p \in Nat /\ q \in Nat /\ p \in 0 .. BPS /\ q \in 0 .. BPS
          /\ BPS \in Nat \ {0}
    BY RatesAssumption
  <1>2. Bps(a, p) \in Nat /\ Bps(a, q) \in Nat
    BY <1>1, BpsBound
  <1>3. CASE s = "yes"
    <2>1. p <= q
      BY <1>1, <1>3 DEF Minor
    <2>2. Bps(a, p) <= Bps(a, q)
      BY <1>1, <2>1, PortionMonotone DEF Bps
    <2> QED
      BY <1>2, <1>3, <2>2 DEF FirstMint, SetsIn, Lesser
  <1>4. CASE s = "no"
    <2>1. q <= p
      BY <1>1, <1>4 DEF Minor
    <2>2. Bps(a, q) <= Bps(a, p)
      BY <1>1, <2>1, PortionMonotone DEF Bps
    <2> QED
      BY <1>2, <1>4, <2>2 DEF FirstMint, SetsIn, Lesser
  <1> QED
    BY <1>3, <1>4

LEMMA MinorStep ==
  SupplyInv /\ MinorBacked /\ [Next]_vars => MinorBacked'
  <1> SUFFICES ASSUME SupplyInv, MinorBacked, [Next]_vars,
                      NEW s \in Sides, Minor(s), rulings' = 0
               PROVE  minted'[s] <= locked'
    BY DEF MinorBacked, Minor
  <1>t. /\ minted \in [Sides -> Nat] /\ locked \in Nat /\ rulings \in 0 .. 2
        /\ TypeOK
    BY DEF SupplyInv, ClosingInv, TypeOK
  <1>m. rulings = 0 => minted[s] <= locked
    BY DEF MinorBacked
  <1>c. completed => rulings > 0
    BY DEF SupplyInv, ClosingInv, Closing
  <1>1. ASSUME NEW a \in Amounts,
               MintCompleteSet(a) \/ RedeemCompleteSet(a)
        PROVE  minted'[s] <= locked'
    <2>1. a \in Nat /\ rulings = 0
      BY <1>1, AmountsAssumption
         DEF MintCompleteSet, RedeemCompleteSet, status
    <2>2. \/ minted' = Plus(minted, Same(a)) /\ locked' = locked + a
          \/ minted' = Minus(minted, Same(a)) /\ locked' = locked - a
      BY <1>1 DEF MintCompleteSet, RedeemCompleteSet
    <2> QED
      BY <1>t, <1>m, <2>1, <2>2 DEF Plus, Minus, Same
  <1>2. ASSUME NEW a \in Stakes, SeedPool(a)
        PROVE  minted'[s] <= locked'
    BY <1>2, <1>t, <1>m, AmountsAssumption DEF SeedPool, Plus, Same, status
  <1>3. ASSUME NEW a \in Stakes,
               \/ AddFirstLiquidity(a)
               \/ \E p \in Prices : AddLiquidity(a, p)
        PROVE  minted'[s] <= locked'
    <2>1. PICK shares, toPool, sets \in Nat, mint \in [Sides -> Nat] :
            /\ Deposit(a, shares, mint, toPool)
            /\ mint \in {FirstMint(a), Same(sets)}
      BY <1>3, <1>t, DepositTerms
    <2>2. mint[s] = SetsIn(mint)
      BY <2>1, MinorSets, AmountsAssumption DEF SetsIn, Same, Lesser
    <2>3. /\ minted'[s] = minted[s] + mint[s]
          /\ locked' = locked + SetsIn(mint)
          /\ rulings' = rulings
      BY <2>1 DEF Deposit, Plus, status
    <2> QED
      BY <1>t, <1>m, <2>1, <2>2, <2>3
  <1>4. ASSUME NEW lp \in 1 .. lpShares, WithdrawLiquidity(lp)
        PROVE  minted'[s] <= locked'
    <2>1. PICK paired \in Nat, share \in [Sides -> Nat] :
            /\ paired = Lesser(share.yes, share.no)
            /\ locked' = locked - paired
            /\ minted' = Minus(minted, share)
      BY <1>4, <1>t, ExitStep DEF TypeOK
    <2>2. paired <= share[s] /\ minted'[s] = minted[s] - share[s]
      BY <2>1 DEF Minus, Lesser
    <2>3. rulings = 0
      BY <1>4 DEF WithdrawLiquidity, status, MayWithdraw
    <2> QED
      BY <1>t, <1>m, <2>1, <2>2, <2>3
  <1>5. ASSUME NEW w \in Sides \cup {"draw"}, NEW r \in Draws \cup {0},
               NEW final \in BOOLEAN, Resolution(w, r, final)
        PROVE  FALSE
    BY <1>5, <1>t DEF Resolution, Lesser, TakeDown
  <1>6. ASSUME NEW y \in 0 .. held.yes, NEW n \in 0 .. held.no,
               ClaimRewards(y, n)
        PROVE  FALSE
    BY <1>6, <1>c DEF ClaimRewards, status, CanClaim, CanPay, TotalPayout, BurnHeld
  <1>7. CASE UNCHANGED <<minted, locked, rulings>>
    BY <1>7, <1>m
  <1>8. \/ UNCHANGED <<minted, locked, rulings>>
        \/ \E a \in Amounts : MintCompleteSet(a) \/ RedeemCompleteSet(a)
        \/ \E a \in Stakes :
             \/ SeedPool(a) \/ AddFirstLiquidity(a)
             \/ \E p \in Prices : AddLiquidity(a, p)
        \/ \E lp \in 1 .. lpShares : WithdrawLiquidity(lp)
        \/ \E w \in Sides \cup {"draw"}, r \in Draws \cup {0},
              final \in BOOLEAN : Resolution(w, r, final)
        \/ \E y \in 0 .. held.yes, n \in 0 .. held.no : ClaimRewards(y, n)
    BY DEF Next, vars, money, tokens, status, Buy, Sell, ClaimLpFees,
           ResetCircuitBreaker, SettlePool, ReclaimDust, SetMintAuthority,
           Tick, Pause, Unpause, Collect
  <1> QED
    BY <1>1, <1>2, <1>3, <1>4, <1>5, <1>6, <1>7, <1>8

LEMMA MinorInit == Init => MinorBacked
  BY DEF Init, MinorBacked, Same

\* Whatever the opening odds, one of the two sides is minor, and no more pairs
\* are held than there are tokens of it.
THEOREM PairsAlwaysBacked == Spec => []PairsBacked
  <1>1. SupplyInv /\ MinorBacked => PairsBacked
    <2> SUFFICES ASSUME SupplyInv, MinorBacked, rulings = 0
                 PROVE  Lesser(held.yes, held.no) <= locked + 1
      BY DEF PairsBacked
    <2>1. /\ locked \in Nat /\ ata.yes \in Nat /\ ata.no \in Nat
          /\ held.yes \in Nat /\ held.no \in Nat
          /\ minted.yes \in Nat /\ minted.no \in Nat
      BY DEF SupplyInv, ClosingInv, TypeOK
    <2>2. held.yes <= minted.yes /\ held.no <= minted.no + 1
      BY <2>1 DEF SupplyInv, SupplyAgrees
    <2>3. minted.yes <= locked \/ minted.no <= locked
      <3>1. Minor("yes") \/ Minor("no")
        BY RatesAssumption DEF Minor
      <3> QED
        BY <3>1 DEF MinorBacked
    <2> QED
      BY <2>1, <2>2, <2>3 DEF Lesser
  <1> QED
    BY <1>1, SupplyInit, SupplyStep, MinorInit, MinorStep, PTL DEF Spec

\* What all tokens, those of the program included, are worth under a ruling,
\* in BPS-ths of a USDC: exactly, where Owed rounds each side down.
Worth ==
  (held.yes + ata.yes) * payout.yes + (held.no + ata.no) * payout.no

\* From one ruling on, at even odds, the collateral covers that worth.
WorthCovered ==
  rulings = 1 => /\ payout.yes + payout.no = BPS
                 /\ Worth <= (locked + 1) * BPS

EvenOpening == 2 * InitialYesProb = BPS

WinnersInv ==
  /\ SupplyInv /\ MinorBacked
  /\ EvenOpening => WorthCovered

\* A complete set is worth one USDC under every ruling.
LEMMA SetsWorth ==
  ASSUME NEW x \in Nat, NEW y \in Nat, NEW a \in Nat, NEW p \in Nat,
         NEW q \in Nat, NEW B \in Nat, p + q = B, NEW c \in Nat,
         x * p + y * q <= (c + 1) * B
  PROVE  /\ (x + a) * p + (y + a) * q <= (c + a + 1) * B
         /\ (x - a) * p + (y - a) * q <= (c - a + 1) * B
  <1>1. a * p + a * q = a * B
    OBVIOUS
  <1>2. (x + a) * p + (y + a) * q = x * p + y * q + (a * p + a * q)
    OBVIOUS
  <1>3. (x - a) * p + (y - a) * q = x * p + y * q - (a * p + a * q)
    OBVIOUS
  <1>4. (c + a + 1) * B = (c + 1) * B + a * B
          /\ (c - a + 1) * B = (c + 1) * B - a * B
    OBVIOUS
  <1> QED
    BY <1>1, <1>2, <1>3, <1>4

\* Tokens that leave take at least the worth of their pairs.
LEMMA ShareWorth ==
  ASSUME NEW x \in Nat, NEW y \in Nat, NEW f \in Nat, NEW g \in Nat,
         NEW a \in Nat, a <= f, a <= g, NEW p \in Nat, NEW q \in Nat
  PROVE  (x - f) * p + (y - g) * q <= (x - a) * p + (y - a) * q
  <1>1. (f - a) * p >= 0 /\ (g - a) * q >= 0
    <2>1. f - a \in Nat /\ g - a \in Nat
      OBVIOUS
    <2> QED
      BY <2>1
  <1>2. (x - a) * p = (x - f) * p + (f - a) * p
          /\ (y - a) * q = (y - g) * q + (g - a) * q
    OBVIOUS
  <1> QED
    BY <1>1, <1>2

LEMMA BpsWorth ==
  ASSUME NEW x \in Nat, NEW rate \in 0 .. BPS
  PROVE  BPS * Bps(x, rate) <= x * rate
  <1>1. x * rate \in Nat /\ BPS \in Nat \ {0}
    BY RatesAssumption
  <1> QED
    BY <1>1, DivisionFloors DEF Bps, Portion

\* The first ruling: what the burned tokens release is no more than their worth.
LEMMA RulingWorth ==
  ASSUME WinnersInv, EvenOpening, rulings = 0,
         NEW w \in Sides \cup {"draw"}, NEW r \in Draws \cup {0},
         NEW final \in BOOLEAN, Resolution(w, r, final)
  PROVE  payout'.yes + payout'.no = BPS /\ Worth' <= (locked' + 1) * BPS
  <1> DEFINE p == payout'.yes
             q == payout'.no
             release == Release(ata, payout')
  <1>1. /\ minted.yes <= locked /\ minted.no <= locked
        /\ minted.yes = ata.yes + held.yes /\ minted.no + 1 = ata.no + held.no
        /\ {locked, ata.yes, ata.no, held.yes, held.no, minted.yes, minted.no}
             \subseteq Nat
        /\ TypeOK
    <2>1. {locked, ata.yes, ata.no, held.yes, held.no, minted.yes, minted.no}
             \subseteq Nat /\ TypeOK
      BY DEF WinnersInv, SupplyInv, ClosingInv, TypeOK
    <2>2. ata.no + held.no - minted.no = 1
      BY DEF WinnersInv, SupplyInv, SupplyAgrees
    <2>3. Minor("yes") /\ Minor("no")
      BY RatesAssumption DEF Minor, EvenOpening
    <2>4. minted.yes <= locked /\ minted.no <= locked
      BY <2>3 DEF WinnersInv, MinorBacked
    <2> QED
      BY <2>1, <2>2, <2>4 DEF WinnersInv, SupplyInv, SupplyAgrees
  <1>2. r \in 0 .. BPS /\ BPS \in Nat \ {0}
    BY RatesAssumption
  <1>3. /\ ata' = Same(0) /\ payout' = Ratios(w, r)
        /\ locked' = locked - release /\ release \in Nat
        /\ payout' \in [Sides -> 0 .. BPS]
    BY <1>1, <1>2, RulingStep
  <1>4. p + q = BPS /\ p \in 0 .. BPS /\ q \in 0 .. BPS
    BY <1>2, <1>3 DEF Ratios
  <1>5. Worth' = held.yes * p + held.no * q
    <2>1. held' = held
      BY DEF Resolution, TakeDown
    <2>2. ata'.yes = 0 /\ ata'.no = 0
      BY <1>3 DEF Same
    <2> QED
      BY <1>1, <2>1, <2>2 DEF Worth
  <1>6. BPS * release <= ata.yes * p + ata.no * q
    <2> DEFINE fewer == Lesser(ata.no, minted.no)
    <2>1. fewer \in Nat /\ fewer <= ata.no
      BY <1>1 DEF Lesser
    <2> HIDE DEF fewer
    <2>2. BPS * Bps(ata.yes, p) <= ata.yes * p
            /\ BPS * Bps(fewer, q) <= fewer * q
      BY <1>1, <1>4, <2>1, BpsWorth
    <2>3. fewer * q <= ata.no * q
      BY <1>4, <2>1, <1>1
    <2>4. Bps(ata.yes, p) \in Nat /\ Bps(fewer, q) \in Nat
      BY <1>1, <1>4, <2>1, BpsBound
    <2>5. release = Bps(ata.yes, p) + Bps(fewer, q)
      BY DEF Release, fewer
    <2>6. BPS * release = BPS * Bps(ata.yes, p) + BPS * Bps(fewer, q)
      BY <1>2, <2>4, <2>5
    <2> HIDE DEF release, p, q
    <2>7. ata.yes * p \in Int /\ ata.no * q \in Int /\ fewer * q \in Int
      BY <1>1, <1>4, <2>1
    <2>8. BPS * Bps(ata.yes, p) \in Int /\ BPS * Bps(fewer, q) \in Int
      BY <1>2, <2>4
    <2> QED
      BY <2>2, <2>3, <2>6, <2>7, <2>8
  <1> HIDE DEF p, q, release
  <1>7. (ata.yes + held.yes) * p + (ata.no + held.no) * q <= (locked + 1) * BPS
    <2>1. (ata.yes + held.yes) * p <= locked * p
      BY <1>1, <1>4
    <2>2. (ata.no + held.no) * q <= (locked + 1) * q
      BY <1>1, <1>4
    <2>3. locked * p <= (locked + 1) * p
      BY <1>1, <1>4
    <2>4. (locked + 1) * p + (locked + 1) * q = (locked + 1) * BPS
      BY <1>1, <1>4
    <2>5. {(ata.yes + held.yes) * p, (ata.no + held.no) * q, locked * p,
           (locked + 1) * p, (locked + 1) * q} \subseteq Int
      BY <1>1, <1>4
    <2> QED
      BY <2>1, <2>2, <2>3, <2>4, <2>5
  <1>8. /\ (ata.yes + held.yes) * p = ata.yes * p + held.yes * p
        /\ (ata.no + held.no) * q = ata.no * q + held.no * q
        /\ (locked + 1) * BPS = (locked' + 1) * BPS + BPS * release
    <2>1. /\ (ata.yes + held.yes) * p = ata.yes * p + held.yes * p
          /\ (ata.no + held.no) * q = ata.no * q + held.no * q
      <3>1. \A a, b, c \in Nat : (a + b) * c = a * c + b * c
        OBVIOUS
      <3>2. p \in Nat /\ q \in Nat
        BY <1>4
      <3> QED
        BY <1>1, <3>1, <3>2
    <2>2. locked = locked' + release /\ locked' \in Int /\ release \in Int
      BY <1>1, <1>3
    <2>3. (locked + 1) * BPS = (locked' + 1) * BPS + BPS * release
      BY <1>2, <2>2
    <2> QED
      BY <2>1, <2>3
  <1>9. {ata.yes * p, ata.no * q, held.yes * p, held.no * q, BPS * release,
         (locked' + 1) * BPS} \subseteq Int
    BY <1>1, <1>2, <1>3, <1>4
  <1>10. Worth' <= (locked' + 1) * BPS
    BY <1>5, <1>6, <1>7, <1>8, <1>9
  <1> QED
    BY <1>4, <1>10 DEF p, q

\* A claim takes no more collateral than the worth it turns in.
LEMMA ClaimWorth ==
  ASSUME WinnersInv, WorthCovered, rulings = 1,
         NEW y \in 0 .. held.yes, NEW n \in 0 .. held.no, ClaimRewards(y, n)
  PROVE  Worth' <= (locked' + 1) * BPS
  <1> DEFINE p == payout.yes
             q == payout.no
  <1>1. TypeOK /\ ata.yes = 0 /\ ata.no = 0 /\ ata' = ata /\ payout' = payout
    BY DEF WinnersInv, SupplyInv, ClosingInv, Closing, ClaimRewards, Same,
           status, CanClaim, CanPay, TotalPayout, BurnHeld
  <1>2. /\ y \in Nat /\ n \in Nat /\ locked \in Nat /\ BPS \in Nat \ {0}
        /\ held.yes \in Nat /\ held.no \in Nat
        /\ p \in 0 .. BPS /\ q \in 0 .. BPS
    BY <1>1, RatesAssumption DEF TypeOK
  <1>3. PICK pay, released \in Nat :
          /\ pay = Bps(y, p) + Bps(n, q)
          /\ released = Lesser(pay, locked)
          /\ locked' = locked - released
    BY <1>1, ClaimStep
  <1>4. held' = [yes |-> held.yes - y, no |-> held.no - n]
    BY DEF ClaimRewards, CanClaim, CanPay, TotalPayout, BurnHeld
  <1>5. /\ Worth = held.yes * p + held.no * q
        /\ Worth' = (held.yes - y) * p + (held.no - n) * q
    BY <1>1, <1>2, <1>4 DEF Worth
  <1>6. BPS * pay <= y * p + n * q
    <2>1. BPS * Bps(y, p) <= y * p /\ BPS * Bps(n, q) <= n * q
      BY <1>2, BpsWorth
    <2> HIDE DEF p, q
    <2>2. Bps(y, p) \in 0 .. y /\ Bps(n, q) \in 0 .. n
      BY <1>2, BpsBound
    <2>3. BPS * pay = BPS * Bps(y, p) + BPS * Bps(n, q)
      BY <1>2, <1>3, <2>2
    <2>4. {BPS * Bps(y, p), BPS * Bps(n, q), y * p, n * q} \subseteq Int
      BY <1>2, <2>2
    <2> QED
      BY <2>1, <2>3, <2>4
  <1> HIDE DEF p, q
  <1>7. Worth <= (locked + 1) * BPS
    BY DEF WorthCovered
  <1>8. /\ (held.yes - y) * p = held.yes * p - y * p
        /\ (held.no - n) * q = held.no * q - n * q
    BY <1>2
  <1>9. {held.yes * p, held.no * q, y * p, n * q, BPS * pay,
         (locked + 1) * BPS} \subseteq Int
    BY <1>2, <1>3
  <1>10. Worth' <= (locked + 1) * BPS - BPS * pay
    BY <1>5, <1>6, <1>7, <1>8, <1>9
  <1>11. (locked + 1) * BPS - BPS * pay = (locked + 1 - pay) * BPS
    BY <1>2, <1>3
  <1>12. locked + 1 - pay <= locked' + 1 /\ locked' \in Int
    BY <1>2, <1>3 DEF Lesser
  <1>13. (locked + 1 - pay) * BPS <= (locked' + 1) * BPS
    BY <1>2, <1>3, <1>12
  <1>14. Worth' \in Int /\ (locked' + 1) * BPS \in Int
    BY <1>2, <1>5, <1>8, <1>9, <1>12
  <1> QED
    BY <1>9, <1>10, <1>11, <1>13, <1>14

LEMMA WorthStep ==
  WinnersInv /\ EvenOpening /\ [Next]_vars => WorthCovered'
  <1> SUFFICES ASSUME WinnersInv, EvenOpening, [Next]_vars, rulings' = 1
               PROVE  /\ payout'.yes + payout'.no = BPS
                      /\ Worth' <= (locked' + 1) * BPS
    BY DEF WorthCovered
  <1> DEFINE x == held.yes + ata.yes
             y == held.no + ata.no
             p == payout.yes
             q == payout.no
             Goal == /\ payout'.yes + payout'.no = BPS
                     /\ Worth' <= (locked' + 1) * BPS
  <1>t. /\ {held, ata} \subseteq [Sides -> Nat] /\ locked \in Nat
        /\ rulings \in 0 .. 2 /\ BPS \in Nat /\ TypeOK
        /\ x \in Nat /\ y \in Nat /\ p \in Nat /\ q \in Nat
    BY RatesAssumption DEF WinnersInv, SupplyInv, ClosingInv, TypeOK
  <1>w. rulings = 1 => p + q = BPS /\ x * p + y * q <= (locked + 1) * BPS
    BY DEF WinnersInv, WorthCovered, Worth
  <1>1. ASSUME rulings = 1, UNCHANGED payout, NEW a \in Nat,
               \/ /\ held'.yes + ata'.yes = x + a /\ held'.no + ata'.no = y + a
                  /\ locked' = locked + a
               \/ /\ held'.yes + ata'.yes = x - a /\ held'.no + ata'.no = y - a
                  /\ locked' = locked - a
        PROVE  Goal
    <2>1. /\ (x + a) * p + (y + a) * q <= (locked + a + 1) * BPS
          /\ (x - a) * p + (y - a) * q <= (locked - a + 1) * BPS
      BY <1>1, <1>t, <1>w, SetsWorth
    <2>2. Worth' = (held'.yes + ata'.yes) * p + (held'.no + ata'.no) * q
      BY <1>1 DEF Worth
    <2>3. p + q = BPS /\ payout'.yes = p /\ payout'.no = q
      BY <1>1, <1>w
    <2> HIDE DEF x, y, p, q
    <2>4. Worth' <= (locked' + 1) * BPS
      <3>1. CASE locked' = locked + a /\ held'.yes + ata'.yes = x + a /\ held'.no + ata'.no = y + a
        BY <2>1, <2>2, <3>1
      <3>2. CASE locked' = locked - a /\ held'.yes + ata'.yes = x - a /\ held'.no + ata'.no = y - a
        BY <2>1, <2>2, <3>2
      <3> QED BY <1>1, <3>1, <3>2
    <2> QED BY <2>3, <2>4
  <1>s. ASSUME UNCHANGED <<payout, locked, rulings>>,
               held'.yes + ata'.yes = x, held'.no + ata'.no = y
        PROVE  Goal
    BY <1>s, <1>t, <1>w DEF Worth
  <1>2. ASSUME NEW a \in Amounts,
               MintCompleteSet(a) \/ RedeemCompleteSet(a)
        PROVE  Goal
    <2>1. a \in Nat /\ rulings = 1 /\ UNCHANGED <<payout, ata>>
      BY <1>2, AmountsAssumption
         DEF MintCompleteSet, RedeemCompleteSet, status
    <2>2. \/ held' = Plus(held, Same(a)) /\ locked' = locked + a
          \/ held' = Minus(held, Same(a)) /\ locked' = locked - a
      BY <1>2 DEF MintCompleteSet, RedeemCompleteSet
    <2>3. \/ /\ held'.yes = held.yes + a /\ held'.no = held.no + a
             /\ locked' = locked + a
          \/ /\ held'.yes = held.yes - a /\ held'.no = held.no - a
             /\ locked' = locked - a
      BY <2>2 DEF Plus, Minus, Same
    <2>4. /\ held.yes \in Int /\ held.no \in Int
          /\ ata.yes \in Int /\ ata.no \in Int
          /\ ata'.yes = ata.yes /\ ata'.no = ata.no
      BY <1>t, <2>1
    <2>5. \/ /\ held'.yes + ata'.yes = x + a /\ held'.no + ata'.no = y + a
             /\ locked' = locked + a
          \/ /\ held'.yes + ata'.yes = x - a /\ held'.no + ata'.no = y - a
             /\ locked' = locked - a
      <3>1. \A h, t, b \in Int : /\ h + b + t = h + t + b
                                 /\ h - b + t = h + t - b
        OBVIOUS
      <3> QED
        BY <2>1, <2>3, <2>4, <3>1
    <2> HIDE DEF x, y
    <2> QED
      BY <1>1, <2>1, <2>5
  <1>3. ASSUME NEW a \in Amounts, NEW s \in Sides, Buy(s, a) \/ Sell(s, a)
        PROVE  Goal
    <2>1. UNCHANGED <<payout, locked, rulings>>
      BY <1>3 DEF Buy, Sell, status, Collect
    <2>2. PICK t \in Int : Deliver(s, t)
      BY <1>3, AmountsAssumption DEF Buy, Sell, LmsrTokens, Collect
    <2>3. held'.yes + ata'.yes = x /\ held'.no + ata'.no = y
      BY <1>t, <2>2 DEF Deliver
    <2> QED
      BY <1>s, <2>1, <2>3
  <1>4. ASSUME NEW a \in Stakes, SeedPool(a)
        PROVE  Goal
    <2>1. /\ a \in Nat /\ UNCHANGED <<payout, rulings, held>>
          /\ ata' = Plus(ata, Same(a)) /\ locked' = locked + a
      BY <1>4, AmountsAssumption DEF SeedPool, status
    <2>2. ata'.yes = ata.yes + a /\ ata'.no = ata.no + a
      BY <2>1 DEF Plus, Same
    <2> QED
      BY <1>1, <1>t, <2>1, <2>2
  <1>5. ASSUME NEW a \in Stakes,
               \/ AddFirstLiquidity(a)
               \/ \E pr \in Prices : AddLiquidity(a, pr)
        PROVE  Goal
    <2>1. PICK shares, toPool, sets \in Nat, mint \in [Sides -> Nat] :
            /\ Deposit(a, shares, mint, toPool)
            /\ mint \in {FirstMint(a), Same(sets)}
      BY <1>5, <1>t, DepositTerms
    <2>2. Minor("yes") /\ Minor("no")
      BY RatesAssumption DEF Minor, EvenOpening
    <2>3. mint.yes = SetsIn(mint) /\ mint.no = SetsIn(mint)
      BY <2>1, <2>2, MinorSets, AmountsAssumption DEF SetsIn, Same, Lesser
    <2>4. /\ ata' = Plus(ata, mint) /\ locked' = locked + SetsIn(mint)
          /\ UNCHANGED <<payout, rulings, held>>
      BY <2>1 DEF Deposit, status
    <2>5. /\ SetsIn(mint) \in Nat
          /\ ata'.yes = ata.yes + SetsIn(mint)
          /\ ata'.no = ata.no + SetsIn(mint)
      BY <2>3, <2>4 DEF Plus, SetsIn, Lesser
    <2> QED
      BY <1>1, <1>t, <2>4, <2>5
  <1>6. ASSUME NEW lp \in 1 .. lpShares, WithdrawLiquidity(lp)
        PROVE  Goal
    <2>1. PICK paired \in Nat, share \in [Sides -> Nat] :
            /\ paired = Lesser(share.yes, share.no)
            /\ locked' = locked - paired
            /\ ata' = Minus(ata, share)
      BY <1>6, <1>t, ExitStep DEF TypeOK
    <2>2. UNCHANGED <<payout, rulings, held>>
      BY <1>6 DEF WithdrawLiquidity, status, MayWithdraw
    <2> DEFINE f == share.yes
               g == share.no
    <2>3. f \in Nat /\ g \in Nat /\ paired <= f /\ paired <= g
      BY <2>1 DEF Lesser
    <2>4. held'.yes + ata'.yes = x - f /\ held'.no + ata'.no = y - g
      BY <1>t, <2>1, <2>2 DEF Minus
    <2> HIDE DEF f, g
    <2>5. Worth' = (x - f) * p + (y - g) * q
      BY <2>2, <2>4 DEF Worth
    <2> HIDE DEF x, y, p, q
    <2>6. (x - f) * p + (y - g) * q <= (x - paired) * p + (y - paired) * q
      BY <1>t, <2>3, ShareWorth
    <2>7. (x - paired) * p + (y - paired) * q <= (locked - paired + 1) * BPS
      BY <1>t, <1>w, <2>2, SetsWorth
    <2>8. {(x - f) * p + (y - g) * q, (x - paired) * p + (y - paired) * q,
           (locked - paired + 1) * BPS} \subseteq Int
      BY <1>t, <2>3
    <2>9. Worth' <= (locked' + 1) * BPS
      BY <2>1, <2>5, <2>6, <2>7, <2>8
    <2> QED
      BY <1>w, <2>2, <2>9 DEF p, q
  <1>7. ASSUME NEW w \in Sides \cup {"draw"}, NEW r \in Draws \cup {0},
               NEW final \in BOOLEAN, Resolution(w, r, final)
        PROVE  Goal
    <2>1. rulings = 0
      BY <1>7, <1>t DEF Resolution, Lesser, TakeDown
    <2> QED
      BY <1>7, <2>1, RulingWorth
  <1>8. CASE SettlePool
    <2>1. ata' = Same(0) /\ ata = Same(0)
      BY <1>8, <1>t DEF SettlePool, WinnersInv, SupplyInv, ClosingInv, Closing,
                        Opposite, Same, TypeOK
    <2>2. UNCHANGED <<payout, rulings, held, locked>>
      BY <1>8 DEF SettlePool, money
    <2> QED
      BY <1>s, <2>1, <2>2
  <1>9. ASSUME NEW yes \in 0 .. held.yes, NEW no \in 0 .. held.no,
               ClaimRewards(yes, no)
        PROVE  Goal
    <2>1. UNCHANGED <<payout, rulings>>
      BY <1>9 DEF ClaimRewards, status, CanClaim, CanPay, TotalPayout, BurnHeld
    <2>2. WorthCovered
      BY DEF WinnersInv
    <2>3. Worth' <= (locked' + 1) * BPS
      BY <1>9, <2>1, <2>2, ClaimWorth
    <2> QED
      BY <1>w, <2>1, <2>3
  <1>10. CASE UNCHANGED <<held, ata, locked, payout, rulings>>
    BY <1>10, <1>s
  <1>11. \/ UNCHANGED <<held, ata, locked, payout, rulings>>
         \/ \E a \in Amounts :
              \/ MintCompleteSet(a) \/ RedeemCompleteSet(a)
              \/ \E s \in Sides : Buy(s, a) \/ Sell(s, a)
         \/ \E a \in Stakes :
              \/ SeedPool(a) \/ AddFirstLiquidity(a)
              \/ \E pr \in Prices : AddLiquidity(a, pr)
         \/ \E lp \in 1 .. lpShares : WithdrawLiquidity(lp)
         \/ \E w \in Sides \cup {"draw"}, r \in Draws \cup {0},
               final \in BOOLEAN : Resolution(w, r, final)
         \/ SettlePool
         \/ \E yes \in 0 .. held.yes, no \in 0 .. held.no :
              ClaimRewards(yes, no)
    BY DEF Next, vars, money, tokens, status, ClaimLpFees,
           ResetCircuitBreaker, ReclaimDust, SetMintAuthority, Tick, Pause,
           Unpause
  <1> HIDE DEF Goal
  <1> QED
    BY <1>2, <1>3, <1>4, <1>5, <1>6, <1>7, <1>8, <1>9, <1>10, <1>11 DEF Goal

\* What users are owed rounds down the worth of their tokens.
LEMMA OwedBacked == WinnersInv => WinnersBacked
  <1> SUFFICES ASSUME WinnersInv, EvenOpening
               PROVE  /\ rulings = 0 => held.yes <= locked
                                          /\ held.no <= locked + 1
                      /\ rulings = 1 => Owed <= locked + 1
    BY DEF WinnersBacked, EvenOpening
  <1>1. /\ locked \in Nat /\ BPS \in Nat \ {0}
        /\ ata.yes \in Nat /\ ata.no \in Nat
        /\ held.yes \in Nat /\ held.no \in Nat
        /\ minted.yes \in Nat /\ minted.no \in Nat
        /\ payout.yes \in 0 .. BPS /\ payout.no \in 0 .. BPS
    BY RatesAssumption DEF WinnersInv, SupplyInv, ClosingInv, TypeOK
  <1>2. ASSUME rulings = 0
        PROVE  held.yes <= locked /\ held.no <= locked + 1
    <2>1. held.yes <= minted.yes /\ held.no <= minted.no + 1
      BY <1>1 DEF WinnersInv, SupplyInv, SupplyAgrees
    <2>2. Minor("yes") /\ Minor("no")
      BY RatesAssumption DEF Minor, EvenOpening
    <2>3. minted.yes <= locked /\ minted.no <= locked
      BY <1>2, <2>2 DEF WinnersInv, MinorBacked
    <2> QED
      BY <1>1, <2>1, <2>3
  <1>3. ASSUME rulings = 1
        PROVE  Owed <= locked + 1
    <2> DEFINE p == payout.yes
               q == payout.no
    <2>1. BPS * Bps(held.yes, p) <= held.yes * p
            /\ BPS * Bps(held.no, q) <= held.no * q
      BY <1>1, BpsWorth
    <2>2. Bps(held.yes, p) \in 0 .. held.yes /\ Bps(held.no, q) \in 0 .. held.no
      BY <1>1, BpsBound
    <2>3. Owed \in Nat /\ BPS * Owed = BPS * Bps(held.yes, p)
                                         + BPS * Bps(held.no, q)
      BY <1>1, <2>2 DEF Owed, TotalPayout
    <2>4. (held.yes + ata.yes) * p + (held.no + ata.no) * q
            <= (locked + 1) * BPS
      BY <1>3 DEF WinnersInv, WorthCovered, Worth
    <2>5. p \in Nat /\ q \in Nat
      BY <1>1
    <2> HIDE DEF p, q
    <2>6. held.yes * p <= (held.yes + ata.yes) * p
            /\ held.no * q <= (held.no + ata.no) * q
      BY <1>1, <2>5
    <2>7. {BPS * Bps(held.yes, p), BPS * Bps(held.no, q), held.yes * p,
           held.no * q, (held.yes + ata.yes) * p, (held.no + ata.no) * q,
           BPS * Owed, (locked + 1) * BPS} \subseteq Int
      BY <1>1, <2>2, <2>3, <2>5
    <2>8. BPS * Owed <= (locked + 1) * BPS
      BY <2>1, <2>3, <2>4, <2>6, <2>7
    <2>9. BPS * Owed <= BPS * (locked + 1)
      BY <1>1, <2>3, <2>8
    <2> QED
      BY <1>1, <2>3, <2>9, DivisionBelow
  <1> QED
    BY <1>2, <1>3

\* In a market opened at even odds the holders are backed until the outcome,
\* and after one ruling what they may claim, for all rates, fees and curves.
THEOREM WinnersAlwaysBacked == Spec => []WinnersBacked
  <1>1. Init => WinnersInv
    BY SupplyInit, MinorInit DEF WinnersInv, WorthCovered, Init
  <1>2. WinnersInv /\ [Next]_vars => WinnersInv'
    <2> SUFFICES ASSUME WinnersInv, [Next]_vars PROVE WinnersInv'
      OBVIOUS
    <2>1. SupplyInv' /\ MinorBacked'
      BY SupplyStep, MinorStep DEF WinnersInv
    <2>2. EvenOpening => WorthCovered'
      BY WorthStep
    <2> QED
      BY <2>1, <2>2 DEF WinnersInv, EvenOpening
  <1> QED
    BY <1>1, <1>2, OwedBacked, PTL DEF Spec

(***************************************************************************)
(* MarketLedger implements BinaryMarket: under the mapping of Stage, the   *)
(* vault, the payout and the users' tokens, the first state of the ledger  *)
(* is a first state of the promised market, and every instruction is a     *)
(* step of it or changes nothing its users see.                            *)
(***************************************************************************)

USE DEF Sides

\* A swept vault stays empty, so that the market is swept only once.
Drained == swept => vault = 0

PromiseInv == ClosingInv /\ Drained

\* Which instructions deal, leave, rule, settle, collect and sweep.
Dealing ==
  \/ \E a \in Amounts :
       \/ MintCompleteSet(a) \/ RedeemCompleteSet(a)
       \/ \E s \in Sides : Buy(s, a) \/ Sell(s, a)
  \/ \E a \in Stakes :
       \/ SeedPool(a) \/ AddFirstLiquidity(a)
       \/ \E p \in Prices : AddLiquidity(a, p)

Leaving == ClaimLpFees \/ \E lp \in 1 .. lpShares : WithdrawLiquidity(lp)

Switching ==
  \/ ResetCircuitBreaker \/ SetMintAuthority \/ Tick
  \/ \E sw \in Pauses : Pause(sw) \/ Unpause(sw)

LEMMA DealingSteps ==
  Dealing => /\ ~completed
             /\ UNCHANGED <<payout, rulings, completed, settled, swept>>
  BY DEF Dealing, MintCompleteSet, RedeemCompleteSet, Buy, Sell, TradingOpen,
         SeedPool, AddFirstLiquidity, AddLiquidity, Deposit, status, Collect

LEMMA LeavingSteps ==
  ASSUME TypeOK, Leaving
  PROVE  /\ lpShares > 0 /\ vault' <= vault
         /\ UNCHANGED <<held, payout, rulings, completed, settled, swept>>
  <1>1. CASE ClaimLpFees
    BY <1>1 DEF ClaimLpFees, tokens, status, TypeOK
  <1>2. ASSUME NEW lp \in 1 .. lpShares, WithdrawLiquidity(lp)
        PROVE  /\ lpShares > 0 /\ vault' <= vault
               /\ UNCHANGED <<held, payout, rulings, completed, settled, swept>>
    <2>1. lpShares > 0
      BY DEF TypeOK
    <2>2. UNCHANGED <<held, payout, rulings, completed, settled, swept>>
      BY <1>2 DEF WithdrawLiquidity, status, MayWithdraw
    <2>3. vault' <= vault
      BY <1>2, ExitStep DEF TypeOK
    <2> QED
      BY <2>1, <2>2, <2>3
  <1> QED
    BY <1>1, <1>2 DEF Leaving

LEMMA SwitchingSteps ==
  Switching => UNCHANGED <<vault, held, payout, rulings, completed, settled,
                           swept>>
  BY DEF Switching, ResetCircuitBreaker, SetMintAuthority, Tick, Pause, Unpause,
         money, tokens, status

LEMMA RulingSteps ==
  ASSUME TypeOK, NEW w \in Sides \cup {"draw"}, NEW r \in Draws \cup {0},
         NEW final \in BOOLEAN, Resolution(w, r, final)
  PROVE  /\ ~completed /\ completed' = final
         /\ rulings' > 0 /\ payout'["yes"] + payout'["no"] = BPS
         /\ UNCHANGED <<vault, held, settled, swept>>
  <1>1. r \in 0 .. BPS /\ BPS \in Nat
    BY RatesAssumption
  <1>2. Ratios(w, r)["yes"] + Ratios(w, r)["no"] = BPS
    BY <1>1 DEF Ratios
  <1> QED
    BY <1>2 DEF Resolution, TypeOK, Lesser, TakeDown

\* What a claim pays is the outcome's price of the tokens, rounded per side.
LEMMA CollectingSteps ==
  ASSUME TypeOK, NEW y \in 0 .. held.yes, NEW n \in 0 .. held.no,
         ClaimRewards(y, n)
  PROVE  /\ completed
         /\ vault' = vault - Bps(y, payout.yes) - Bps(n, payout.no)
         /\ vault' <= vault
         /\ held' = [yes |-> held.yes - y, no |-> held.no - n]
         /\ UNCHANGED <<payout, rulings, completed, settled, swept>>
  <1>1. Bps(y, payout.yes) \in Nat /\ Bps(n, payout.no) \in Nat
    BY BpsBound DEF TypeOK
  <1> QED
    BY <1>1 DEF ClaimRewards, TypeOK, status, CanClaim, CanPay, TotalPayout, BurnHeld

-----------------------------------------------------------------------------

LEMMA NextKinds ==
  Next <=> \/ Dealing \/ Leaving \/ Switching \/ SettlePool \/ ReclaimDust
           \/ \E w \in Sides, final \in BOOLEAN : Resolution(w, 0, final)
           \/ \E r \in Draws, final \in BOOLEAN : Resolution("draw", r, final)
           \/ \E y \in 0 .. held.yes, n \in 0 .. held.no : ClaimRewards(y, n)
  BY DEF Next, Dealing, Leaving, Switching

LEMMA DrainedStep == PromiseInv /\ [Next]_vars => PromiseInv'
  <1> SUFFICES ASSUME PromiseInv, [Next]_vars PROVE Drained'
    BY ClosingStep DEF PromiseInv
  <1> USE DEF PromiseInv, Drained
  <1>t. TypeOK /\ TypeOK' /\ Closing
    BY ClosingStep DEF ClosingInv
  <1>1. CASE Dealing
    <2>1. ~completed /\ swept' = swept
      BY <1>1, DealingSteps
    <2>2. ~swept
      BY <1>t, <2>1 DEF Closing
    <2> QED
      BY <2>1, <2>2
  <1>2. CASE Leaving
    <2>1. lpShares > 0 /\ swept' = swept
      BY <1>2, <1>t, LeavingSteps
    <2>2. ~swept
      BY <1>t, <2>1 DEF Closing
    <2> QED
      BY <2>1, <2>2
  <1>3. CASE Switching
    BY <1>3, SwitchingSteps
  <1>4. CASE SettlePool
    BY <1>4 DEF SettlePool, money
  <1>5. CASE ReclaimDust
    BY <1>5 DEF ReclaimDust
  <1>6. ASSUME NEW w \in Sides \cup {"draw"}, NEW r \in Draws \cup {0},
               NEW final \in BOOLEAN, Resolution(w, r, final)
        PROVE  Drained'
    BY <1>6, <1>t, RulingSteps
  <1>7. ASSUME NEW y \in 0 .. held.yes, NEW n \in 0 .. held.no,
               ClaimRewards(y, n)
        PROVE  Drained'
    <2>1. vault' <= vault /\ swept' = swept
      BY <1>7, <1>t, CollectingSteps
    <2>2. vault' \in Nat
      BY <1>t DEF TypeOK
    <2> QED
      BY <2>1, <2>2
  <1>8. CASE UNCHANGED vars
    BY <1>8 DEF vars, money
  <1> QED
    BY <1>1, <1>2, <1>3, <1>4, <1>5, <1>6, <1>7, <1>8, NextKinds

LEMMA DealIsDeal ==
  ASSUME PromiseInv, TypeOK', Dealing \/ (Leaving /\ ~completed)
  PROVE  Market!Deal
  <1>1. ~completed /\ UNCHANGED <<payout, rulings, completed, settled, swept>>
    BY DealingSteps, LeavingSteps DEF PromiseInv, ClosingInv
  <1>2. ~settled /\ ~swept
    BY <1>1 DEF PromiseInv, ClosingInv, Closing
  <1>3. Stage \in {"open", "ruled"}
    BY <1>1, <1>2 DEF Stage
  <1>4. Stage' = Stage
    BY <1>1 DEF Stage
  <1>5. held' \in [{"yes", "no"} -> Nat] /\ vault' \in Nat
    BY DEF TypeOK
  <1> QED
    BY <1>1, <1>3, <1>4, <1>5 DEF Market!Deal, Market!Trading, Market!Sides

LEMMA LeaveIsLeave ==
  ASSUME PromiseInv, TypeOK', Leaving, completed
  PROVE  Market!Leave
  <1>1. /\ lpShares > 0 /\ vault' <= vault
        /\ UNCHANGED <<held, payout, rulings, completed, settled, swept>>
    BY LeavingSteps DEF PromiseInv, ClosingInv
  <1>2. ~swept
    BY <1>1 DEF PromiseInv, ClosingInv, Closing
  <1>3. Stage \in {"closed", "settled"}
    BY <1>2 DEF Stage
  <1>4. Stage' = Stage
    BY <1>1 DEF Stage
  <1>5. vault' \in 0 .. vault
    BY <1>1 DEF TypeOK, PromiseInv, ClosingInv
  <1> QED
    BY <1>1, <1>3, <1>4, <1>5 DEF Market!Leave

LEMMA RulingIsRule ==
  ASSUME PromiseInv, TypeOK', NEW w \in Sides \cup {"draw"},
         NEW r \in Draws \cup {0}, NEW final \in BOOLEAN,
         Resolution(w, r, final)
  PROVE  Market!Rule("ruled") \/ Market!Rule("closed")
  <1>1. /\ ~completed /\ completed' = final
        /\ rulings' > 0 /\ payout'["yes"] + payout'["no"] = BPS
        /\ UNCHANGED <<vault, held, settled, swept>>
    BY RulingSteps DEF PromiseInv, ClosingInv
  <1>2. ~settled /\ ~swept
    BY <1>1 DEF PromiseInv, ClosingInv, Closing
  <1>3. Stage \in {"open", "ruled"}
    BY <1>1, <1>2 DEF Stage
  <1>4. Stage' = IF final THEN "closed" ELSE "ruled"
    BY <1>1, <1>2 DEF Stage
  <1>5. payout' \in [{"yes", "no"} -> 0 .. BPS]
    BY DEF TypeOK
  <1> QED
    BY <1>1, <1>3, <1>4, <1>5 DEF Market!Rule, Market!Trading, Market!Sides

LEMMA ClaimIsCollect ==
  ASSUME PromiseInv, TypeOK', NEW y \in 0 .. held.yes, NEW n \in 0 .. held.no,
         ClaimRewards(y, n)
  PROVE  Market!Collect
  <1>1. /\ completed
        /\ vault' = vault - Bps(y, payout.yes) - Bps(n, payout.no)
        /\ held' = [yes |-> held.yes - y, no |-> held.no - n]
        /\ UNCHANGED <<payout, rulings, completed, settled, swept>>
    BY CollectingSteps DEF PromiseInv, ClosingInv
  <1>2. Stage \in {"closed", "settled", "swept"} /\ Stage' = Stage
    BY <1>1 DEF Stage
  <1>3. held.yes \in Nat /\ held.no \in Nat
    BY DEF PromiseInv, ClosingInv, TypeOK
  <1>4. held'["yes"] = held.yes - y /\ held'["no"] = held.no - n
    BY <1>1
  <1>5. held["yes"] - held'["yes"] = y /\ held["no"] - held'["no"] = n
    BY <1>3, <1>4
  <1>6. \A s \in {"yes", "no"} : held'[s] <= held[s]
    BY <1>3, <1>4
  <1>7. held' \in [{"yes", "no"} -> Nat] /\ vault' >= 0
    BY DEF TypeOK
  <1> QED
    BY <1>1, <1>2, <1>5, <1>6, <1>7
       DEF Market!Collect, Market!Closed, Market!Sides, Bps, Portion

LEMMA SettleIsSettle ==
  ASSUME PromiseInv, SettlePool
  PROVE  Market!Settle \/ UNCHANGED Market!vars
  <1>1. completed /\ settled'
        /\ UNCHANGED <<vault, held, payout, rulings, completed, swept>>
    BY DEF SettlePool, money
  <1>2. CASE settled
    BY <1>1, <1>2 DEF Stage, Market!vars, PromiseInv, ClosingInv, TypeOK
  <1>3. CASE ~settled
    <2>1. ~swept
      BY <1>3 DEF PromiseInv, ClosingInv, Closing
    <2>2. Stage = "closed" /\ Stage' = "settled"
      BY <1>1, <1>3, <2>1 DEF Stage
    <2> QED
      BY <1>1, <2>2 DEF Market!Settle
  <1> QED
    BY <1>2, <1>3

LEMMA SweepIsSweep ==
  ASSUME PromiseInv, ReclaimDust
  PROVE  Market!Sweep
  <1>1. settled /\ vault > 0 /\ vault' = 0 /\ swept'
        /\ UNCHANGED <<held, payout>>
    BY DEF ReclaimDust, tokens, status
  <1>2. ~swept
    BY <1>1 DEF PromiseInv, Drained
  <1>3. Stage = "settled" /\ Stage' = "swept"
    BY <1>1, <1>2 DEF Stage
  <1> QED
    BY <1>1, <1>3 DEF Market!Sweep

-----------------------------------------------------------------------------

\* The ledger of the program implements the market its users were promised.
THEOREM LedgerKeepsPromise == Spec => KeepsPromise
  <1>1. Init => PromiseInv
    BY ClosingInit DEF PromiseInv, Drained, Init
  <1>2. Init => Market!Init
    BY DEF Init, Market!Init, Market!Sides, Stage, Same
  <1>3. PromiseInv /\ [Next]_vars => PromiseInv'
    BY DrainedStep
  <1>4. PromiseInv /\ PromiseInv' /\ [Next]_vars => [Market!Next]_(Market!vars)
    <2> SUFFICES ASSUME PromiseInv, TypeOK', [Next]_vars
                 PROVE  Market!Next \/ UNCHANGED Market!vars
      BY DEF PromiseInv, ClosingInv
    <2> USE DEF Market!Next
    <2>1. CASE Dealing
      BY <2>1, DealIsDeal
    <2>2. CASE Leaving
      BY <2>2, DealIsDeal, LeaveIsLeave
    <2>3. CASE Switching
      BY <2>3, SwitchingSteps DEF Market!vars, Stage
    <2>4. CASE SettlePool
      BY <2>4, SettleIsSettle
    <2>5. CASE ReclaimDust
      BY <2>5, SweepIsSweep
    <2>6. ASSUME NEW w \in Sides \cup {"draw"}, NEW r \in Draws \cup {0},
                 NEW final \in BOOLEAN, Resolution(w, r, final)
          PROVE  Market!Next
      BY <2>6, RulingIsRule
    <2>7. ASSUME NEW y \in 0 .. held.yes, NEW n \in 0 .. held.no,
                 ClaimRewards(y, n)
          PROVE  Market!Next
      BY <2>7, ClaimIsCollect
    <2>8. CASE UNCHANGED vars
      BY <2>8 DEF vars, money, tokens, status, Market!vars, Stage
    <2> QED
      BY <2>1, <2>2, <2>3, <2>4, <2>5, <2>6, <2>7, <2>8, NextKinds
  <1> QED
    BY <1>1, <1>2, <1>3, <1>4, PTL DEF Spec, KeepsPromise, Market!Spec
=============================================================================
