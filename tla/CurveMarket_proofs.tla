------------------------- MODULE CurveMarket_proofs -------------------------
(***************************************************************************)
(* Theorems about the curve market and the arithmetic it computes with,      *)
(* for all widths of the words, parameters of the pool and amounts.          *)
(***************************************************************************)
EXTENDS CurveMarket, WellFoundedInduction, TLAPS

(***************************************************************************)
(* What the half-word arithmetic of fp_mul and fp_div computes, for every    *)
(* width of the words: the product and the quotient, rounded down, wherever  *)
(* they fit.                                                                 *)
(***************************************************************************)

\* Quotient and remainder of a division, as the provers use them.
LEMMA DivMod ==
    ASSUME NEW x \in Nat, NEW d \in Nat, d > 0
    PROVE  /\ x \div d \in Nat /\ x % d \in 0..(d - 1)
           /\ x = d * (x \div d) + (x % d)
  OBVIOUS

\* A quotient is the only number with its two bounds.
LEMMA DivUnique ==
    ASSUME NEW x \in Nat, NEW d \in Nat, d > 0, NEW k \in Nat,
           d * k <= x, x < d * k + d
    PROVE  x \div d = k
  <1>1. x \div d \in Nat /\ d * (x \div d) <= x /\ x < d * (x \div d) + d
    BY DivMod
  <1>2. CASE x \div d > k
    <2>1. x \div d >= k + 1  BY <1>1, <1>2
    <2>2. d * (x \div d) >= d * (k + 1)  BY <1>1, <2>1, Z3
    <2> QED  BY <1>1, <2>2
  <1>3. CASE x \div d < k
    <2>1. x \div d + 1 <= k  BY <1>1, <1>3
    <2>2. d * (x \div d + 1) <= d * k  BY <1>1, <2>1, Z3
    <2> QED  BY <1>1, <2>2
  <1> QED  BY <1>1, <1>2, <1>3

LEMMA Parts ==
    ASSUME NEW x \in Nat
    PROVE  Hi(x) \in Nat /\ Lo(x) \in 0..(Word - 1) /\ x = Word * Hi(x) + Lo(x)
  BY DivMod, WordAssumption DEF Hi, Lo

LEMMA Halves ==
    ASSUME NEW x \in U128
    PROVE  Lo(x) \in 0..(Word - 1) /\ Hi(x) \in 0..(Word - 1) /\ x = Word * Hi(x) + Lo(x)
  <1>1. Word \in Nat /\ Word > 1 /\ x \in Nat /\ x < Word * Word
    BY WordAssumption DEF U128
  <1>2. Hi(x) \in Nat /\ Lo(x) \in 0..(Word - 1) /\ x = Word * Hi(x) + Lo(x)
    BY <1>1, DivMod DEF Hi, Lo
  <1>3. Hi(x) < Word
    <2> DEFINE h == Hi(x)  l == Lo(x)
    <2>1. h \in Nat /\ l \in Nat /\ x = Word * h + l  BY <1>1, <1>2
    <2> HIDE DEF h, l
    <2>2. CASE h >= Word
      <3>1. Word * h >= Word * Word  BY <1>1, <2>1, <2>2, Z3
      <3> QED  BY <1>1, <2>1, <3>1, Z3
    <2>3. h < Word  BY <1>1, <2>1, <2>2
    <2> QED  BY <2>3 DEF h
  <1> QED  BY <1>1, <1>2, <1>3

\* The product of two numbers is their exact product rounded down, wherever that fits in
\* u128: the four half products of fp_mul carry everything they must.
THEOREM MulIsFloor ==
    ASSUME NEW a \in U128, NEW b \in U128,
           ~ (2 * a >= Word * Word /\ 2 * b >= Word * Word),
           (a * b) \div Word < Word * Word
    PROVE  fp_mul(a, b) = (a * b) \div Word
  <1> DEFINE al == Lo(a)  ah == Hi(a)  bl == Lo(b)  bh == Hi(b)
             mid == al * bh + ah * bl
             high == ah * bh + Hi(mid)
             res == high * Word + Lo(mid) + Hi(al * bl)
  <1>1. Word \in Nat /\ Word > 1  BY WordAssumption
  <1>2. /\ al \in Nat /\ ah \in Nat /\ bl \in Nat /\ bh \in Nat
        /\ a = Word * ah + al /\ b = Word * bh + bl
    BY <1>1, Halves
  <1> HIDE DEF al, ah, bl, bh
  <1>3. mid \in Nat /\ al * bl \in Nat /\ ah * bh \in Nat  BY <1>2, Z3
  <1>4. Hi(mid) \in Nat /\ Lo(mid) \in 0..(Word - 1) /\ mid = Word * Hi(mid) + Lo(mid)
    <2> HIDE DEF mid
    <2> QED  BY <1>3, Parts
  <1>5. /\ Hi(al * bl) \in Nat /\ Lo(al * bl) \in 0..(Word - 1)
        /\ al * bl = Word * Hi(al * bl) + Lo(al * bl)
    <2> DEFINE low == al * bl
    <2>1. low \in Nat  BY <1>3
    <2> HIDE DEF low
    <2>2. Hi(low) \in Nat /\ Lo(low) \in 0..(Word - 1) /\ low = Word * Hi(low) + Lo(low)
      BY <2>1, Parts
    <2> QED  BY <2>2 DEF low
  <1>6. a * b = Word * (Word * (ah * bh)) + Word * mid + al * bl
    BY <1>1, <1>2, Z3
  <1>7. high \in Nat /\ res \in Nat
    <2> HIDE DEF mid
    <2>1. high \in Nat  BY <1>3, <1>4
    <2> HIDE DEF high
    <2>2. high * Word \in Nat  BY <1>1, <2>1, Z3
    <2> QED  BY <1>4, <1>5, <2>1, <2>2
  <1>8. a * b = Word * res + Lo(al * bl)
    <2>1. Word * res = Word * (high * Word) + Word * Lo(mid) + Word * Hi(al * bl)
      <3> HIDE DEF mid, high
      <3> QED  BY <1>1, <1>3, <1>4, <1>5, <1>7, Z3
    <2>2. Word * (high * Word) = Word * (Word * (ah * bh)) + Word * (Word * Hi(mid))
      <3> HIDE DEF mid
      <3> QED  BY <1>1, <1>3, <1>4, Z3
    <2>3. Word * mid = Word * (Word * Hi(mid)) + Word * Lo(mid)
      <3> HIDE DEF mid
      <3> QED  BY <1>1, <1>3, <1>4, Z3
    <2> DEFINE A == Word * (Word * (ah * bh))
               B == Word * (Word * Hi(mid))
               C == Word * Lo(mid)
               D == Word * Hi(al * bl)
               L == Lo(al * bl)
    <2>4. /\ A \in Nat /\ B \in Nat /\ C \in Nat /\ D \in Nat /\ L \in Nat
      <3> HIDE DEF mid
      <3> QED  BY <1>1, <1>3, <1>4, <1>5, Z3
    <2>5. Word * res = A + B + C + D  BY <2>1, <2>2
    <2>6. a * b = A + (B + C) + (D + L)  BY <1>5, <1>6, <2>3
    <2> HIDE DEF A, B, C, D, L, res
    <2>7. a * b = Word * res + L  BY <2>4, <2>5, <2>6
    <2> QED  BY <2>7 DEF L
  <1>9. a * b \in Nat /\ (a * b) \div Word = res
    <2>1. a * b \in Nat  BY <1>2, Z3 DEF U128
    <2> HIDE DEF res
    <2>2. Word * res <= a * b /\ a * b < Word * res + Word
      BY <1>1, <1>5, <1>7, <1>8, <2>1, Z3
    <2> QED  BY <1>1, <1>7, <2>1, <2>2, DivUnique
  <1>10. res \in U128 /\ high < Word /\ mid \in U128
    <2>1. res < Word * Word  BY <1>9
    <2>2. high * Word <= res
      <3> HIDE DEF mid, high
      <3> QED  BY <1>1, <1>4, <1>5, <1>7, Z3
    <2>3. high < Word
      <3> HIDE DEF high
      <3>1. CASE high >= Word
        <4>1. high * Word >= Word * Word  BY <1>1, <1>7, <3>1, Z3
        <4> QED  BY <1>1, <1>7, <2>1, <2>2, <4>1, Z3
      <3> QED  BY <1>1, <1>7, <3>1
    <2>4. Word * Hi(mid) <= high * Word
      <3> HIDE DEF mid
      <3> QED  BY <1>1, <1>3, <1>4, Z3
    <2>5. mid <= res
      <3> HIDE DEF mid, high
      <3> QED  BY <1>1, <1>4, <1>5, <1>7, <2>4, Z3
    <2> HIDE DEF mid, high, res
    <2> QED  BY <1>1, <1>3, <1>7, <2>1, <2>3, <2>5, Z3 DEF U128
  <1>11. Lo(high) = high
    <2> HIDE DEF high
    <2> QED  BY <1>1, <1>7, <1>10 DEF Lo
  <1>12. fp_mul(a, b) = Fits(res)
    BY <1>10, <1>11 DEF fp_mul, al, ah, bl, bh
  <1> QED
    <2> HIDE DEF res
    <2> QED  BY <1>9, <1>10, <1>12 DEF Fits

\* Long division whose first digit is nothing: the other two are the exact quotient. The
\* only error is the doubling of a remainder that overflows, by a divisor of more than half
\* the word.
LEMMA LongDivision ==
    ASSUME NEW a \in U128, NEW b \in U128, b > 0, Hi(a) < b
    PROVE  \/ fp_div(a, b) = (a * Word) \div b
           \/ fp_div(a, b) = Err /\ 2 * b > Word * Word
  <1>1. Word \in Nat /\ Word > 1 /\ b \in Nat  BY WordAssumption DEF U128
  <1>2. Hi(a) \in Nat /\ Lo(a) \in 0..(Word - 1) /\ a = Word * Hi(a) + Lo(a) /\ a \in Nat
    BY Halves DEF U128
  <1> DEFINE q2 == Digit(0, Hi(a), b)
             q1 == Digit(q2[2], Lo(a), b)
             q0 == Digit(q1[2], 0, b)
  <1>3. q2 = <<Hi(a) \div b, Hi(a) % b>>
    BY <1>1, <1>2 DEF Digit
  <1>4. Hi(a) \div b = 0 /\ Hi(a) % b = Hi(a)
    <2> DEFINE h == Hi(a)
    <2>1. h \in Nat /\ h < b  BY <1>2
    <2> HIDE DEF h
    <2>2. h \div b = 0 /\ h % b = h  BY <1>1, <2>1
    <2> QED  BY <2>2 DEF h
  <1>5. q1 = <<a \div b, a % b>>
    <2>1. Hi(a) * Word + Lo(a) = a  BY <1>1, <1>2, Z3
    <2> QED  BY <1>3, <1>4, <2>1 DEF Digit
  <1> DEFINE quo == a \div b  rem == a % b
  <1>6. quo \in Nat /\ rem \in 0..(b - 1) /\ a = b * quo + rem  BY <1>1, <1>2, DivMod
  <1>7. q0[1] = (rem * Word) \div b  BY <1>1, <1>5, <1>6, rem * Word + 0 = rem * Word DEF Digit
  <1>8. \/ fp_div(a, b) = quo * Word + ((rem * Word) \div b)
        \/ fp_div(a, b) = Err /\ 2 * b > Word * Word
    <2>1. q2[1] = 0 /\ q1[1] = quo  BY <1>3, <1>4, <1>5
    <2>2. b # 0  BY <1>1
    <2> DEFINE over == \/ DoublingOverflows(q2[2], Lo(a), b)
                       \/ DoublingOverflows(q1[2], 0, b)
    <2>3. fp_div(a, b) = IF q2[1] > 0 \/ over THEN Err ELSE q1[1] * Word + q0[1]
      BY <2>2 DEF fp_div
    <2>4. over => 2 * b > Word * Word  BY DEF DoublingOverflows
    <2> HIDE DEF q2, q1, q0, quo, rem, over
    <2> QED  BY <1>7, <2>1, <2>3, <2>4
  <1> HIDE DEF quo, rem
  <1>9. rem * Word \in Nat  BY <1>1, <1>6, Z3
  <1> DEFINE d == (rem * Word) \div b
  <1>10. d \in Nat /\ b * d <= rem * Word /\ rem * Word < b * d + b
    BY <1>1, <1>9, DivMod
  <1> HIDE DEF d
  <1>11. a * Word = b * (quo * Word) + rem * Word  BY <1>1, <1>6, Z3
  <1>12. b * (quo * Word + d) = b * (quo * Word) + b * d /\ quo * Word + d \in Nat
    BY <1>1, <1>6, <1>10, Z3
  <1>13. a * Word \in Nat  BY <1>1, <1>2, Z3
  <1>14. (a * Word) \div b = quo * Word + d
    <2>1. b * (quo * Word + d) <= a * Word /\ a * Word < b * (quo * Word + d) + b
      BY <1>1, <1>6, <1>9, <1>10, <1>11, <1>12, <1>13, Z3
    <2> QED  BY <1>1, <1>12, <1>13, <2>1, DivUnique
  <1> QED  BY <1>8, <1>14 DEF d

\* The long division of fp_div by a number of at most half the word yields the exact
\* quotient, rounded down; it fails exactly when that quotient does not fit in u128.
THEOREM DivIsFloor ==
    ASSUME NEW a \in U128, NEW b \in U128, b > 0, 2 * b <= Word * Word
    PROVE  fp_div(a, b) = IF Hi(a) >= b THEN Err ELSE (a * Word) \div b
  <1>1. Word \in Nat /\ Word > 1 /\ b \in Nat  BY WordAssumption DEF U128
  <1>2. Hi(a) \in Nat  BY Halves
  <1>3. Word * Word \in Nat  BY <1>1, Z3
  <1>4. CASE Hi(a) >= b
    <2>1. /\ Hi(a) \div b \in Nat /\ Hi(a) % b \in 0..(b - 1)
          /\ Hi(a) = b * (Hi(a) \div b) + (Hi(a) % b)
      BY <1>1, <1>2, DivMod
    <2>2. Hi(a) \div b # 0  BY <1>1, <1>2, <1>4, <2>1
    <2>3. Digit(0, Hi(a), b)[1] = Hi(a) \div b  BY <1>1, <1>2 DEF Digit
    <2> QED  BY <1>1, <1>4, <2>1, <2>2, <2>3 DEF fp_div
  <1>5. CASE Hi(a) < b
    <2>1. ~ (2 * b > Word * Word)  BY <1>1, <1>3
    <2> QED  BY <1>1, <1>2, <1>5, <2>1, LongDivision
  <1> QED  BY <1>1, <1>2, <1>4, <1>5

(***************************************************************************)
(* What the books of the pool keep whatever the curve quotes: the proofs use *)
(* of a quote only that it is a natural number the guards let through.       *)
(***************************************************************************)

Books == TypeOK /\ PositionExplained

LEMMA PartBounds ==
    ASSUME NEW x \in Nat, NEW y \in Nat, x <= y
    PROVE  Part(x) \in 0..x /\ Part(x) <= Part(y)
  BY PoolAssumption, SMTT(30) DEF Part

\* Every step of a trader's sale or purchase keeps the books.
LEMMA BuyKeepsBooks ==
    ASSUME Books, NEW s \in Sides, NEW a \in Amounts, Buy(s, a)
    PROVE  Books'
  <1>1. PICK tokens : tokens \in 0..pool[s] /\ Bought(s, tokens, a) /\ Trade("buy", s, tokens, a)
        /\ count < MaxTrades
    BY DEF Buy, MayTrade
  <1>2. a \in Nat /\ MaxTrades \in Nat  BY PoolAssumption
  <1>3. TypeOK'
    BY <1>1, <1>2 DEF Books, TypeOK, Bought, Moved, Trade
  <1>4. PositionExplained'
    BY <1>1, <1>2, PoolAssumption DEF Books, TypeOK, PositionExplained, Bought, Moved, Trade
  <1> QED  BY <1>3, <1>4 DEF Books

LEMMA SellKeepsBooks ==
    ASSUME Books, NEW s \in Sides, NEW a \in Amounts, Sell(s, a)
    PROVE  Books'
  <1>1. PICK usdc : usdc \in 0..reserve /\ a <= held[s] /\ Sold(s, a, usdc) /\ Trade("sell", s, a, usdc)
        /\ count < MaxTrades
    BY DEF Sell, MayTrade
  <1>2. a \in Nat /\ MaxTrades \in Nat  BY PoolAssumption
  <1>3. TypeOK'
    BY <1>1, <1>2 DEF Books, TypeOK, Sold, Moved, Trade
  <1>4. PositionExplained'
    BY <1>1, <1>2, PoolAssumption DEF Books, TypeOK, PositionExplained, Sold, Moved, Trade
  <1> QED  BY <1>3, <1>4 DEF Books

LEMMA WithdrawKeepsBooks ==
    ASSUME Books, WithdrawLiquidity
    PROVE  Books'
  <1> DEFINE more == IF Part(pool["yes"]) > Part(pool["no"]) THEN "yes" ELSE "no"
             left == Leftover(more)
             sets == Part(pool[Other(more)])
  <1>1. PICK out :
        /\ out \in 0..reserve /\ reserve >= out + Part(reserve) + sets
        /\ count < MaxTrades
        /\ q' = Moved(q, more, left)
        /\ pool' = [s \in Sides |-> pool[s] - sets + IF s = more THEN left ELSE 0]
        /\ reserve' = reserve - out - Part(reserve) - sets
        /\ spare' = [spare EXCEPT ![more] = @ + left]
        /\ count' = count + 1
        /\ UNCHANGED <<held, stage>>
    BY DEF WithdrawLiquidity
  <1>2. /\ more \in Sides /\ Other(more) \in Sides
        /\ \A s \in Sides : s = more \/ s = Other(more)
    BY DEF Sides, Other
  <1>3. pool \in [Sides -> Nat] /\ reserve \in Nat /\ MaxTrades \in Nat /\ Sets \in Nat
    BY PoolAssumption DEF Books, TypeOK
  <1>4. \A s \in Sides : Part(pool[s]) \in 0..pool[s]
    BY <1>3, PartBounds
  <1>5. sets \in Nat /\ \A s \in Sides : sets <= pool[s]
    <2>1. sets <= Part(pool[more])
      <3>1. Part(pool["yes"]) \in Nat /\ Part(pool["no"]) \in Nat  BY <1>4 DEF Sides
      <3> QED  BY <3>1 DEF Other
    <2> QED  BY <1>2, <1>3, <1>4, <2>1
  <1>6. left \in Nat
    BY <1>2, <1>3, <1>4 DEF Leftover, Monus
  <1>7. Part(reserve) \in Nat  BY <1>3, PartBounds
  <1> HIDE DEF more, left, sets
  <1>8. TypeOK'
    <2>1. q' \in [Sides -> Int] /\ spare' \in [Sides -> Nat]
      BY <1>1, <1>2, <1>6 DEF Books, TypeOK, Moved
    <2>2. pool' \in [Sides -> Nat]
      BY <1>1, <1>3, <1>5, <1>6
    <2>3. reserve' \in Nat
      BY <1>1, <1>3, <1>5, <1>7
    <2> QED  BY <1>1, <1>3, <2>1, <2>2, <2>3 DEF Books, TypeOK
  <1>9. PositionExplained'
    BY <1>1, <1>2, <1>3, <1>6 DEF Books, TypeOK, PositionExplained, Moved
  <1> QED  BY <1>8, <1>9 DEF Books

\* The curve's positions are the traders' tokens and the leftovers of withdrawals,
\* for every width of the numbers, every lmsr_b and every sequence of trades.
THEOREM PositionsAreExplained == Spec => [](TypeOK /\ PositionExplained)
  <1>1. Init => Books
    BY PoolAssumption DEF Init, Books, TypeOK, PositionExplained, Stages
  <1>2. Books /\ [Next]_vars => Books'
    <2> SUFFICES ASSUME Books, [Next]_vars PROVE Books'
      OBVIOUS
    <2>1. ASSUME NEW s \in Sides, NEW a \in Amounts, SellPreview(s, a) PROVE Books'
      <3>1. UNCHANGED <<q, pool, reserve, held, stage, spare, count>>
        BY <2>1 DEF SellPreview
      <3> QED  BY <3>1 DEF Books, TypeOK, PositionExplained
    <2>2. CASE Age
      BY <2>2 DEF Age, Books, TypeOK, PositionExplained, Stages
    <2>3. CASE UNCHANGED vars
      BY <2>3 DEF vars, Books, TypeOK, PositionExplained
    <2> QED
      BY <2>1, <2>2, <2>3, BuyKeepsBooks, SellKeepsBooks, WithdrawKeepsBooks DEF Next
  <1> QED  BY <1>1, <1>2, PTL DEF Spec, Books

-----------------------------------------------------------------------------

\* The answer of a preview, which uses lmsr_b.
Told(s, tokens, p) == lmsr_sell_payout(LmsrB, p, s, tokens)

\* A preview that was the last step told what the curve pays where it stands.
PreviewHolds == last.op = "preview" => last.usdc = Told(last.side, last.tokens, q)

\* The multiplier of the first stage leaves lmsr_b as it is.
LEMMA FirstStageCurve ==
    ASSUME stage = "normal"
    PROVE  calculate_effective_lmsr_b = LmsrB
  <1>1. LmsrB \in Nat
    <2>1. MAX_B_PARAM \in Nat  BY CurveAssumption
    <2> QED  BY <2>1, PoolAssumption
  <1>2. BPS \in Nat \ {0} /\ StageBps[stage] = BPS  BY PoolAssumption
  <1>3. LmsrB * BPS \in Nat /\ BPS * LmsrB <= LmsrB * BPS /\ LmsrB * BPS < BPS * LmsrB + BPS
    BY <1>1, <1>2
  <1>4. (LmsrB * BPS) \div BPS = LmsrB  BY <1>1, <1>2, <1>3, DivUnique
  <1> QED  BY <1>2, <1>4 DEF calculate_effective_lmsr_b

\* Only a preview leaves the mark of one, and it moves nothing.
LEMMA PreviewStep ==
    ASSUME PreviewHolds, [Next]_vars
    PROVE  PreviewHolds'
  <1>1. ASSUME NEW s \in Sides, NEW a \in Amounts, SellPreview(s, a) PROVE PreviewHolds'
    <2>1. PICK usdc : /\ usdc = lmsr_sell_payout(LmsrB, q, s, a)
                      /\ last' = Step("preview", s, a, usdc) /\ q' = q
      BY <1>1 DEF SellPreview
    <2> QED  BY <2>1 DEF PreviewHolds, Step, Told
  <1>2. ASSUME NEW s \in Sides, NEW a \in Amounts, Buy(s, a) \/ Sell(s, a) PROVE PreviewHolds'
    BY <1>2 DEF Buy, Sell, Trade, Step, PreviewHolds
  <1>3. CASE WithdrawLiquidity \/ Age
    BY <1>3 DEF WithdrawLiquidity, Age, Step, PreviewHolds
  <1>4. CASE UNCHANGED vars
    BY <1>4 DEF vars, PreviewHolds
  <1> QED  BY <1>1, <1>2, <1>3, <1>4 DEF Next

\* A sale that follows its preview at the first stage pays what the preview told,
\* for any pricing functions, any lmsr_b and any position of the curve.
THEOREM PreviewsAreKept == Spec => PreviewKept
  <1>1. Init => PreviewHolds
    BY DEF Init, PreviewHolds, Step
  <1>2. ASSUME PreviewHolds, Next, last.op = "preview", last'.op = "sell", stage = "normal",
               last.side = last'.side, last.tokens = last'.tokens
        PROVE  last'.usdc = last.usdc
    <2>1. PICK s \in Sides, a \in Amounts : Sell(s, a)
      <3>1. ASSUME NEW s \in Sides, NEW a \in Amounts, Buy(s, a) \/ SellPreview(s, a) PROVE FALSE
        BY <1>2, <3>1 DEF Buy, SellPreview, Trade, Step
      <3>2. ~ (WithdrawLiquidity \/ Age)
        BY <1>2 DEF WithdrawLiquidity, Age, Step
      <3> QED  BY <1>2, <3>1, <3>2 DEF Next
    <2>2. last' = Step("sell", s, a, get_tokens_for_sell_sol(s, a))
      BY <2>1 DEF Sell, Trade
    <2>3. get_tokens_for_sell_sol(s, a) = Told(s, a, q)
      BY <1>2, FirstStageCurve DEF get_tokens_for_sell_sol, Told
    <2> QED  BY <1>2, <2>2, <2>3 DEF Step, PreviewHolds
  <1>3. PreviewHolds /\ [Next]_vars =>
          [ /\ last.op = "preview" /\ last'.op = "sell" /\ stage = "normal"
            /\ last.side = last'.side /\ last.tokens = last'.tokens
            => last'.usdc = last.usdc ]_vars
    BY <1>2
  <1>4. PreviewHolds /\ [Next]_vars => PreviewHolds'
    BY PreviewStep
  <1> QED  BY <1>1, <1>3, <1>4, PTL DEF Spec, PreviewKept

(***************************************************************************)
(* The binary search for the tokens that a sum buys, whatever the curve's   *)
(* functions return: it hands out at most one token more than the sum pays   *)
(* for, and, given iterations enough, stops short only where the program     *)
(* means to.                                                                 *)
(***************************************************************************)

\* The program's numbers are integers or an error, which is one, whatever the
\* series return.
LEMMA OutlayType ==
    ASSUME NEW b, NEW z
    PROVE  lmsr_cost(b, z) \in Int
  <1>1. Word \in Nat /\ Word > 1 /\ Word * Word \in Nat
    BY WordAssumption
  <1>2. \A y, e : fp_mul(y, e) \in Int
    BY <1>1 DEF fp_mul, Fits, U128, Err
  <1>3. \A y \in Int : y \div Word \in Int
    BY <1>1
  <1> QED
    BY <1>2, <1>3 DEF lmsr_cost, Whole, Times, to_u64, Err

LEMMA PriceType ==
    ASSUME NEW p, NEW x \in Int
    PROVE  AtPrice(p, x) \in Int
  <1>1. Word \in Nat /\ Word > 1 /\ Word * Word \in Nat
    BY WordAssumption
  <1>2. \A y, e : fp_mul(y, e) \in Int
    BY <1>1 DEF fp_mul, Fits, U128, Err
  <1>3. \A y \in Int : y \div Word \in Int
    BY <1>1
  <1>4. x \div MIN_COST_DIVISOR \in Int /\ x \div 2 \in Int
    BY CurveAssumption
  <1> QED
    BY <1>2, <1>3, <1>4 DEF AtPrice, to_u64

LEMMA CostType ==
    ASSUME NEW b, NEW z, NEW s, NEW x \in Int
    PROVE  lmsr_buy_cost(b, z, s, x) \in Int
  <1>1. \A y : lmsr_cost(b, y) \in Int
    BY OutlayType
  <1>2. AtMarginalPrice(b, z, x) \in Int
    BY PriceType DEF AtMarginalPrice, AtLeast
  <1> QED
    BY <1>1, <1>2 DEF lmsr_buy_cost, Rise, AtLeast, Err

LEMMA BoundType ==
    ASSUME NEW b, NEW z \in [Sides -> Int], NEW s \in Sides, NEW usdc \in Nat
    PROVE  UpperBound(b, z, s, usdc) \in Int
  <1>0. Word \in Nat /\ Word > 1
    BY WordAssumption
  <1>1. Word * Word \in Nat
    BY <1>0
  <1>2. \A y : Fits(y) \in Int
    BY <1>1 DEF Fits, U128, Err
  <1>3. \A y, e : fp_mul(y, e) \in Int
    BY <1>2 DEF fp_mul, Err
  <1>4. \A y \in Int : y \div Word \in Int /\ y \div 10 \in Int
    BY <1>0
  <1>5. \A p : BoundAt(p, usdc) \in Int
    BY <1>3, <1>4 DEF BoundAt, OneAndAHalf, to_u64, Err
  <1>6. Monus(MAX_POSITION, Abs(z[s])) \in Int
    BY CurveAssumption DEF Monus, Abs
  <1> QED
    BY <1>5, <1>6 DEF UpperBound, AtMost

\* A purchase: the arguments of the search, and its steps.
Purchases == [b : Nat, z : [Sides -> Int], s : Sides, usdc : Nat]
Pairs == Int \X Int
Middle(r) == (r[1] + r[2]) \div 2
Over(n, r) == r[1] >= r[2] \/ n = MAX_ITERATIONS
Cost(c, x) == lmsr_buy_cost(c.b, c.z, c.s, x)
Highest(c) == UpperBound(c.b, c.z, c.s, c.usdc)
Onward(c, r) == Half(r[1], Middle(r), r[2], Cost(c, Middle(r)), c.usdc)

\* g answers every iteration and interval of the search that c is about.
Answer(g, c, n) ==
    [r \in Int \X Int |-> IF Over(n, r) THEN r[1] ELSE g[n + 1][Onward(c, r)]]
Searches(g, c) == g = [n \in 0..MAX_ITERATIONS |-> Answer(g, c, n)]

LEMMA Upward ==
    ASSUME NEW P, 0 \in P, \A k \in Nat : k \in P => k + 1 \in P
    PROVE  \A k \in Nat : k \in P
  <1> DEFINE B == {k \in Nat : k \notin P}
  <1> SUFFICES ASSUME B # {} PROVE FALSE
    OBVIOUS
  <1>1. PICK k \in B : \A j \in B : ~ (<<j, k>> \in OpToRel(<, Nat))
    <2>1. B \subseteq Nat
      OBVIOUS
    <2> HIDE DEF B
    <2> QED
      BY <2>1, NatLessThanWellFounded, WFMin
  <1>2. k \in Nat /\ k \notin P /\ k # 0
    OBVIOUS
  <1>3. k - 1 \in Nat /\ k - 1 < k /\ (k - 1) + 1 = k
    BY <1>2
  <1>4. k - 1 \notin P
    BY <1>2, <1>3
  <1>5. <<k - 1, k>> \in OpToRel(<, Nat)
    BY <1>2, <1>3 DEF OpToRel
  <1> QED
    BY <1>1, <1>3, <1>4, <1>5

\* The recursion is well defined, from the last iteration down.
LEMMA SearchExists ==
    ASSUME NEW c
    PROVE  Searches(CHOOSE g : Searches(g, c), c)
  <1> DEFINE Max == MAX_ITERATIONS
             Late(k) == {n \in 0..Max : n + k >= Max}
             Tail(g, k) == /\ DOMAIN g = Late(k)
                           /\ \A n \in Late(k) : g[n] = Answer(g, c, n)
             P == {k \in Nat : \E g : Tail(g, k)}
  <1>m. Max \in Nat
    BY CurveAssumption
  <1>1. 0 \in P
    <2> DEFINE g == [n \in Late(0) |-> Answer(0, c, n)]
    <2>1. \A n \in Late(0) : n = Max
      BY <1>m
    <2>2. \A h : Answer(h, c, Max) = Answer(0, c, Max)
      BY DEF Answer, Over
    <2>3. Tail(g, 0)
      BY <2>1, <2>2
    <2> QED
      BY <2>3
  <1>2. ASSUME NEW k \in Nat, k \in P PROVE k + 1 \in P
    <2>1. PICK g : Tail(g, k)
      BY <1>2
    <2> DEFINE h == [n \in Late(k + 1) |-> IF n \in Late(k) THEN g[n] ELSE Answer(g, c, n)]
    <2>2. \A n \in Late(k + 1) : n = Max \/ n + 1 \in Late(k)
      BY <1>m
    <2>3. Late(k) \subseteq Late(k + 1)
      BY <1>m
    <2>4. \A n \in Late(k + 1) : h[n] = Answer(g, c, n)
      BY <2>1
    <2>5. \A n \in Late(k + 1) : Answer(h, c, n) = Answer(g, c, n)
      <3> SUFFICES ASSUME NEW n \in Late(k + 1) PROVE Answer(h, c, n) = Answer(g, c, n)
        OBVIOUS
      <3>1. CASE n = Max
        BY <3>1 DEF Answer, Over
      <3>2. CASE n # Max
        <4>1. n + 1 \in Late(k) /\ n + 1 \in Late(k + 1)
          BY <2>2, <2>3, <3>2
        <4>2. h[n + 1] = g[n + 1]
          BY <4>1
        <4> HIDE DEF h
        <4> QED
          BY <4>2 DEF Answer
      <3> QED
        BY <3>1, <3>2
    <2>6. Tail(h, k + 1)
      <3>1. DOMAIN h = Late(k + 1)
        OBVIOUS
      <3> HIDE DEF h
      <3> QED
        BY <2>4, <2>5, <3>1
    <2> HIDE DEF h
    <2>7. \E f : Tail(f, k + 1)
      BY <2>6
    <2> QED
      BY <2>7
  <1>3. Max \in P
    <2> HIDE DEF P
    <2> QED
      BY <1>1, <1>2, <1>m, Upward
  <1>4. PICK g : Tail(g, Max)
    BY <1>3
  <1>5. Late(Max) = 0..Max
    BY <1>m
  <1>6. \E f : Searches(f, c)
    <2> DEFINE f == [n \in 0..Max |-> Answer(g, c, n)]
    <2>1. \A n \in 0..Max : f[n] = g[n]
      BY <1>4, <1>5
    <2>2. \A n \in 0..Max : Answer(f, c, n) = Answer(g, c, n)
      <3> SUFFICES ASSUME NEW n \in 0..Max PROVE Answer(f, c, n) = Answer(g, c, n)
        OBVIOUS
      <3>1. CASE n = Max
        BY <3>1 DEF Answer, Over
      <3>2. CASE n # Max
        <4>1. n + 1 \in 0..Max
          BY <1>m, <3>2
        <4>2. f[n + 1] = g[n + 1]
          BY <2>1, <4>1
        <4> HIDE DEF f
        <4> QED
          BY <4>2 DEF Answer
      <3> QED
        BY <3>1, <3>2
    <2>3. f = [n \in 0..Max |-> Answer(f, c, n)]
      <3>1. f = [n \in 0..Max |-> Answer(g, c, n)]
        OBVIOUS
      <3> HIDE DEF f
      <3> QED
        BY <2>2, <3>1
    <2> HIDE DEF f
    <2> QED
      BY <2>3 DEF Searches
  <1> QED
    BY <1>6

LEMMA SearchStep ==
    ASSUME NEW c, NEW g, Searches(g, c), NEW n \in 0..MAX_ITERATIONS, NEW r \in Pairs
    PROVE  g[n][r] = IF Over(n, r) THEN r[1] ELSE g[n + 1][Onward(c, r)]
  <1>1. g[n] = Answer(g, c, n)
    BY DEF Searches
  <1> QED
    BY <1>1 DEF Answer, Pairs

LEMMA SearchIs ==
    ASSUME NEW c
    PROVE  lmsr_tokens_for_usdc(c.b, c.z, c.s, c.usdc) =
             (CHOOSE g : Searches(g, c))[0][<<AtMost(0, Highest(c)), Highest(c)>>]
  BY DEF lmsr_tokens_for_usdc, Searches, Answer, Over, Onward, Middle, Cost, Highest

-----------------------------------------------------------------------------

\* Buying x tokens costs no more than the sum.
Paid(c, x) == Cost(c, x) # Err /\ Cost(c, x) <= c.usdc
\* x tokens are all the search may offer, cost more than the sum, or so nearly the
\* sum that the pool may keep the rest.
Enough(c, x) ==
    \/ x = Highest(c)
    \/ Cost(c, x) > c.usdc
    \/ Paid(c, x) /\ c.usdc - Cost(c, x) < CONVERGENCE_THRESHOLD

\* What a search may still answer lies in its interval: a token above one that is
\* paid for, and no more than is enough.  Width bounds the intervals.
Within(c, width, n, r) ==
    \/ r = <<Err, Err>>
    \/ /\ 0 <= r[1] /\ r[1] <= r[2] /\ r[2] <= Highest(c) /\ r[2] - r[1] < width[n]
       /\ r[1] = 0 \/ Paid(c, r[1]) \/ Paid(c, r[1] - 1)
       /\ Enough(c, r[2])

Rightly(c, x) ==
    \/ x = Err
    \/ /\ x \in 0..Highest(c)
       /\ x = 0 \/ Paid(c, x) \/ Paid(c, x - 1)
       /\ Enough(c, x)

\* The bounds of the intervals, one for each iteration, halved down to a point: in the
\* program 2^(50 - n), and the first of them exceeds MAX_POSITION = 10^15, the most an
\* UpperBound can be.
Halving(width) ==
    /\ width \in [0..MAX_ITERATIONS -> Nat]
    /\ width[MAX_ITERATIONS] = 1
    /\ \A n \in 0..MAX_ITERATIONS : n # MAX_ITERATIONS => width[n] = 2 * width[n + 1]

LEMMA OnwardStays ==
    ASSUME NEW c \in Purchases, NEW width, Halving(width), NEW n \in 0..MAX_ITERATIONS,
           NEW r \in Pairs, Within(c, width, n, r), ~ Over(n, r)
    PROVE  Onward(c, r) \in Pairs /\ Within(c, width, n + 1, Onward(c, r))
  <1>1. PICK low, high \in Int : r = <<low, high>>
    BY DEF Pairs
  <1>2. low < high /\ n # MAX_ITERATIONS /\ n + 1 \in 0..MAX_ITERATIONS
    BY <1>1, CurveAssumption DEF Over
  <1>3. PICK v, w \in Nat : v = width[n] /\ w = width[n + 1] /\ v = 2 * w
    BY <1>2 DEF Halving
  <1>4. PICK mid \in Int : mid = Middle(r) /\ 2 * mid <= low + high /\ low + high <= 2 * mid + 1
    BY <1>1 DEF Middle
  <1>5. PICK cost \in Int : cost = Cost(c, mid)
    BY CostType DEF Cost
  <1>6. PICK top \in Int : top = Highest(c)
    BY BoundType DEF Highest, Purchases
  <1>7. c.usdc \in Nat
    BY DEF Purchases
  <1>8. /\ 0 <= low /\ high <= top /\ high - low < v
        /\ low = 0 \/ Paid(c, low) \/ Paid(c, low - 1)
        /\ Enough(c, high)
    BY <1>1, <1>2, <1>3, <1>6 DEF Within
  <1>9. low <= mid /\ mid < high /\ mid - low < w /\ high - (mid + 1) < w
    BY <1>2, <1>3, <1>4, <1>8
  <1>10. CASE cost = Err
    <2>1. Onward(c, r) = <<Err, Err>>
      BY <1>1, <1>4, <1>5, <1>10 DEF Onward, Half
    <2> QED
      BY <2>1 DEF Within, Pairs, Err
  <1>11. CASE cost # Err /\ cost > c.usdc
    <2>1. Onward(c, r) = <<low, mid>>
      BY <1>1, <1>4, <1>5, <1>11 DEF Onward, Half
    <2>2. Enough(c, mid)
      BY <1>5, <1>11 DEF Enough
    <2> QED
      BY <1>3, <1>6, <1>8, <1>9, <2>1, <2>2 DEF Within, Pairs
  <1>12. CASE cost # Err /\ cost <= c.usdc
    <2>1. Paid(c, mid)
      BY <1>5, <1>12 DEF Paid
    <2>2. CASE c.usdc - cost < CONVERGENCE_THRESHOLD
      <3>1. Onward(c, r) = <<mid, mid>>
        BY <1>1, <1>4, <1>5, <1>7, <1>12, <2>2 DEF Onward, Half
      <3>2. Enough(c, mid)
        BY <1>5, <2>1, <2>2 DEF Enough
      <3>3. 0 <= mid /\ mid <= top /\ mid - mid < w
        BY <1>6, <1>8, <1>9
      <3> QED
        BY <1>3, <1>6, <2>1, <3>1, <3>2, <3>3 DEF Within, Pairs
    <2>3. CASE ~ (c.usdc - cost < CONVERGENCE_THRESHOLD)
      <3>1. Onward(c, r) = <<mid + 1, high>>
        BY <1>1, <1>4, <1>5, <1>7, <1>12, <2>3 DEF Onward, Half
      <3>2. (mid + 1) - 1 = mid
        OBVIOUS
      <3> QED
        BY <1>3, <1>6, <1>8, <1>9, <2>1, <3>1, <3>2 DEF Within, Pairs
    <2> QED
      BY <2>2, <2>3
  <1> QED
    BY <1>5, <1>7, <1>10, <1>11, <1>12

LEMMA AnswersRightly ==
    ASSUME NEW c \in Purchases, NEW width, Halving(width), NEW g, Searches(g, c)
    PROVE  \A n \in 0..MAX_ITERATIONS : \A r \in Pairs :
             Within(c, width, n, r) => Rightly(c, g[n][r])
  <1> DEFINE Max == MAX_ITERATIONS
             Good(n) == \A r \in Pairs : Within(c, width, n, r) => Rightly(c, g[n][r])
             P == {k \in Nat : k <= Max => Good(Max - k)}
  <1>m. Max \in Nat
    BY CurveAssumption
  <1>0. ASSUME NEW n \in 0..Max, NEW r \in Pairs, Within(c, width, n, r), Over(n, r)
        PROVE  Rightly(c, g[n][r])
    <2>1. g[n][r] = r[1]
      BY <1>0, SearchStep
    <2>2. r[1] \in Int /\ r[2] \in Int /\ r = <<r[1], r[2]>>
      BY DEF Pairs
    <2>3. CASE r = <<Err, Err>>
      BY <2>1, <2>3 DEF Rightly
    <2>4. CASE r # <<Err, Err>>
      <3>1. r[1] = r[2]
        <4>1. r[1] <= r[2] /\ r[2] - r[1] < width[n]
          BY <1>0, <2>4 DEF Within
        <4>2. n = Max => width[n] = 1
          BY DEF Halving
        <4> QED
          BY <1>0, <2>2, <4>1, <4>2 DEF Over
      <3>2. Highest(c) \in Int
        BY BoundType DEF Highest, Purchases
      <3> QED
        BY <1>0, <2>1, <2>2, <2>4, <3>1, <3>2 DEF Within, Rightly
    <2> QED
      BY <2>3, <2>4
  <1>1. Good(Max)
    <2> SUFFICES ASSUME NEW r \in Pairs, Within(c, width, Max, r) PROVE Rightly(c, g[Max][r])
      OBVIOUS
    <2>1. Over(Max, r) /\ Max \in 0..Max
      BY <1>m DEF Over
    <2> QED
      BY <1>0, <2>1
  <1>2. ASSUME NEW n \in 0..Max, n # Max, Good(n + 1) PROVE Good(n)
    <2> SUFFICES ASSUME NEW r \in Pairs, Within(c, width, n, r) PROVE Rightly(c, g[n][r])
      OBVIOUS
    <2>1. CASE Over(n, r)
      BY <1>0, <2>1
    <2>2. CASE ~ Over(n, r)
      <3>1. Onward(c, r) \in Pairs /\ Within(c, width, n + 1, Onward(c, r))
        BY <2>2, OnwardStays
      <3>2. g[n][r] = g[n + 1][Onward(c, r)]
        BY <2>2, SearchStep
      <3> QED
        BY <1>2, <3>1, <3>2
    <2> QED
      BY <2>1, <2>2
  <1> HIDE DEF Good
  <1>3. 0 \in P
    <2>1. Max - 0 = Max
      BY <1>m
    <2> QED
      BY <1>1, <2>1
  <1>4. ASSUME NEW k \in Nat, k \in P PROVE k + 1 \in P
    <2>1. CASE k + 1 <= Max
      <3>1. PICK n \in 0..Max : n = Max - (k + 1) /\ n + 1 = Max - k /\ n # Max /\ k <= Max
        BY <1>m, <2>1
      <3>2. Good(n + 1)
        BY <1>4, <3>1
      <3>3. Good(n)
        BY <1>2, <3>1, <3>2
      <3> QED
        BY <3>1, <3>3
    <2>2. CASE ~ (k + 1 <= Max)
      BY <2>2
    <2> QED
      BY <2>1, <2>2
  <1>5. \A k \in Nat : k \in P
    <2> HIDE DEF P
    <2> QED
      BY <1>3, <1>4, Upward
  <1>6. ASSUME NEW n \in 0..Max PROVE Good(n)
    <2>1. PICK k \in Nat : k = Max - n /\ k <= Max /\ Max - k = n
      BY <1>m
    <2> QED
      BY <1>5, <2>1
  <1> QED
    BY <1>6 DEF Good

\* Neither a cost nor the bound is negative unless it is an error.
LEMMA CostSign ==
    ASSUME NEW b, NEW z, NEW s, NEW x \in Int, lmsr_buy_cost(b, z, s, x) # Err
    PROVE  lmsr_buy_cost(b, z, s, x) \in Nat
  <1>1. lmsr_buy_cost(b, z, s, x) \in Int
    BY CostType
  <1>2. lmsr_buy_cost(b, z, s, x) >= 1
    <2> DEFINE before == lmsr_cost(b, z)
               after == lmsr_cost(b, Moved(z, s, x))
               price == AtMarginalPrice(b, z, x)
    <2>1. lmsr_buy_cost(b, z, s, x) = Rise(before, after, price)
      BY DEF lmsr_buy_cost
    <2>2. price >= 1
      <3>1. PICK y : y = AtPrice(lmsr_marginal_price(b, z), x)
        OBVIOUS
      <3>2. price = AtLeast(1, y)
        BY <3>1 DEF AtMarginalPrice
      <3>3. y \in Int
        BY <3>1, PriceType
      <3> QED
        BY <3>2, <3>3 DEF AtLeast
    <2>3. \A p \in {before, after} : p \in Int
      BY OutlayType
    <2> HIDE DEF before, after, price
    <2> QED
      BY <2>1, <2>2, <2>3 DEF Rise, AtLeast
  <1> QED
    BY <1>1, <1>2

LEMMA BoundSign ==
    ASSUME NEW b, NEW z \in [Sides -> Int], NEW s \in Sides, NEW usdc \in Nat,
           UpperBound(b, z, s, usdc) # Err
    PROVE  UpperBound(b, z, s, usdc) \in Nat
  <1>0. Word \in Nat /\ Word > 1
    BY WordAssumption
  <1>1. Word * Word \in Nat
    BY <1>0
  <1>2. \A y, e : fp_mul(y, e) # Err => fp_mul(y, e) \in Nat
    BY <1>1 DEF fp_mul, Fits, U128, Err
  <1>3. \A y \in Nat : y \div Word \in Nat /\ y \div 10 \in Nat
    BY <1>0
  <1>4. \A p : BoundAt(p, usdc) \in Nat \cup {Err}
    BY <1>2, <1>3 DEF BoundAt, OneAndAHalf, to_u64, Err
  <1>5. Monus(MAX_POSITION, Abs(z[s])) \in Nat
    BY CurveAssumption DEF Monus, Abs
  <1>6. PICK h \in Nat \cup {Err} : h = BoundAt(lmsr_marginal_price(b, z), usdc)
    BY <1>4
  <1> QED
    BY <1>5, <1>6 DEF UpperBound, AtMost, Err

\* The search for the tokens that usdc buys ends in an error or in a number of
\* tokens that it may offer.  The tokens, or all of them but one, cost no more
\* than usdc (lmsr.rs returns low, which may be one above the last number it has
\* tried), and they are the most it may offer, cost more than usdc, or leave less
\* than the threshold, provided the interval can be halved to a point in
\* MAX_ITERATIONS.
THEOREM SearchAnswersRightly ==
    ASSUME NEW b \in Nat, NEW z \in [Sides -> Int], NEW s \in Sides, NEW usdc \in Nat,
           NEW width, Halving(width), UpperBound(b, z, s, usdc) < width[0]
    PROVE  LET x == lmsr_tokens_for_usdc(b, z, s, usdc)
               Pays(y) == lmsr_buy_cost(b, z, s, y) \in 0..usdc
           IN  \/ x = Err
               \/ /\ x \in 0..UpperBound(b, z, s, usdc)
                  /\ x = 0 \/ Pays(x) \/ Pays(x - 1)
                  /\ \/ x = UpperBound(b, z, s, usdc)
                     \/ lmsr_buy_cost(b, z, s, x) > usdc
                     \/ Pays(x) /\ usdc - lmsr_buy_cost(b, z, s, x) < CONVERGENCE_THRESHOLD
  <1> DEFINE c == [b |-> b, z |-> z, s |-> s, usdc |-> usdc]
             g == CHOOSE f : Searches(f, c)
             top == UpperBound(b, z, s, usdc)
             x == lmsr_tokens_for_usdc(b, z, s, usdc)
             r == <<AtMost(0, top), top>>
             Pays(y) == lmsr_buy_cost(b, z, s, y) \in 0..usdc
  <1>1. c \in Purchases /\ c.b = b /\ c.z = z /\ c.s = s /\ c.usdc = usdc
    BY DEF Purchases
  <1>2. Highest(c) = top /\ \A y : Cost(c, y) = lmsr_buy_cost(b, z, s, y)
    BY <1>1 DEF Highest, Cost
  <1> HIDE DEF c
  <1>3. Searches(g, c)
    BY SearchExists
  <1>4. x = g[0][r]
    BY <1>1, <1>2, SearchIs
  <1> HIDE DEF g, x
  <1>5. top = Err \/ top \in Nat
    BY BoundSign
  <1>6. width[0] \in Nat /\ 0 \in 0..MAX_ITERATIONS
    BY CurveAssumption DEF Halving
  <1> HIDE DEF top
  <1>7. r \in Pairs /\ Within(c, width, 0, r)
    <2>1. CASE top = Err
      <3>1. r = <<Err, Err>>
        BY <2>1 DEF AtMost, Err
      <3> QED
        BY <3>1 DEF Within, Pairs, Err
    <2>2. CASE top \in Nat
      <3>1. r = <<0, top>>
        BY <2>2 DEF AtMost
      <3>2. top < width[0]
        BY DEF top
      <3> QED
        BY <1>2, <1>6, <2>2, <3>1, <3>2 DEF Within, Pairs, Enough
    <2> QED
      BY <1>5, <2>1, <2>2
  <1>8. Rightly(c, x)
    BY <1>1, <1>3, <1>4, <1>6, <1>7, AnswersRightly
  <1>9. ASSUME NEW y \in Int, Paid(c, y) PROVE Pays(y)
    <2>1. lmsr_buy_cost(b, z, s, y) # Err /\ lmsr_buy_cost(b, z, s, y) <= usdc
      BY <1>1, <1>2, <1>9 DEF Paid
    <2>2. lmsr_buy_cost(b, z, s, y) \in Nat
      BY <2>1, CostSign
    <2> QED
      BY <2>1, <2>2
  <1>10. CASE x # Err
    <2>1. /\ x \in 0..top
          /\ x = 0 \/ Paid(c, x) \/ Paid(c, x - 1)
          /\ Enough(c, x)
      BY <1>2, <1>8, <1>10 DEF Rightly
    <2>2. x \in Int /\ x - 1 \in Int
      BY <2>1
    <2>3. x = 0 \/ Pays(x) \/ Pays(x - 1)
      BY <1>9, <2>1, <2>2
    <2>4. \/ x = top
          \/ lmsr_buy_cost(b, z, s, x) > usdc
          \/ Pays(x) /\ usdc - lmsr_buy_cost(b, z, s, x) < CONVERGENCE_THRESHOLD
      BY <1>1, <1>2, <1>9, <2>1, <2>2 DEF Enough
    <2> QED
      BY <2>1, <2>3, <2>4 DEF x, top
  <1> QED
    BY <1>10 DEF x

(***************************************************************************)
(* What the curve quotes: the exponential, the price it gives, and the      *)
(* exchanges that follow each other.                                        *)
(***************************************************************************)

\* The series of fp_exp up to a term: g is its table, as far as it goes.
Stage0 == [sum |-> One, term |-> One, fact |-> 1, done |-> FALSE]
NextTerm(a, r, i) ==
    LET t == fp_mul(a.term, r)
        f == a.fact * i
    IN  IF a.done THEN a
        ELSE [sum |-> a.sum + t \div f, term |-> t, fact |-> f, done |-> t \div f < TinyTerm]
Term(g, r, i) == IF i = 0 THEN Stage0 ELSE NextTerm(g[i - 1], r, i)
Sums(g, r) == g = [i \in 0..15 |-> Term(g, r, i)]

\* The recursion is well defined.
LEMMA SeriesExists ==
    ASSUME NEW r
    PROVE  Sums(CHOOSE g : Sums(g, r), r)
  <1> DEFINE Head(g, k) == \A i \in 0..k : g[i] = Term(g, r, i)
             P == {k \in Nat : \E g : Head(g, k)}
  <1>1. 0 \in P
    <2> DEFINE g == [i \in {0} |-> Stage0]
    <2>1. Head(g, 0)  BY DEF Term
    <2> QED  BY <2>1
  <1>2. ASSUME NEW k \in Nat, k \in P PROVE k + 1 \in P
    <2>1. PICK g : Head(g, k)  BY <1>2
    <2> DEFINE h == [i \in 0..(k + 1) |-> IF i = k + 1 THEN NextTerm(g[k], r, k + 1) ELSE g[i]]
    <2>2. \A i \in 0..k : h[i] = g[i]  OBVIOUS
    <2>3. h[k + 1] = NextTerm(g[k], r, k + 1)  OBVIOUS
    <2> HIDE DEF h
    <2>4. ASSUME NEW i \in 0..(k + 1) PROVE h[i] = Term(h, r, i)
      <3>1. CASE i = k + 1
        <4>1. i # 0 /\ i - 1 = k /\ k \in 0..k  BY <3>1
        <4> QED  BY <2>2, <2>3, <3>1, <4>1 DEF Term
      <3>2. CASE i # k + 1
        <4>1. i \in 0..k /\ (i # 0 => i - 1 \in 0..k)  BY <3>2
        <4> QED  BY <2>1, <2>2, <4>1 DEF Term
      <3> QED  BY <3>1, <3>2
    <2> QED  BY <2>4
  <1>3. 15 \in P
    <2> HIDE DEF P
    <2> QED  BY <1>1, <1>2, Upward
  <1>4. PICK g : Head(g, 15)  BY <1>3
  <1> DEFINE h == [i \in 0..15 |-> g[i]]
  <1>5. \A i \in 0..15 : h[i] = g[i]  OBVIOUS
  <1>6. h = [i \in 0..15 |-> Term(g, r, i)]  BY <1>4
  <1> HIDE DEF h
  <1>7. \A i \in 0..15 : Term(g, r, i) = Term(h, r, i)
    <2> SUFFICES ASSUME NEW i \in 0..15 PROVE Term(g, r, i) = Term(h, r, i)  OBVIOUS
    <2>1. i # 0 => i - 1 \in 0..15  OBVIOUS
    <2> QED  BY <1>5, <2>1 DEF Term
  <1>8. Sums(h, r)  BY <1>6, <1>7 DEF Sums
  <1> QED  BY <1>8

LEMMA SeriesIs ==
    ASSUME NEW r
    PROVE  ExpSeries(r) = (CHOOSE g : Sums(g, r))[15].sum
  BY DEF ExpSeries, Sums, Term, NextTerm, Stage0

\* A part of a term is no more than the term.
LEMMA SmallProduct ==
    ASSUME NEW t \in 0..One, NEW r \in 0..(One - 1)
    PROVE  fp_mul(t, r) \in 0..t
  <1>1. Word \in Nat /\ Word > 1 /\ One = Word  BY WordAssumption DEF One
  <1>2. t \in Nat /\ r \in Nat /\ t <= Word /\ r < Word  BY <1>1
  <1>3. 2 * Word <= Word * Word  BY <1>1, Z3
  <1>4. t \in U128 /\ r \in U128 /\ 2 * r < Word * Word
    BY <1>1, <1>2, <1>3 DEF U128
  <1>5. t * r \in Nat /\ t * r <= Word * t  BY <1>1, <1>2, Z3
  <1> DEFINE d == (t * r) \div Word
  <1>6. d \in Nat /\ Word * d <= t * r  BY <1>1, <1>5, DivMod
  <1> HIDE DEF d
  <1>7. d <= t
    <2>1. CASE d >= t + 1
      <3>1. Word * d >= Word * (t + 1)  BY <1>1, <1>2, <1>6, <2>1, Z3
      <3>2. Word * (t + 1) = Word * t + Word  BY <1>1, <1>2, Z3
      <3>3. Word * t \in Nat  BY <1>1, <1>2, Z3
      <3> QED  BY <1>1, <1>5, <1>6, <3>1, <3>2, <3>3
    <2> QED  BY <1>2, <1>6, <2>1
  <1>8. d < Word * Word  BY <1>1, <1>2, <1>3, <1>6, <1>7
  <1>9. Word * Word \in Nat  BY <1>1, Z3
  <1>10. fp_mul(t, r) = d
    <2>1. ~ (2 * t >= Word * Word /\ 2 * r >= Word * Word)  BY <1>2, <1>4, <1>9
    <2> QED  BY <1>4, <1>8, <2>1, MulIsFloor DEF d
  <1> QED  BY <1>2, <1>6, <1>7, <1>10

\* What fp_exp adds up: no product of the series fails or grows, and the sum is one at
\* least and less than three, so that the model has no error path inside the series.
THEOREM SeriesStaysSmall ==
    ASSUME NEW r \in 0..(LN_2 - 1)
    PROVE  ExpSeries(r) \in One..(3 * One - 1)
  <1> DEFINE g == CHOOSE h : Sums(h, r)
             P == {k \in Nat : k <= 15 =>
                     /\ g[k].sum \in One..(3 * One) /\ g[k].term \in 0..One
                     /\ g[k].fact \in Nat \ {0}
                     /\ (3 * One - g[k].sum) * g[k].fact >= One
                     /\ k = 0 => g[k] = Stage0}
  <1>1. Word \in Nat /\ Word > 1 /\ One = Word /\ LN_2 \in 1..(Word - 1)
    BY WordAssumption, SeriesAssumption DEF One
  <1>2. r \in 0..(One - 1)  BY <1>1
  <1>3. \A i \in 0..15 : g[i] = Term(g, r, i)
    <2>1. Sums(g, r)  BY SeriesExists
    <2> HIDE DEF g
    <2>2. \A h : h = [i \in 0..15 |-> Term(g, r, i)] => \A i \in 0..15 : h[i] = Term(g, r, i)
      OBVIOUS
    <2> QED  BY <2>1, <2>2 DEF Sums
  <1> HIDE DEF g
  <1>4. 0 \in P
    <2>1. g[0] = Stage0  BY <1>3 DEF Term
    <2>2. (3 * One - One) * 1 >= One /\ One \in One..(3 * One)  BY <1>1
    <2> QED  BY <1>1, <2>1, <2>2 DEF Stage0
  <1>5. ASSUME NEW k \in Nat, k \in P PROVE k + 1 \in P
    <2> SUFFICES ASSUME k + 1 <= 15
                 PROVE  /\ g[k + 1].sum \in One..(3 * One) /\ g[k + 1].term \in 0..One
                        /\ g[k + 1].fact \in Nat \ {0}
                        /\ (3 * One - g[k + 1].sum) * g[k + 1].fact >= One
      OBVIOUS
    <2> DEFINE a == g[k]  t == fp_mul(a.term, r)  f == a.fact * (k + 1)
               left == 3 * One - a.sum
    <2>1. /\ a.sum \in One..(3 * One) /\ a.term \in 0..One /\ a.fact \in Nat \ {0}
          /\ left \in Nat /\ left * a.fact >= One /\ (k = 0 => a = Stage0)
      BY <1>1, <1>5
    <2>2. g[k + 1] = NextTerm(a, r, k + 1)
      <3>1. k + 1 \in 0..15 /\ k + 1 # 0 /\ (k + 1) - 1 = k  OBVIOUS
      <3> QED  BY <1>3, <3>1 DEF Term
    <2>4. CASE a.done  BY <1>1, <2>1, <2>2, <2>4 DEF NextTerm
    <2>5. CASE ~ a.done
      <3>1. t \in 0..One  BY <1>1, <1>2, <2>1, SmallProduct
      <3>2. f \in Nat /\ f > 0  BY <2>1, Z3
      <3>3. /\ g[k + 1].sum = a.sum + t \div f /\ g[k + 1].term = t /\ g[k + 1].fact = f
        BY <2>2, <2>5 DEF NextTerm
      <3> DEFINE d == t \div f
      <3>4. d \in Nat /\ f * d <= t  BY <1>1, <3>1, <3>2, DivMod
      <3> HIDE DEF d
      <3>5. left * f >= 2 * One
        <4>1. CASE k = 0
          <5>1. left = 2 * One /\ f = 1
            <6>1. a.sum = One /\ a.fact = 1  BY <2>1, <4>1 DEF Stage0
            <6> HIDE DEF a
            <6> QED  BY <1>1, <4>1, <6>1
          <5> HIDE DEF left, f
          <5> QED  BY <1>1, <5>1
        <4>2. CASE k >= 1
          <5> DEFINE m == left * a.fact
          <5>1. m \in Nat /\ m >= One  BY <2>1, Z3
          <5>2. left * f = m * (k + 1)
            <6> DEFINE c == a.fact
            <6>1. c \in Nat  BY <2>1
            <6> HIDE DEF left, c
            <6> QED  BY <2>1, <6>1, Z3 DEF f, m, c
          <5> HIDE DEF m
          <5>3. m * (k + 1) >= 2 * m  BY <4>2, <5>1, Z3
          <5> QED  BY <1>1, <5>1, <5>2, <5>3
        <4> QED  BY <4>1, <4>2
      <3> HIDE DEF left, f, t
      <3>6. f * d \in Nat /\ left * f \in Nat  BY <2>1, <3>2, <3>4, Z3
      <3>7. (left - d) * f = left * f - f * d  BY <2>1, <3>2, <3>4, Z3
      <3>8. (left - d) * f >= One  BY <1>1, <3>1, <3>4, <3>5, <3>6, <3>7
      <3>9. left - d >= 1
        <4>1. CASE left - d <= 0
          <5>1. (left - d) * f <= 0  BY <2>1, <3>2, <3>4, <4>1, Z3
          <5>2. (left - d) * f \in Int  BY <2>1, <3>2, <3>4, Z3
          <5> QED  BY <1>1, <3>8, <5>1, <5>2
        <4> QED  BY <2>1, <3>4, <4>1
      <3>10. a.sum + d \in One..(3 * One) /\ 3 * One - (a.sum + d) = left - d
        <4>1. left = 3 * One - a.sum  BY DEF left
        <4> DEFINE c == a.sum
        <4>2. c \in One..(3 * One) /\ left = 3 * One - c  BY <2>1, <4>1
        <4> HIDE DEF c
        <4>3. c + d \in One..(3 * One) /\ 3 * One - (c + d) = left - d
          BY <1>1, <3>4, <3>9, <4>2
        <4> QED  BY <4>3 DEF c
      <3>11. g[k + 1].sum = a.sum + d  BY <3>3 DEF d
      <3> HIDE DEF a
      <3> QED  BY <3>1, <3>2, <3>3, <3>8, <3>10, <3>11
    <2> QED  BY <2>4, <2>5
  <1>6. 15 \in P
    <2> HIDE DEF P
    <2> QED  BY <1>4, <1>5, Upward
  <1>7. ExpSeries(r) = g[15].sum  BY SeriesIs DEF g
  <1>8. g[15].sum # 3 * One
    <2>1. (3 * One - g[15].sum) * g[15].fact >= One /\ g[15].fact \in Nat  BY <1>6
    <2>2. \A x \in Nat : (3 * One - 3 * One) * x = 0  BY <1>1
    <2> QED  BY <1>1, <2>1, <2>2
  <1> QED  BY <1>1, <1>6, <1>7, <1>8

\* A shift loses no bit as long as three times the power of two fits in half a number.
Power(x) == 2^(x \div LN_2)

LEMMA ShiftFits ==
    ASSUME NEW x \in 0..MAX_EXP_INPUT, Power(x) \in Nat, Power(x) > 0, 3 * Power(x) <= Word
    PROVE  /\ fp_exp(x) = ExpSeries(x % LN_2) * Power(x)
           /\ fp_exp(x) \in One..((3 * Power(x)) * One - 1)
           /\ fp_exp(x) < Word * Word
  <1>1. /\ Word \in Nat /\ Word > 1 /\ One = Word /\ LN_2 \in 1..(Word - 1)
        /\ MAX_EXP_INPUT \in Nat
    BY WordAssumption, SeriesAssumption DEF One
  <1> DEFINE r == x % LN_2  sum == ExpSeries(r)  w == Word * Word  p == Power(x)
  <1>2. r \in 0..(LN_2 - 1)  BY <1>1, DivMod
  <1>3. sum \in One..(3 * One - 1)  BY <1>2, SeriesStaysSmall
  <1>p. p \in Nat /\ p > 0 /\ 3 * p <= Word  OBVIOUS
  <1> HIDE DEF r, sum, p
  <1>4. w \in Nat /\ w > 0  BY <1>1, Z3
  <1>5. sum * p \in One..((3 * p) * One - 1) /\ sum * p < w
    <2>1. sum * p >= sum  BY <1>1, <1>3, <1>p, Z3
    <2>2. sum * p \in Nat  BY <1>1, <1>3, <1>p, Z3
    <2>3. sum * p < (3 * One) * p  BY <1>1, <1>3, <1>p, Z3
    <2>4. (3 * One) * p = (3 * p) * Word  BY <1>1, <1>p, Z3
    <2>5. (3 * p) * Word <= w  BY <1>1, <1>p, Z3
    <2>6. (3 * p) * Word \in Nat  BY <1>1, <1>p, Z3
    <2> HIDE DEF w
    <2> QED  BY <1>1, <1>3, <1>4, <2>1, <2>2, <2>3, <2>4, <2>5, <2>6
  <1>6. sum * p \in Nat  BY <1>1, <1>3, <1>p, Z3
  <1> HIDE DEF w
  <1>7. (sum * p) % w = sum * p  BY <1>4, <1>5, <1>6, Z3
  <1>8. fp_exp(x) = (sum * p) % w
    BY <1>1 DEF fp_exp, sum, w, r, p, Power
  <1> QED  BY <1>5, <1>7, <1>8 DEF sum, r, w, p

\* The shift at the end of fp_exp, which drops bits without a word, drops none for any
\* argument that its check lets in, and the exponential is one at least.
THEOREM ShiftKeepsItsBits ==
    ASSUME PowersFit, NEW x \in 0..MAX_EXP_INPUT
    PROVE  /\ fp_exp(x) = ExpSeries(x % LN_2) * 2^(x \div LN_2)
           /\ fp_exp(x) \in One..(Word * Word - 1)
  <1>1. /\ Word \in Nat /\ Word > 1 /\ One = Word /\ LN_2 \in 1..(Word - 1)
        /\ MAX_EXP_INPUT \in Nat
    BY WordAssumption, SeriesAssumption DEF One
  <1> DEFINE n == x \div LN_2  p == Power(x)  m == MAX_EXP_INPUT \div LN_2
  <1>2. n \in Nat /\ LN_2 * n <= x  BY <1>1, DivMod
  <1>3. m \in Nat /\ MAX_EXP_INPUT < LN_2 * m + LN_2  BY <1>1, DivMod
  <1> HIDE DEF n, m
  <1>4. n \in 0..m
    <2>1. CASE n >= m + 1
      <3>1. LN_2 * n >= LN_2 * (m + 1) /\ LN_2 * (m + 1) = LN_2 * m + LN_2
        BY <1>1, <1>2, <1>3, <2>1, Z3
      <3>2. LN_2 * n \in Nat /\ LN_2 * m \in Nat  BY <1>1, <1>2, <1>3, Z3
      <3> QED  BY <1>1, <1>2, <1>3, <3>1, <3>2
    <2> QED  BY <1>2, <1>3, <2>1
  <1>5. p \in 1..(Word \div 3)  BY <1>4 DEF PowersFit, m, n, Power
  <1> HIDE DEF p
  <1>6. p \in Nat /\ p > 0 /\ 3 * p <= Word
    <2>1. Word \div 3 \in Nat /\ 3 * (Word \div 3) <= Word  BY <1>1, DivMod
    <2> QED  BY <1>1, <1>5, <2>1
  <1>8. /\ fp_exp(x) = ExpSeries(x % LN_2) * p /\ fp_exp(x) \in One..((3 * p) * One - 1)
        /\ fp_exp(x) < Word * Word
    BY <1>6, ShiftFits DEF p
  <1>9. (3 * p) * One \in Nat /\ Word * Word \in Nat  BY <1>1, <1>6, Z3
  <1> HIDE DEF p
  <1>10. fp_exp(x) \in One..(Word * Word - 1)  BY <1>1, <1>8, <1>9
  <1> QED  BY <1>8, <1>10 DEF p, Power

\* The quotient of a position and the parameter of the curve.
LEMMA RatioType ==
    ASSUME NEW b \in Nat, b > 0, NEW z \in [Sides -> Int], NEW s \in Sides
    PROVE  Ratio(b, z, s) \in Nat \cup {Err}
  <1> DEFINE x == from_u64(Abs(z[s]))  d == from_u64(b)
             q2 == Digit(0, Hi(x), d)
             q1 == Digit(q2[2], Lo(x), d)
             q0 == Digit(q1[2], 0, d)
  <1>1. Word \in Nat /\ Word > 1  BY WordAssumption
  <1>2. x \in Nat
    <2>1. Abs(z[s]) \in Nat  BY DEF Abs
    <2> QED  BY <1>1, <2>1, Z3 DEF from_u64
  <1>3. d \in Nat /\ d > 0  BY <1>1, Z3 DEF from_u64
  <1> HIDE DEF x, d
  <1>4. Hi(x) \in Nat /\ Lo(x) \in Nat  BY <1>1, <1>2, Parts
  <1>5. \A rem \in Nat, extra \in Nat : Digit(rem, extra, d)[1] \in Nat /\ Digit(rem, extra, d)[2] \in Nat
    <2> TAKE rem \in Nat, extra \in Nat
    <2> DEFINE n == rem * Word + extra
    <2>1. n \in Nat  BY <1>1, Z3
    <2> HIDE DEF n
    <2>2. n \div d \in Nat /\ n % d \in Nat  BY <1>3, <2>1, DivMod
    <2>3. Digit(rem, extra, d) = <<n \div d, n % d>>  BY DEF Digit, n
    <2> QED  BY <2>2, <2>3
  <1>6. q1[1] \in Nat /\ q0[1] \in Nat
    <2>1. q2[2] \in Nat  BY <1>4, <1>5
    <2> HIDE DEF q2
    <2>2. q1[1] \in Nat /\ q1[2] \in Nat  BY <1>4, <1>5, <2>1
    <2> HIDE DEF q1
    <2>3. q0[1] \in Nat  BY <1>5, <2>2
    <2> QED  BY <2>2, <2>3
  <1>7. Ratio(b, z, s) \in {Err, q1[1] * Word + q0[1]}
    <2>1. Ratio(b, z, s) = fp_div(x, d)  BY DEF Ratio, x, d
    <2> QED  BY <1>3, <2>1 DEF fp_div
  <1> HIDE DEF q0, q1, q2
  <1>8. q1[1] * Word + q0[1] \in Nat  BY <1>1, <1>6, Z3
  <1> QED  BY <1>7, <1>8

\* The exponential of a position, with its sign, is a number of the program's or an
\* error; that of a negative position never vanishes, and no other where no bit is lost.
LEMMA WeightType ==
    ASSUME NEW b \in Nat, b > 0, NEW z \in [Sides -> Int], NEW s \in Sides
    PROVE  /\ Weight(b, z, s) \in U128 \cup {Err}
           /\ z[s] < 0 \/ PowersFit => Weight(b, z, s) # 0
  <1> DEFINE x == Ratio(b, z, s)  e == Exp(x)
  <1>1. /\ Word \in Nat /\ Word > 1 /\ One = Word /\ LN_2 \in 1..(Word - 1)
        /\ MAX_EXP_INPUT \in Nat
    BY WordAssumption, SeriesAssumption DEF One
  <1>2. x \in Nat \cup {Err}  BY RatioType
  <1> HIDE DEF x
  <1>3. Word * Word \in Nat /\ Word * Word >= 2 * Word /\ 2 * Word > Word  BY <1>1, Z3
  <1>4. e \in U128 \cup {Err} /\ (PowersFit => e # 0)
    <2>1. CASE x \in Nat /\ x <= MAX_EXP_INPUT
      <3>1. x % LN_2 \in 0..(LN_2 - 1) /\ x \div LN_2 \in Nat  BY <1>1, <2>1, DivMod
      <3> DEFINE sum == ExpSeries(x % LN_2)  n == x \div LN_2
      <3>2. sum \in Int  BY <1>1, <3>1, SeriesStaysSmall
      <3>3. n \in Nat  BY <3>1
      <3>4. e = (sum * 2^n) % (Word * Word)  BY <1>1, <2>1 DEF Exp, fp_exp, Err
      <3> HIDE DEF sum, n
      <3>5. 2^n \in Int  BY <3>3
      <3> DEFINE p == sum * 2^n  w == Word * Word
      <3>6. p \in Int /\ w \in Nat /\ w > 0  BY <1>1, <1>3, <3>2, <3>5
      <3>7. e = p % w /\ U128 = 0..(w - 1)  BY <3>4 DEF U128
      <3>8. PowersFit => e # 0
        <4> SUFFICES ASSUME PowersFit PROVE e # 0  OBVIOUS
        <4>1. x \in 0..MAX_EXP_INPUT /\ x # Err  BY <1>1, <2>1 DEF Err
        <4>2. fp_exp(x) \in One..(Word * Word - 1)  BY <4>1, ShiftKeepsItsBits
        <4>3. e = fp_exp(x)  BY <4>1 DEF Exp
        <4> QED  BY <1>1, <1>3, <4>2, <4>3
      <3> HIDE DEF p, w, e
      <3> QED  BY <3>6, <3>7, <3>8
    <2>2. CASE x = Err \/ (x \in Nat /\ x > MAX_EXP_INPUT)
      BY <1>1, <2>2 DEF Exp, fp_exp, Err
    <2> QED  BY <1>1, <1>2, <2>1, <2>2
  <1> HIDE DEF e
  <1>5. e # Err => fp_div(One, e) \in (U128 \cup {Err}) \ {0}
    <2> SUFFICES ASSUME e \in U128 PROVE fp_div(One, e) \in (U128 \cup {Err}) \ {0}
      BY <1>4
    <2>1. e \in Nat /\ e < Word * Word  BY <1>3 DEF U128
    <2>2. One \in U128 /\ Hi(One) = 1
      <3>1. Word \div Word = 1  BY <1>1, DivUnique, Word * 1 = Word
      <3> QED  BY <1>1, <1>3, <3>1 DEF U128, Hi
    <2>3. CASE e = 0  BY <2>3 DEF fp_div, Err
    <2>4. CASE e = 1
      <3>1. Digit(0, Hi(One), e)[1] = 1
        <4>1. 0 * Word + 1 = 1 /\ 1 \div 1 = 1  BY <1>1
        <4> QED  BY <2>2, <2>4, <4>1 DEF Digit
      <3> QED  BY <2>4, <3>1 DEF fp_div, Err
    <2>5. CASE e > 1
      <3> DEFINE w == Word * Word  d == w \div e
      <3>1. w \in Nat /\ e < w  BY <1>3, <2>1
      <3> HIDE DEF w
      <3>2. d \in Nat /\ e * d <= w /\ w < e * d + e  BY <2>1, <2>5, <3>1, DivMod
      <3> HIDE DEF d
      <3>3. e * d >= 2 * d  BY <2>1, <2>5, <3>2, Z3
      <3>4. d # 0  BY <2>1, <3>1, <3>2
      <3>5. e * d \in Nat  BY <2>1, <3>2, Z3
      <3>6. d \in 1..(w - 1)  BY <3>1, <3>2, <3>3, <3>4, <3>5
      <3>7. fp_div(One, e) \in {Err, d}
        <4>1. Hi(One) < e /\ e > 0  BY <2>1, <2>2, <2>5
        <4>2. One * Word = w  BY <1>1 DEF w
        <4> QED  BY <2>2, <4>1, <4>2, LongDivision DEF d
      <3> QED  BY <3>6, <3>7 DEF U128, w, Err
    <2> QED  BY <2>1, <2>3, <2>4, <2>5
  <1>6. Weight(b, z, s) = Signed(z[s], e)  BY DEF Weight, e, x
  <1>7. CASE z[s] < 0
    <2>1. Weight(b, z, s) = (IF e = Err THEN e ELSE fp_div(One, e))  BY <1>6, <1>7 DEF Signed
    <2> QED  BY <1>5, <2>1 DEF Err
  <1>8. CASE z[s] >= 0
    <2>1. Weight(b, z, s) = e  BY <1>6, <1>8 DEF Signed
    <2> QED  BY <1>4, <1>8, <2>1
  <1> QED  BY <1>7, <1>8

\* The price of yes is an error or a part of one USDC, whatever the exponentials lose in
\* their divisions, so that the rest that lmsr_get_no_price takes for no is never below
\* nothing.  It is a whole USDC only when the weight of no has vanished, which the
\* program's own range rules out, and nothing only when the weight of yes is less than a
\* word's part of both.
THEOREM PricesAreParts ==
    ASSUME NEW b, NEW z \in [Sides -> Int], NEW y, NEW n,
           y = Weight(b, z, "yes"), n = Weight(b, z, "no"), lmsr_marginal_price(b, z) # Err
    PROVE  /\ lmsr_marginal_price(b, z) \in 0..One
           /\ lmsr_marginal_price(b, z) = One <=> n = 0
           /\ z["no"] < 0 \/ PowersFit => lmsr_marginal_price(b, z) < One
           /\ lmsr_marginal_price(b, z) = 0 <=> y * One < y + n
  <1> DEFINE p == lmsr_marginal_price(b, z)  t == y + n
  <1>0. {y, n} \subseteq U128 \cup {Err} /\ (z["no"] < 0 \/ PowersFit => n # 0)
    <2>1. InRange(b, z)  BY DEF lmsr_marginal_price
    <2>2. b \in Nat /\ b > 0  BY <2>1, CurveAssumption DEF InRange
    <2>3. "yes" \in Sides /\ "no" \in Sides  BY DEF Sides
    <2> QED  BY <2>2, <2>3, WeightType
  <1>1. Word \in Nat /\ Word > 1 /\ One = Word  BY WordAssumption DEF One
  <1>2. p = Odds(y, n)  BY DEF lmsr_marginal_price
  <1>3. y \in U128 /\ n \in U128 /\ t \in U128 /\ p = fp_div(y, t)
    BY <1>0, <1>2 DEF Odds
  <1>4. y \in Nat /\ n \in Nat /\ t \in Nat  BY <1>3 DEF U128
  <1>5. t > 0
    <2>1. t # 0  BY <1>3 DEF fp_div
    <2> QED  BY <1>4, <2>1
  <1>6. Hi(y) < t
    <2>1. Hi(y) \in Nat /\ Lo(y) \in Nat /\ y = Word * Hi(y) + Lo(y)  BY <1>3, Halves
    <2> DEFINE h == Hi(y)  l == Lo(y)
    <2>2. h \in Nat /\ l \in Nat /\ y = Word * h + l  BY <2>1
    <2> HIDE DEF h, l
    <2>3. Word * h >= 2 * h  BY <1>1, <2>2, Z3
    <2>4. h < t  BY <1>1, <1>4, <1>5, <2>2, <2>3
    <2> QED  BY <2>4 DEF h
  <1>7. p = (y * Word) \div t
    BY <1>3, <1>5, <1>6, LongDivision
  <1> HIDE DEF p, t
  <1>8. y * Word \in Nat /\ n * Word \in Nat  BY <1>1, <1>4, Z3
  <1>9. p \in Nat /\ t * p <= y * Word /\ y * Word < t * p + t
    BY <1>4, <1>5, <1>7, <1>8, DivMod
  <1>10. t * Word = y * Word + n * Word /\ t * Word \in Nat
    <2>1. t = y + n  BY DEF t
    <2> QED  BY <1>1, <1>4, <2>1, Z3
  <1>11. p <= Word
    <2>1. CASE p >= Word + 1
      <3>1. t * p >= t * (Word + 1)  BY <1>1, <1>4, <1>9, <2>1, Z3
      <3>2. t * (Word + 1) = t * Word + t  BY <1>1, <1>4, Z3
      <3> QED  BY <1>4, <1>5, <1>8, <1>9, <1>10, <3>1, <3>2, Z3
    <2> QED  BY <1>1, <1>9, <2>1
  <1>12. p = Word <=> n = 0
    <2>1. CASE n = 0
      <3>1. t * Word = y * Word
        <4>1. n * Word = 0  BY <1>1, <2>1
        <4> QED  BY <1>8, <1>10, <4>1
      <3>2. (y * Word) \div t = Word
        BY <1>1, <1>4, <1>5, <1>8, <3>1, DivUnique
      <3> QED  BY <1>7, <2>1, <3>2
    <2>2. CASE n > 0 /\ p = Word
      <3>1. t * Word <= y * Word  BY <1>9, <2>2
      <3>2. n * Word > 0  BY <1>1, <1>4, <2>2, Z3
      <3> QED  BY <1>8, <1>10, <3>1, <3>2
    <2> QED  BY <1>4, <2>1, <2>2
  <1>13. p = 0 <=> y * Word < t
    <2>1. CASE p = 0
      <3>1. t * p = 0  BY <1>4, <2>1
      <3> QED  BY <1>4, <1>8, <1>9, <2>1, <3>1
    <2>2. CASE p >= 1
      <3>1. t * p >= t  BY <1>4, <1>9, <2>2, Z3
      <3> QED  BY <1>4, <1>8, <1>9, <2>2, <3>1, Z3
    <2> QED  BY <1>9, <2>1, <2>2
  <1> QED  BY <1>0, <1>1, <1>9, <1>11, <1>12, <1>13 DEF p, t

\* The exponents of positions near zero, and then the exponentials: far from zero and from
\* the end of a number.
LEMMA NearRatio ==
    ASSUME WordIsWide, NEW k \in Nat, NEW b, NEW z \in [Sides -> Int], NEW s \in Sides,
           Near(b, z, k)
    PROVE  Ratio(b, z, s) \in 0..((k + 1) * LN_2 - 1)
  <1> DEFINE a == Abs(z[s])  x == a * Word  d == b * Word  v == (x * Word) \div d
             top == (k + 1) * LN_2
  <1>1. Word \in Nat /\ Word > 1 /\ LN_2 \in 1..(Word - 1)
    BY WordAssumption, SeriesAssumption
  <1>2. /\ b \in Nat /\ b > 0 /\ 2 * b <= Word
        /\ a \in Nat /\ a < Word /\ a * Word < (k + 1) * LN_2 * b
    <2>1. b \in 1..MAX_B_PARAM /\ a <= MAX_POSITION /\ a * Word < (k + 1) * LN_2 * b
      BY DEF Near, InRange
    <2>2. a \in Nat /\ MAX_B_PARAM \in Nat /\ MAX_POSITION \in Nat
      BY CurveAssumption DEF Abs
    <2> HIDE DEF a
    <2> QED  BY <1>1, <2>1, <2>2 DEF WordIsWide
  <1>3. Ratio(b, z, s) = fp_div(x, d)  BY DEF Ratio, from_u64
  <1> HIDE DEF a
  <1>4. top \in Nat /\ a * Word < top * b  BY <1>1, <1>2, Z3
  <1> HIDE DEF top
  <1>5. x \in Nat /\ d \in Nat /\ d >= Word /\ Word * Word \in Nat
    BY <1>1, <1>2, Z3
  <1>6. x < Word * Word  BY <1>1, <1>2, Z3
  <1>7. 2 * d <= Word * Word
    <2>1. (2 * b) * Word <= Word * Word  BY <1>1, <1>2, Z3
    <2>2. 2 * d = (2 * b) * Word  BY <1>1, <1>2, Z3
    <2> QED  BY <2>1, <2>2
  <1>8. Hi(x) = a
    <2>1. Word * a <= x /\ x < Word * a + Word  BY <1>1, <1>2, Z3
    <2> QED  BY <1>1, <1>2, <1>5, <2>1, DivUnique DEF Hi
  <1>9. x * Word \in Nat  BY <1>1, <1>5, Z3
  <1>10. v \in Nat /\ d * v <= x * Word  BY <1>1, <1>5, <1>9, DivMod
  <1>11. Ratio(b, z, s) = v
    <2>1. x \in U128 /\ d \in U128 /\ d > 0 /\ Hi(x) < d
      BY <1>1, <1>2, <1>5, <1>6, <1>7, <1>8 DEF U128
    <2>2. ~ (2 * d > Word * Word)  BY <1>5, <1>7
    <2> HIDE DEF x, d
    <2> QED  BY <1>3, <2>1, <2>2, LongDivision DEF v
  <1> HIDE DEF v
  <1>12. b * v <= a * Word
    <2>1. d * v = (b * v) * Word /\ x * Word = (a * Word) * Word /\ b * v \in Nat /\ a * Word \in Nat
      BY <1>1, <1>2, <1>10, Z3
    <2> DEFINE l == b * v  r == a * Word
    <2>2. l \in Nat /\ r \in Nat /\ l * Word <= r * Word  BY <1>10, <2>1
    <2> HIDE DEF l, r
    <2>3. l <= r  BY <1>1, <2>2, Z3
    <2> QED  BY <2>3 DEF l, r
  <1>13. b * v < top * b
    <2>1. b * v \in Nat /\ a * Word \in Nat /\ top * b \in Nat  BY <1>1, <1>2, <1>4, <1>10, Z3
    <2> QED  BY <1>4, <1>12, <2>1
  <1>14. v < top
    <2>1. CASE v >= top
      <3>1. b * v >= top * b  BY <1>2, <1>4, <1>10, <2>1, Z3
      <3>2. b * v \in Nat /\ top * b \in Nat  BY <1>2, <1>4, <1>10, Z3
      <3> QED  BY <1>13, <3>1, <3>2
    <2> QED  BY <1>4, <1>10, <2>1
  <1> QED  BY <1>4, <1>10, <1>11, <1>14 DEF top

LEMMA NearWeight ==
    ASSUME WordIsWide, NEW k \in Nat, Carries(k), NEW b, NEW z \in [Sides -> Int],
           NEW s \in Sides, Near(b, z, k)
    PROVE  /\ 3 * 2^k \in Nat
           /\ Weight(b, z, s) \in (3 * 2^k + 1)..(3 * 2^k * Word - 1)
  <1> DEFINE x == Ratio(b, z, s)  c == 3 * 2^k  h == c * Word  w == Word * Word
             n == x \div LN_2  e == fp_exp(x)
  <1>1. /\ Word \in Nat /\ Word > 1 /\ One = Word /\ LN_2 \in 1..(Word - 1)
        /\ MAX_EXP_INPUT \in Nat
    BY WordAssumption, SeriesAssumption DEF One
  <1>2. /\ 2^k \in Nat /\ 2^k >= 1 /\ c \in Nat /\ c >= 3 /\ c * (c + 1) <= Word
    <2>1. 2^k \in Nat /\ 2^k \in 1..2^k /\ 3 * 2^k * (3 * 2^k + 1) <= Word  BY DEF Carries
    <2> QED  BY <2>1
  <1>c. c = 3 * 2^k  OBVIOUS
  <1> HIDE DEF c
  <1>3. x \in 0..((k + 1) * LN_2 - 1)  BY NearRatio
  <1>4. (k + 1) * LN_2 \in Nat /\ (k + 1) * LN_2 <= MAX_EXP_INPUT + 1  BY <1>1, Z3 DEF Carries
  <1>5. x \in 0..MAX_EXP_INPUT  BY <1>1, <1>3, <1>4
  <1> HIDE DEF x
  <1>6. n \in 0..k
    <2>1. n \in Nat /\ LN_2 * n <= x  BY <1>1, <1>3, DivMod
    <2> HIDE DEF n
    <2>2. CASE n >= k + 1
      <3>1. LN_2 * n >= (k + 1) * LN_2  BY <1>1, <2>1, <2>2, Z3
      <3>2. LN_2 * n \in Nat  BY <1>1, <2>1, Z3
      <3> QED  BY <1>3, <1>4, <2>1, <3>1, <3>2
    <2> QED  BY <2>1, <2>2
  <1> DEFINE p == Power(x)
  <1>7. p \in Nat /\ p >= 1 /\ p <= 2^k
    <2>1. p \in 1..2^k  BY <1>6 DEF Carries, Power, n
    <2> HIDE DEF p
    <2> QED  BY <1>2, <2>1
  <1>8. c * (c + 1) = c * c + c /\ c * c >= 3 * c  BY <1>2, Z3
  <1>9. 3 * p <= Word /\ 3 * p <= c /\ 2 * c <= Word /\ c < Word
    <2>1. c * c \in Nat  BY <1>2, Z3
    <2>2. 3 * p <= c  BY <1>2, <1>7, <1>c
    <2> HIDE DEF p
    <2> QED  BY <1>1, <1>2, <1>7, <1>8, <2>1, <2>2
  <1>10. e \in One..((3 * p) * One - 1)
    BY <1>5, <1>7, <1>9, ShiftFits
  <1> HIDE DEF e, p, n
  <1>11. e \in Word..(h - 1) /\ h \in Nat
    <2>1. (3 * p) * Word <= h /\ h \in Nat /\ (3 * p) * Word \in Nat  BY <1>1, <1>2, <1>7, <1>9, Z3
    <2> HIDE DEF h
    <2> QED  BY <1>1, <1>10, <2>1
  <1>12. 2 * h <= w /\ w \in Nat
    <2>1. 2 * h = (2 * c) * Word /\ (2 * c) * Word <= w  BY <1>1, <1>2, <1>9, Z3
    <2> QED  BY <1>1, <2>1, Z3
  <1>13. Weight(b, z, s) = Signed(z[s], e)
    <2>1. Exp(x) = e  BY <1>1, <1>5 DEF Exp, Err, e
    <2> QED  BY <2>1 DEF Weight, x
  <1>14. CASE z[s] >= 0
    <2>1. Weight(b, z, s) = e  BY <1>13, <1>14 DEF Signed
    <2>2. c + 1 <= Word  BY <1>1, <1>2, <1>9
    <2> QED  BY <1>1, <1>2, <1>11, <2>1, <2>2 DEF c, h
  <1>15. CASE z[s] < 0
    <2> HIDE DEF h, w
    <2>1. e \in Nat /\ e > 1 /\ 2 * e <= w /\ e < w  BY <1>1, <1>11, <1>12
    <2> DEFINE d == w \div e
    <2>2. d \in Nat /\ e * d <= w /\ w < e * d + e  BY <1>12, <2>1, DivMod
    <2> HIDE DEF d
    <2>3. Weight(b, z, s) = d
      <3>1. One \in U128 /\ e \in U128 /\ Hi(One) = 1 /\ 2 * e <= Word * Word
        <4>1. Word \div Word = 1  BY <1>1, DivUnique, Word * 1 = Word
        <4>2. Word < Word * Word  BY <1>1, Z3
        <4> QED  BY <1>1, <1>12, <2>1, <4>1, <4>2 DEF U128, Hi, w
      <3>2. ~ (2 * e > Word * Word)  BY <1>12, <2>1, <3>1 DEF w
      <3>3. fp_div(One, e) = d
        <4>1. One * Word = w  BY <1>1 DEF w
        <4> QED  BY <2>1, <3>1, <3>2, <4>1, LongDivision DEF d
      <3>4. e # Err  BY <2>1 DEF Err
      <3> QED  BY <1>13, <1>15, <3>3, <3>4 DEF Signed
    <2>4. d <= Word
      <3>1. CASE d >= Word + 1
        <4>1. e * d >= Word * (Word + 1)  BY <1>1, <1>11, <1>12, <2>1, <2>2, <3>1, Z3
        <4>2. Word * (Word + 1) = w + Word  BY <1>1, Z3 DEF w
        <4>3. e * d \in Nat  BY <2>1, <2>2, Z3
        <4> QED  BY <1>1, <1>12, <2>2, <4>1, <4>2, <4>3
      <3> QED  BY <1>1, <2>2, <3>1
    <2>5. d >= c + 1
      <3>1. CASE d <= c
        <4>1. e * d <= (h - 1) * c
          <5>1. e * d <= e * c /\ e * c <= (h - 1) * c
            BY <1>2, <1>11, <2>1, <2>2, <3>1, Z3
          <5>2. e * d \in Nat /\ e * c \in Nat /\ (h - 1) * c \in Int
            BY <1>2, <1>11, <2>1, <2>2, Z3
          <5> QED  BY <5>1, <5>2
        <4>2. (h - 1) * c + h <= (c * (c + 1)) * Word
          <5>1. (h - 1) * c + h = (c * (c + 1)) * Word - c  BY <1>1, <1>2, Z3 DEF h
          <5>2. (c * (c + 1)) * Word \in Nat  BY <1>1, <1>2, Z3
          <5> QED  BY <1>2, <5>1, <5>2
        <4>3. (c * (c + 1)) * Word <= w
          <5> DEFINE m == c * (c + 1)
          <5>1. m \in Nat /\ m <= Word  BY <1>2, Z3
          <5> HIDE DEF m
          <5>2. m * Word <= w  BY <1>1, <5>1, Z3 DEF w
          <5> QED  BY <5>2 DEF m
        <4>4. e * d \in Nat /\ (h - 1) * c \in Int /\ (c * (c + 1)) * Word \in Nat
          BY <1>1, <1>2, <1>11, <2>1, <2>2, Z3
        <4> QED  BY <1>11, <1>12, <2>1, <2>2, <4>1, <4>2, <4>3, <4>4
      <3> QED  BY <1>2, <2>2, <3>1
    <2>6. Word <= h - 1
      BY <1>1, <1>11
    <2> QED  BY <1>1, <1>2, <1>11, <2>2, <2>3, <2>4, <2>5, <2>6 DEF c, h
  <1> QED  BY <1>2, <1>14, <1>15 DEF c

\* Near zero a price exists and is strictly between nothing and one USDC.
LEMMA NearPrice ==
    ASSUME WordIsWide, NEW k \in Nat, Carries(k), NEW b, NEW z \in [Sides -> Int],
           Near(b, z, k)
    PROVE  lmsr_marginal_price(b, z) \in 1..(One - 1)
  <1> DEFINE y == Weight(b, z, "yes")  n == Weight(b, z, "no")  c == 3 * 2^k  t == y + n
             w == Word * Word  h == c * Word
  <1>1. Word \in Nat /\ Word > 1 /\ One = Word  BY WordAssumption DEF One
  <1>2. c \in Nat /\ y \in (c + 1)..(h - 1) /\ n \in (c + 1)..(h - 1)
    <2>1. "yes" \in Sides /\ "no" \in Sides  BY DEF Sides
    <2> QED  BY <2>1, NearWeight
  <1>3. c * (c + 1) <= Word  BY DEF Carries
  <1> HIDE DEF y, n, c
  <1>4. h \in Nat  BY <1>1, <1>2, Z3
  <1>5. c >= 3
    <2>1. 2^k \in Nat /\ 2^k \in 1..2^k  BY DEF Carries
    <2>2. c = 3 * 2^k  BY DEF c
    <2> QED  BY <2>1, <2>2
  <1>6. y \in Nat /\ n \in Nat /\ t \in Nat /\ t > 0 /\ n > 0 /\ y < t
    <2> HIDE DEF h
    <2> QED  BY <1>2, <1>4, <1>5
  <1>7. 4 * c <= Word
    <2>1. c * (c + 1) >= 4 * c  BY <1>2, <1>5, Z3
    <2>2. c * (c + 1) \in Nat  BY <1>2, Z3
    <2> QED  BY <1>1, <1>2, <1>3, <2>1, <2>2
  <1>8. 4 * h <= w /\ w \in Nat
    <2>1. 4 * h = (4 * c) * Word /\ (4 * c) * Word <= w /\ w \in Nat  BY <1>1, <1>2, <1>7, Z3
    <2> QED  BY <2>1
  <1>9. 2 * t <= w /\ t < w
    <2>1. t < 2 * h
      <3> HIDE DEF h
      <3> QED  BY <1>2, <1>4, <1>6
    <2> HIDE DEF h, w, t
    <2> QED  BY <1>4, <1>6, <1>8, <2>1
  <1>10. y \in U128 /\ n \in U128 /\ t \in U128  BY <1>6, <1>8, <1>9 DEF U128, w
  <1>11. Hi(y) < t
    <2>1. Hi(y) \in Nat /\ Lo(y) \in Nat /\ y = Word * Hi(y) + Lo(y)  BY <1>10, Halves
    <2>2. \A i \in Nat : Word * i >= i /\ Word * i \in Nat  BY <1>1, Z3
    <2> QED  BY <1>1, <1>6, <2>1, <2>2
  <1> DEFINE p == (y * Word) \div t
  <1>12. lmsr_marginal_price(b, z) = p
    <2>1. lmsr_marginal_price(b, z) = Odds(y, n)  BY DEF Near, lmsr_marginal_price, y, n
    <2>2. Odds(y, n) = fp_div(y, t)  BY <1>6, <1>10 DEF Odds, Err
    <2>3. ~ (2 * t > Word * Word)  BY <1>6, <1>8, <1>9 DEF w
    <2> HIDE DEF t
    <2> QED  BY <1>6, <1>10, <1>11, <2>1, <2>2, <2>3, LongDivision
  <1> DEFINE m == y * Word
  <1>13. m \in Nat  BY <1>1, <1>6, Z3
  <1>14. p \in Nat /\ t * p <= m /\ m < t * p + t
    BY <1>6, <1>13, DivMod
  <1>15. p = m \div t  OBVIOUS
  <1>16. m >= t
    <2>1. m = y * (Word - 1) + y /\ y * (Word - 1) \in Nat  BY <1>1, <1>6, Z3
    <2>2. y * (Word - 1) >= (c + 1) * (Word - 1)  BY <1>1, <1>2, <1>6, Z3
    <2>3. (c + 1) * (Word - 1) = h + Word - c - 1  BY <1>1, <1>2, Z3
    <2>4. (c + 1) * (Word - 1) \in Int  BY <1>1, <1>2, Z3
    <2> HIDE DEF h, m
    <2> QED  BY <1>1, <1>2, <1>4, <1>6, <1>7, <2>1, <2>2, <2>3, <2>4
  <1>17. m < t * Word
    <2>1. t * Word = m + n * Word /\ n * Word > 0  BY <1>1, <1>6, Z3
    <2> HIDE DEF m
    <2>2. n * Word \in Nat  BY <1>1, <1>6, Z3
    <2> QED  BY <1>13, <2>1, <2>2
  <1> HIDE DEF p, m, t
  <1>18. p # 0
    <2>1. t * 0 = 0  BY <1>6
    <2> QED  BY <1>6, <1>13, <1>14, <1>16, <2>1
  <1>19. p < Word
    <2>1. CASE p >= Word
      <3>1. t * p >= t * Word  BY <1>1, <1>6, <1>14, <2>1, Z3
      <3>2. t * p \in Nat /\ t * Word \in Nat  BY <1>1, <1>6, <1>14, Z3
      <3> QED  BY <1>13, <1>14, <1>17, <3>1, <3>2
    <2> QED  BY <1>1, <1>14, <2>1
  <1> QED  BY <1>1, <1>12, <1>14, <1>18, <1>19

\* At every moment both sides have a price strictly between nothing and one USDC, or a
\* position is far from zero: more than k + 1 times ln(2) times the parameter, where
\* half a number carries 2^k squared ninefold.  In the program that is beyond 21 times
\* the parameter.  Out there a price may vanish or be an error, but it is still a part
\* of one USDC, and what is left of it for the other side is more than nothing: for any
\* parameter, any width of the word and any number of trades (lmsr_marginal_price).
THEOREM PricesStayOdds == Spec => []PricesAreOdds
  <1>1. Books => PricesAreOdds
    <2> SUFFICES ASSUME Books PROVE PricesAreOdds  OBVIOUS
    <2> DEFINE price == lmsr_marginal_price(LmsrB, q)
    <2>1. q \in [Sides -> Int] /\ Reach \in Nat  BY PoolAssumption DEF Books, TypeOK
    <2>2. Near(LmsrB, q, Reach) => price \in 1..(One - 1)
      BY <2>1, NearPrice, WidthAssumption
    <2>3. price # Err => price \in 0..(One - 1)
      <3>1. One \in Nat  BY WordAssumption DEF One
      <3>2. price # Err => price \in 0..One /\ price < One
        BY <2>1, PricesAreParts, WidthAssumption
      <3> QED  BY <3>1, <3>2
    <2> QED  BY <2>2, <2>3 DEF PricesAreOdds
  <1> QED  BY <1>1, PositionsAreExplained, PTL DEF Books
=============================================================================
