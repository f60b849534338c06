------------------------- MODULE LpPositions_proofs -------------------------
(***************************************************************************)
(* Theorems about LpPositions, for any finite set of LPs, precision, rates *)
(* and amounts.  The invariant behind the fees of one LP is that no mark is *)
(* ahead of cum and that what a position was paid and is due stays within   *)
(* what its shares earned (PositionsInv).  Behind the pot it is that the     *)
(* earnings of all positions since their marks, added up, stay within the   *)
(* pot times the precision (FeesInv); the lemmas on sums that it needs are   *)
(* proved first, by induction over sets of LPs.                              *)
(***************************************************************************)
EXTENDS LpPositions, FiniteSetTheorems, TLAPS

LEMMA DivisionFloors ==
  ASSUME NEW a \in Nat, NEW d \in Nat \ {0}
  PROVE  /\ a \div d \in Nat
         /\ d * (a \div d) <= a
         /\ a < d * (a \div d) + d
  BY SMT

LEMMA DivisionBelow ==
  ASSUME NEW d \in Nat \ {0}, NEW q \in Int, NEW x \in Int, d * q <= d * x
  PROVE  q <= x
  <1> SUFFICES ASSUME q > x PROVE FALSE
    OBVIOUS
  <1>1. q - x >= 1
    OBVIOUS
  <1>2. d * (q - x) >= d
    BY <1>1
  <1> QED
    BY <1>2

LEMMA DivisionMonotone ==
  ASSUME NEW a \in Nat, NEW b \in Nat, NEW d \in Nat \ {0}, a <= b
  PROVE  a \div d <= b \div d
  <1> DEFINE p == a \div d
             q == b \div d
  <1>1. p \in Nat /\ q \in Nat /\ d * p <= a /\ b < d * q + d
    BY DivisionFloors
  <1> HIDE DEF p, q
  <1>2. d * p < d * (q + 1)
    BY <1>1
  <1>3. d * p <= d * (q + 1) /\ d * p # d * (q + 1)
    BY <1>1, <1>2
  <1>4. p <= q + 1 /\ p # q + 1
    BY <1>1, <1>3, DivisionBelow
  <1> QED
    BY <1>1, <1>4 DEF p, q

\* A part of x is no more than x, and less when it is not the whole.
LEMMA PortionBound ==
  ASSUME NEW x \in Nat, NEW d \in Nat \ {0}, NEW n \in 0 .. d
  PROVE  /\ Portion(x, n, d) \in 0 .. x
         /\ x > 0 /\ n < d => Portion(x, n, d) < x
  <1> DEFINE q == (x * n) \div d
  <1>1. x * n \in Nat /\ x * n <= d * x
    OBVIOUS
  <1>2. q \in Nat /\ d * q <= x * n
    BY <1>1, DivisionFloors
  <1>3. d * q <= d * x
    BY <1>1, <1>2
  <1>4. q <= x
    BY <1>2, <1>3, DivisionBelow
  <1>5. ASSUME x > 0, n < d, q = x PROVE FALSE
    <2>1. x * n <= x * (d - 1)
      BY <1>5
    <2>2. x * (d - 1) = d * x - x
      OBVIOUS
    <2> QED
      BY <1>1, <1>2, <1>5, <2>1, <2>2
  <1> QED
    BY <1>2, <1>4, <1>5 DEF Portion

LEMMA PortionNat ==
  ASSUME NEW x \in Nat, NEW n \in Nat, NEW d \in Nat \ {0}
  PROVE  Portion(x, n, d) \in Nat
  BY x * n \in Nat, DivisionFloors DEF Portion

LEMMA CompensationBound ==
  ASSUME TypeOK, NEW p \in Nat, NEW v \in Nat
  PROVE  Compensation(p, v) \in 0 .. Lesser(balance, contribution)
  <1>1. v < p => p - v \in Nat
    OBVIOUS
  <1>2. MaxCover \in Nat /\ BPS \in Nat \ {0}
    BY PositionsAssumption
  <1>3. v < p => Portion(p - v, MaxCover, BPS) \in Nat
    BY <1>1, <1>2, PortionNat
  <1> QED
    BY <1>3 DEF Compensation, Lesser, TypeOK

-----------------------------------------------------------------------------

\* No mark is ahead of cum, no position got or is due more than its shares
\* earned, and a market without shares has no position with shares.
PositionsInv ==
  /\ TypeOK
  /\ total = 0 => \A lp \in LPs : shares[lp] = 0
  /\ \A lp \in LPs :
       /\ mark[lp] <= cum
       /\ Precision * claimed[lp] + shares[lp] * (cum - mark[lp]) <= accrued[lp]

LEMMA InvInit == Init => PositionsInv
  <1> SUFFICES ASSUME Init PROVE PositionsInv
    OBVIOUS
  <1>z. [lp \in LPs |-> 0] \in [LPs -> Nat]
    OBVIOUS
  <1>1. TypeOK
    <2>1. {shares, mark, invested, claimed, accrued} \subseteq [LPs -> Nat]
      BY <1>z DEF Init
    <2>2. {total, cum, pot, contribution, others, balance} \subseteq Nat
      BY DEF Init
    <2> QED
      BY <2>1, <2>2 DEF Init, TypeOK
  <1>2. ASSUME NEW lp \in LPs
        PROVE  /\ mark[lp] = 0 /\ cum = 0 /\ shares[lp] = 0
               /\ claimed[lp] = 0 /\ accrued[lp] = 0
    BY DEF Init
  <1>3. Precision * 0 + 0 * (0 - 0) <= 0
    BY PositionsAssumption
  <1> QED
    BY <1>1, <1>2, <1>3 DEF PositionsInv

LEMMA DueBound ==
  ASSUME PositionsInv, NEW lp \in LPs
  PROVE  /\ Due(lp) \in Nat
         /\ Precision * Due(lp) <= shares[lp] * (cum - mark[lp])
  <1>1. shares[lp] \in Nat /\ cum - mark[lp] \in Nat
    BY DEF PositionsInv, TypeOK
  <1>2. shares[lp] * (cum - mark[lp]) \in Nat /\ Precision \in Nat \ {0}
    BY <1>1, PositionsAssumption
  <1> QED
    BY <1>2, DivisionFloors DEF Due

LEMMA PerShareNat ==
  ASSUME TypeOK, NEW f \in LpFees, total > 0
  PROVE  PerShare(f) \in Nat
  <1>1. f \in Nat /\ Precision \in Nat /\ total \in Nat \ {0}
    BY PositionsAssumption DEF TypeOK
  <1> QED
    BY <1>1, PortionNat DEF PerShare

LEMMA TradeStep ==
  ASSUME PositionsInv, NEW f \in LpFees, NEW c \in Allocations, Trade(f, c)
  PROVE  PositionsInv'
  <1> DEFINE rise == IF total > 0 /\ f > 0 THEN PerShare(f) ELSE 0
  <1>1. f \in Nat /\ c \in Nat /\ Precision \in Nat \ {0}
    BY PositionsAssumption
  <1>2. rise \in Nat
    BY PerShareNat DEF PositionsInv
  <1>3. /\ cum' = cum + rise
        /\ accrued' = [lp \in LPs |-> accrued[lp] + shares[lp] * rise]
        /\ UNCHANGED <<shares, mark, invested, total, claimed, others,
                       reconfigured>>
        /\ pot' = pot + f /\ contribution' = contribution + c
        /\ balance' = balance + c
    BY DEF Trade, positions
  <1> HIDE DEF rise
  <1>r. \A lp \in LPs : accrued[lp] + shares[lp] * rise \in Nat
    BY <1>2 DEF PositionsInv, TypeOK
  <1>4. TypeOK'
    BY <1>1, <1>2, <1>3, <1>r DEF PositionsInv, TypeOK
  <1>5. ASSUME NEW lp \in LPs
        PROVE  /\ mark'[lp] <= cum'
               /\ Precision * claimed'[lp] + shares'[lp] * (cum' - mark'[lp])
                    <= accrued'[lp]
    <2> DEFINE n == shares[lp]
               m == mark[lp]
               paid == Precision * claimed[lp]
    <2>1. n \in Nat /\ m \in Nat /\ paid \in Nat /\ cum \in Nat
            /\ accrued[lp] \in Nat
      BY <1>1 DEF PositionsInv, TypeOK
    <2>2. m <= cum /\ paid + n * (cum - m) <= accrued[lp]
      BY DEF PositionsInv
    <2>3. accrued'[lp] = accrued[lp] + n * rise
      BY <1>3
    <2> HIDE DEF n, m, paid
    <2>4. n * (cum + rise - m) = n * (cum - m) + n * rise
      BY <1>2, <2>1
    <2>5. n * (cum - m) \in Int /\ n * rise \in Int
      BY <1>2, <2>1
    <2>6. paid + n * (cum + rise - m) <= accrued[lp] + n * rise
      BY <2>1, <2>2, <2>4, <2>5
    <2> QED
      BY <1>2, <1>3, <2>1, <2>2, <2>3, <2>6 DEF n, m, paid
  <1> QED
    BY <1>3, <1>4, <1>5 DEF PositionsInv

LEMMA ClaimStep ==
  ASSUME PositionsInv, NEW lp \in LPs, ClaimLpFees(lp)
  PROVE  PositionsInv'
  <1>1. Precision \in Nat \ {0}
    BY PositionsAssumption
  <1>2. Due(lp) \in Nat /\ Precision * Due(lp) <= shares[lp] * (cum - mark[lp])
    BY DueBound
  <1>3. TypeOK'
    BY <1>2 DEF ClaimLpFees, PositionsInv, TypeOK, insurance
  <1>4. ASSUME NEW k \in LPs
        PROVE  /\ mark'[k] <= cum'
               /\ Precision * claimed'[k] + shares'[k] * (cum' - mark'[k])
                    <= accrued'[k]
    <2>1. CASE k = lp
      <3>1. mark'[k] = cum /\ cum' = cum /\ shares'[k] \in Nat
              /\ claimed'[k] = claimed[k] + Due(k) /\ accrued'[k] = accrued[k]
        BY <2>1 DEF ClaimLpFees, PositionsInv, TypeOK
      <3>2. claimed[k] \in Nat /\ accrued[k] \in Nat /\ cum \in Nat
              /\ shares[k] * (cum - mark[k]) \in Int
        BY DEF PositionsInv, TypeOK
      <3>3. Precision * claimed[k] + shares[k] * (cum - mark[k]) <= accrued[k]
        BY DEF PositionsInv
      <3>4. shares'[k] * (cum' - mark'[k]) = 0
        BY <3>1, <3>2
      <3> DEFINE d == Due(k)
      <3>5. d \in Nat /\ Precision * d <= shares[k] * (cum - mark[k])
        BY <1>2, <2>1
      <3> HIDE DEF d
      <3>6. Precision * (claimed[k] + d) = Precision * claimed[k] + Precision * d
        BY <1>1, <3>2, <3>5
      <3>7. Precision * claimed[k] \in Int /\ Precision * d \in Int
        BY <1>1, <3>2, <3>5
      <3>8. Precision * (claimed[k] + d) <= accrued[k]
        BY <3>2, <3>3, <3>5, <3>6, <3>7
      <3>9. Precision * claimed'[k] <= accrued'[k]
        BY <3>1, <3>8 DEF d
      <3>10. Precision * claimed'[k] \in Int
        BY <1>1, <1>3 DEF TypeOK
      <3> QED
        BY <3>1, <3>2, <3>4, <3>9, <3>10
    <2>2. CASE k # lp
      BY <2>2 DEF ClaimLpFees, PositionsInv, TypeOK
    <2> QED
      BY <2>1, <2>2
  <1> QED
    BY <1>3, <1>4 DEF PositionsInv, ClaimLpFees

\* A position whose mark moves up to cum, or whose shares shrink, is due less.
LEMMA FewerDues ==
  ASSUME PositionsInv, TypeOK', UNCHANGED <<cum, claimed, accrued>>,
         total' = 0 => \A lp \in LPs : shares'[lp] = 0,
         \A lp \in LPs : \/ mark'[lp] = cum
                         \/ mark'[lp] = mark[lp] /\ shares'[lp] <= shares[lp]
  PROVE  PositionsInv'
  <1> SUFFICES ASSUME NEW lp \in LPs
               PROVE  /\ mark'[lp] <= cum'
                      /\ Precision * claimed'[lp]
                           + shares'[lp] * (cum' - mark'[lp]) <= accrued'[lp]
    BY DEF PositionsInv
  <1> DEFINE n == shares[lp]
             k == shares'[lp]
             m == mark[lp]
             paid == Precision * claimed[lp]
  <1>1. n \in Nat /\ k \in Nat /\ m \in Nat /\ cum \in Nat /\ paid \in Nat
          /\ accrued[lp] \in Nat
    BY PositionsAssumption DEF PositionsInv, TypeOK
  <1>2. m <= cum /\ paid + n * (cum - m) <= accrued[lp]
    BY DEF PositionsInv
  <1> HIDE DEF n, k, m, paid
  <1>3. n * (cum - m) \in Nat /\ k * (cum - m) \in Nat /\ k * (cum - cum) = 0
    BY <1>1, <1>2
  <1>4. CASE mark'[lp] = cum
    <2>1. paid + k * (cum - cum) <= accrued[lp]
      BY <1>1, <1>2, <1>3
    <2> QED
      BY <1>1, <1>4, <2>1 DEF k, paid
  <1>5. CASE mark'[lp] = m /\ k <= n
    <2>1. k * (cum - m) <= n * (cum - m)
      BY <1>1, <1>2, <1>5
    <2>2. paid + k * (cum - m) <= accrued[lp]
      BY <1>1, <1>2, <1>3, <2>1
    <2> QED
      BY <1>2, <1>5, <2>2 DEF k, paid
  <1> QED
    BY <1>4, <1>5 DEF n, k, m

LEMMA DepositStep ==
  ASSUME PositionsInv, NEW lp \in LPs, NEW a \in Stakes,
         \/ SeedPool(lp, a)
         \/ \E s \in Issues \cup {Monus(a, MinLiquidity)} : AddLiquidity(lp, a, s)
  PROVE  PositionsInv'
  <1>1. a \in Nat /\ Monus(a, MinLiquidity) \in Nat /\ Issues \subseteq Nat
    BY PositionsAssumption DEF Monus
  <1>2. CASE SeedPool(lp, a)
    <2>1. shares[lp] = 0
      BY <1>2 DEF SeedPool, PositionsInv
    <2> QED
      BY <1>1, <1>2, <2>1, FewerDues
         DEF SeedPool, Marked, PositionsInv, TypeOK, fees, insurance
  <1>4. ASSUME NEW s \in Issues \cup {Monus(a, MinLiquidity)},
               AddLiquidity(lp, a, s)
        PROVE  PositionsInv'
    <2>1. s \in Nat
      BY <1>1
    <2>2. /\ total' = total + s /\ shares' = [shares EXCEPT ![lp] = @ + s]
          /\ invested' = [invested EXCEPT ![lp] = @ + a]
          /\ mark' = [mark EXCEPT ![lp] = cum]
          /\ UNCHANGED <<cum, pot, claimed, accrued, contribution, others,
                         balance, reconfigured>>
      BY <1>4 DEF AddLiquidity, Marked, fees, insurance
    <2>3. TypeOK'
      BY <1>1, <2>1, <2>2 DEF PositionsInv, TypeOK
    <2>4. total' = 0 => \A k \in LPs : shares'[k] = 0
      BY <2>1, <2>2 DEF PositionsInv, TypeOK
    <2>5. \A k \in LPs : \/ mark'[k] = cum
                         \/ mark'[k] = mark[k] /\ shares'[k] <= shares[k]
      BY <2>2 DEF PositionsInv, TypeOK
    <2> QED
      BY <2>2, <2>3, <2>4, <2>5, FewerDues
  <1> QED
    BY <1>2, <1>4

LEMMA ExitParts ==
  ASSUME PositionsInv, NEW lp \in LPs, NEW n \in 1 .. shares[lp],
         NEW v \in Proceeds, WithdrawLiquidity(lp, n, v)
  PROVE  /\ n < total
         /\ Portion(invested[lp], n, total) \in 0 .. invested[lp]
         /\ Compensation(Portion(invested[lp], n, total), v)
              \in 0 .. Lesser(balance, contribution)
  <1>1. n \in Nat \ {0} /\ total \in Nat /\ invested[lp] \in Nat
    BY DEF PositionsInv, TypeOK
  <1>2. n < total
    <2>1. ExitCap \in 0 .. BPS /\ ExitCap < BPS /\ BPS \in Nat \ {0}
      BY PositionsAssumption
    <2>2. /\ Portion(total, ExitCap, BPS) \in 0 .. total
          /\ total > 0 => Portion(total, ExitCap, BPS) < total
      BY <1>1, <2>1, PortionBound
    <2> QED
      BY <1>1, <2>2 DEF WithdrawLiquidity
  <1>3. Portion(invested[lp], n, total) \in 0 .. invested[lp]
    <2>1. n \in 0 .. total /\ total \in Nat \ {0}
      BY <1>1, <1>2
    <2> QED
      BY <1>1, <2>1, PortionBound
  <1> QED
    BY <1>1, <1>2, <1>3, CompensationBound, PositionsAssumption DEF PositionsInv

LEMMA ExitStep ==
  ASSUME PositionsInv, NEW lp \in LPs, NEW n \in 1 .. shares[lp],
         NEW v \in Proceeds, WithdrawLiquidity(lp, n, v)
  PROVE  PositionsInv'
  <1> DEFINE part == Portion(invested[lp], n, total)
             comp == Compensation(part, v)
  <1>1. n \in Nat \ {0} /\ total \in Nat /\ invested[lp] \in Nat
          /\ shares[lp] \in Nat
    BY DEF PositionsInv, TypeOK
  <1>2. n < total /\ part \in 0 .. invested[lp]
          /\ comp \in 0 .. Lesser(balance, contribution)
    BY ExitParts
  <1>5. /\ shares' = [shares EXCEPT ![lp] = @ - n]
        /\ total' = total - n
        /\ invested' = [invested EXCEPT ![lp] = @ - part]
        /\ contribution' = contribution - comp
        /\ balance' = balance - comp
        /\ UNCHANGED <<mark, cum, pot, claimed, accrued, others, reconfigured>>
    BY DEF WithdrawLiquidity, Settle, fees
  <1> HIDE DEF part, comp
  <1>6. TypeOK'
    BY <1>1, <1>2, <1>5 DEF PositionsInv, TypeOK, Lesser
  <1>7. \A k \in LPs : mark'[k] = mark[k] /\ shares'[k] <= shares[k]
    BY <1>1, <1>5 DEF PositionsInv, TypeOK
  <1>8. total' # 0
    BY <1>1, <1>2, <1>5
  <1> QED
    BY <1>5, <1>6, <1>7, <1>8, FewerDues

LEMMA InvStep == PositionsInv /\ [Next]_vars => PositionsInv'
  <1> SUFFICES ASSUME PositionsInv, [Next]_vars PROVE PositionsInv'
    OBVIOUS
  <1>1. ASSUME NEW f \in LpFees, NEW c \in Allocations, Trade(f, c)
        PROVE  PositionsInv'
    BY <1>1, TradeStep
  <1>2. ASSUME NEW c \in Allocations,
               OtherMarketTrades(c) \/ OtherMarketCompensates(c)
        PROVE  PositionsInv'
    <2>1. UNCHANGED <<cum, claimed, accrued, mark, shares, invested, total, pot>>
      BY <1>2 DEF OtherMarketTrades, OtherMarketCompensates, positions, fees
    <2>2. others' \in Nat /\ balance' \in Nat
            /\ UNCHANGED <<contribution, reconfigured>>
      BY <1>2, PositionsAssumption
         DEF OtherMarketTrades, OtherMarketCompensates, Lesser, PositionsInv,
             TypeOK
    <2>3. TypeOK'
      BY <2>1, <2>2 DEF PositionsInv, TypeOK
    <2> QED
      BY <2>1, <2>3 DEF PositionsInv
  <1>3. ASSUME NEW lp \in LPs, ClaimLpFees(lp)
        PROVE  PositionsInv'
    BY <1>3, ClaimStep
  <1>4. ASSUME NEW lp \in LPs, NEW a \in Stakes,
               \/ SeedPool(lp, a)
               \/ \E s \in Issues \cup {Monus(a, MinLiquidity)} :
                    AddLiquidity(lp, a, s)
        PROVE  PositionsInv'
    BY <1>4, DepositStep
  <1>5. ASSUME NEW lp \in LPs, NEW n \in 1 .. shares[lp], NEW v \in Proceeds,
               WithdrawLiquidity(lp, n, v)
        PROVE  PositionsInv'
    BY <1>5, ExitStep
  <1>6. ASSUME NEW b \in Allocations, Configure(b)
        PROVE  PositionsInv'
    BY <1>6, PositionsAssumption
       DEF Configure, PositionsInv, TypeOK, positions, fees
  <1>7. CASE UNCHANGED vars
    BY <1>7 DEF vars, positions, fees, insurance, PositionsInv, TypeOK
  <1> QED
    BY <1>1, <1>2, <1>3, <1>4, <1>5, <1>6, <1>7 DEF Next

\* The fields of the positions keep their types.
THEOREM TypeCorrect == Spec => []TypeOK
  <1>1. PositionsInv => TypeOK
    BY DEF PositionsInv
  <1> QED
    BY <1>1, InvInit, InvStep, PTL DEF Spec

\* However it claims, deposits and withdraws, and however the shares and the
\* fees round, an LP is never paid more than its shares earned.
THEOREM NobodyOverpaid == Spec => []NeverOverpaid
  <1>1. PositionsInv => NeverOverpaid
    <2> SUFFICES ASSUME PositionsInv, NEW lp \in LPs
                 PROVE  Precision * claimed[lp] <= accrued[lp]
      BY DEF NeverOverpaid
    <2> DEFINE paid == Precision * claimed[lp]
               due == shares[lp] * (cum - mark[lp])
    <2>1. paid \in Nat /\ accrued[lp] \in Nat
      BY PositionsAssumption DEF PositionsInv, TypeOK
    <2>2. due \in Nat
      BY DEF PositionsInv, TypeOK
    <2>3. paid + due <= accrued[lp]
      BY DEF PositionsInv
    <2> HIDE DEF paid, due
    <2>4. paid <= accrued[lp]
      BY <2>1, <2>2, <2>3
    <2> QED
      BY <2>4 DEF paid
  <1> QED
    BY <1>1, InvInit, InvStep, PTL DEF Spec

-----------------------------------------------------------------------------

\* Of the trades, claims and deposits of others a position's due never shrinks.
LEMMA DueGrows ==
  ASSUME PositionsInv, NEW lp \in LPs, NEW rise \in Nat,
         shares'[lp] = shares[lp], mark'[lp] = mark[lp], cum' = cum + rise
  PROVE  ~(Due(lp)' < Due(lp))
  <1> DEFINE n == shares[lp]
             d == cum - mark[lp]
  <1>1. n \in Nat /\ d \in Nat /\ cum' - mark'[lp] = d + rise
    BY DEF PositionsInv, TypeOK
  <1> HIDE DEF n, d
  <1>2. n * (d + rise) = n * d + n * rise /\ n * d \in Nat /\ n * rise \in Nat
    BY <1>1
  <1>3. (n * d) \div Precision <= (n * (d + rise)) \div Precision
    BY <1>2, DivisionMonotone, PositionsAssumption
  <1>4. Due(lp) = (n * d) \div Precision
    BY DEF Due, n, d
  <1>5. Due(lp)' = (n * (d + rise)) \div Precision
    BY <1>1 DEF Due, n
  <1>6. (n * d) \div Precision \in Nat /\ (n * (d + rise)) \div Precision \in Nat
    BY <1>2, DivisionFloors, PositionsAssumption
  <1> QED
    BY <1>3, <1>4, <1>5, <1>6

KeepsDue(lp) ==
  Due(lp)' < Due(lp) =>
    \/ claimed'[lp] = claimed[lp] + Due(lp)
    \/ shares'[lp] # shares[lp] \/ invested'[lp] # invested[lp]

LEMMA DuesStep ==
  ASSUME PositionsInv, Next, NEW lp \in LPs
  PROVE  KeepsDue(lp)
  <1>t. TypeOK
    BY DEF PositionsInv
  <1>0. CASE UNCHANGED <<shares, mark, cum>>
    <2>1. shares'[lp] = shares[lp] /\ mark'[lp] = mark[lp] /\ cum' = cum + 0
      BY <1>0, <1>t DEF TypeOK
    <2> QED
      BY <2>1, DueGrows DEF KeepsDue
  <1>1. ASSUME NEW f \in LpFees, NEW c \in Allocations, Trade(f, c)
        PROVE  KeepsDue(lp)
    <2> DEFINE rise == IF total > 0 /\ f > 0 THEN PerShare(f) ELSE 0
    <2>3. rise \in Nat
      BY <1>t, PerShareNat
    <2>4. cum' = cum + rise /\ shares' = shares /\ mark' = mark
      BY <1>1 DEF Trade, positions
    <2> HIDE DEF rise
    <2> QED
      BY <2>3, <2>4, DueGrows DEF KeepsDue
  <1>2. ASSUME NEW k \in LPs, ClaimLpFees(k)
        PROVE  KeepsDue(lp)
    <2>1. CASE k = lp
      BY <1>2, <1>t, <2>1 DEF ClaimLpFees, KeepsDue, TypeOK
    <2>2. CASE k # lp
      BY <1>2, <1>t, <2>2, DueGrows DEF ClaimLpFees, KeepsDue, TypeOK
    <2> QED
      BY <2>1, <2>2
  <1>3. ASSUME NEW k \in LPs, NEW a \in Stakes, SeedPool(k, a)
        PROVE  KeepsDue(lp)
    <2>1. shares[lp] = 0
      BY <1>3 DEF SeedPool, PositionsInv
    <2>2. a > 0 /\ shares' = [shares EXCEPT ![k] = a] /\ cum' = cum
            /\ mark' = [mark EXCEPT ![k] = cum]
      BY <1>3 DEF SeedPool, Marked, PositionsInv, fees
    <2>3. CASE k = lp
      BY <1>t, <2>1, <2>2, <2>3 DEF KeepsDue, TypeOK
    <2>4. CASE k # lp
      BY <1>t, <2>2, <2>4, DueGrows DEF KeepsDue, TypeOK
    <2> QED
      BY <2>3, <2>4
  <1>4. ASSUME NEW k \in LPs, NEW a \in Stakes,
               NEW s \in Issues \cup {Monus(a, MinLiquidity)},
               AddLiquidity(k, a, s)
        PROVE  KeepsDue(lp)
    <2>1. a \in Nat \ {0}
      BY PositionsAssumption
    <2>2. /\ shares' = [shares EXCEPT ![k] = @ + s] /\ cum' = cum
          /\ invested' = [invested EXCEPT ![k] = @ + a]
          /\ mark' = [mark EXCEPT ![k] = cum]
      BY <1>4 DEF AddLiquidity, Marked, fees
    <2>3. CASE k = lp
      BY <1>t, <2>1, <2>2, <2>3 DEF KeepsDue, TypeOK
    <2>4. CASE k # lp
      BY <1>t, <2>2, <2>4, DueGrows DEF KeepsDue, TypeOK
    <2> QED
      BY <2>3, <2>4
  <1>5. ASSUME NEW k \in LPs, NEW n \in 1 .. shares[k], NEW v \in Proceeds,
               WithdrawLiquidity(k, n, v)
        PROVE  KeepsDue(lp)
    <2>1. /\ shares' = [shares EXCEPT ![k] = @ - n]
          /\ cum' = cum /\ mark' = mark /\ n \in Nat \ {0}
      BY <1>5, <1>t DEF WithdrawLiquidity, TypeOK, fees
    <2>2. CASE k = lp
      BY <1>t, <2>1, <2>2 DEF KeepsDue, TypeOK
    <2>3. CASE k # lp
      BY <1>t, <2>1, <2>3, DueGrows DEF KeepsDue, TypeOK
    <2> QED
      BY <2>2, <2>3
  <1>6. ASSUME NEW c \in Allocations,
               OtherMarketTrades(c) \/ OtherMarketCompensates(c) \/ Configure(c)
        PROVE  KeepsDue(lp)
    BY <1>0, <1>6 DEF OtherMarketTrades, OtherMarketCompensates, Configure,
                      positions, fees
  <1> QED
    BY <1>1, <1>2, <1>3, <1>4, <1>5, <1>6 DEF Next

\* Nobody else's step takes fees from an LP.
THEOREM DuesSafeFromOthers == Spec => OthersKeepDues
  <1>1. PositionsInv /\ [Next]_vars =>
          [\A lp \in LPs :
             Due(lp)' < Due(lp) =>
               \/ claimed'[lp] = claimed[lp] + Due(lp)
               \/ shares'[lp] # shares[lp] \/ invested'[lp] # invested[lp]]_vars
    BY DuesStep DEF KeepsDue
  <1> QED
    BY <1>1, InvInit, InvStep, PTL DEF Spec, OthersKeepDues

\* Two counters in two accounts, the market's and the configuration's, move
\* together in every handler but configure.
THEOREM InsuranceAccountsAgree == Spec => []InsuranceAgrees
  <1>1. Init => InsuranceAgrees
    BY DEF Init, InsuranceAgrees
  <1>2. PositionsInv /\ InsuranceAgrees /\ [Next]_vars => InsuranceAgrees'
    <2> SUFFICES ASSUME PositionsInv, InsuranceAgrees, [Next]_vars
                 PROVE  InsuranceAgrees'
      OBVIOUS
    <2>t. /\ contribution \in Nat /\ others \in Nat /\ balance \in Nat
          /\ reconfigured \in BOOLEAN /\ Allocations \subseteq Nat
      BY PositionsAssumption DEF PositionsInv, TypeOK
    <2>1. ASSUME NEW f \in LpFees, NEW c \in Allocations, Trade(f, c)
          PROVE  InsuranceAgrees'
      BY <2>1, <2>t DEF Trade, InsuranceAgrees
    <2>2. ASSUME NEW c \in Allocations,
                 OtherMarketTrades(c) \/ OtherMarketCompensates(c)
          PROVE  InsuranceAgrees'
      BY <2>2, <2>t DEF OtherMarketTrades, OtherMarketCompensates,
                        InsuranceAgrees
    <2>3. ASSUME NEW lp \in LPs, NEW n \in 1 .. shares[lp], NEW v \in Proceeds,
                 WithdrawLiquidity(lp, n, v)
          PROVE  InsuranceAgrees'
      <3> DEFINE part == Portion(invested[lp], n, total)
                 comp == Compensation(part, v)
      <3>1. /\ contribution' = contribution - comp
            /\ balance' = balance - comp
            /\ UNCHANGED <<others, reconfigured>>
        BY <2>3 DEF WithdrawLiquidity, Settle
      <3>2. comp \in Int
        BY <2>t, <2>3, ExitParts DEF Lesser
      <3> HIDE DEF comp
      <3> QED
        BY <2>t, <3>1, <3>2 DEF InsuranceAgrees
    <2>4. ASSUME NEW b \in Allocations, Configure(b)
          PROVE  InsuranceAgrees'
      BY <2>4 DEF Configure, InsuranceAgrees
    <2>5. CASE UNCHANGED <<contribution, others, balance, reconfigured>>
      BY <2>5 DEF InsuranceAgrees
    <2>6. \/ UNCHANGED <<contribution, others, balance, reconfigured>>
          \/ \E f \in LpFees, c \in Allocations : Trade(f, c)
          \/ \E c \in Allocations :
               OtherMarketTrades(c) \/ OtherMarketCompensates(c)
          \/ \E lp \in LPs : \E n \in 1 .. shares[lp], v \in Proceeds :
               WithdrawLiquidity(lp, n, v)
          \/ \E b \in Allocations : Configure(b)
      <3>1. CASE UNCHANGED vars
        BY <3>1 DEF vars, insurance
      <3>2. CASE \E lp \in LPs :
                   \/ ClaimLpFees(lp)
                   \/ \E a \in Stakes :
                        \/ SeedPool(lp, a)
                        \/ \E s \in Issues \cup {Monus(a, MinLiquidity)} :
                             AddLiquidity(lp, a, s)
        BY <3>2 DEF ClaimLpFees, SeedPool, AddLiquidity, insurance
      <3> QED
        BY <3>1, <3>2 DEF Next
    <2> QED
      BY <2>1, <2>2, <2>3, <2>4, <2>5, <2>6
  <1> QED
    BY <1>1, <1>2, InvInit, InvStep, PTL DEF Spec

-----------------------------------------------------------------------------
(* Sums over the LPs, as MapThenSumSet forms them: element by element, in    *)
(* the order that Some picks them.                                           *)

Some(s) == CHOOSE x \in s : TRUE
Rest(s) == s \ {Some(s)}

\* g is the sum of f over each set of LPs.
Tallies(g, f) ==
  g = [s \in SUBSET LPs |-> IF s = {} THEN 0 ELSE f[Some(s)] + g[Rest(s)]]
Tally(f) == CHOOSE g : Tallies(g, f)
Sum(f) == Tally(f)[LPs]

LEMMA SomeIsMember ==
  ASSUME NEW s \in SUBSET LPs, s # {}
  PROVE  Some(s) \in s /\ Some(s) \in LPs /\ Rest(s) \in SUBSET LPs /\ Some(s) \notin Rest(s)
  BY DEF Some, Rest

\* What holds of {} and of each set whose Rest it holds of holds of all.
LEMMA SetInduction ==
  ASSUME NEW P, {} \in P,
         \A s \in SUBSET LPs : s # {} /\ Rest(s) \in P => s \in P
  PROVE  \A s \in SUBSET LPs : s \in P
  <1> DEFINE B == {s \in SUBSET LPs : s \notin P}
  <1> SUFFICES ASSUME B # {} PROVE FALSE
    OBVIOUS
  <1>1. IsWellFoundedOn(StrictSubsetOrdering(LPs), SUBSET LPs)
    BY Providers, FS_StrictSubsetOrderingWellFounded, FS_FiniteSubsetsOfFinite
  <1>2. B \subseteq SUBSET LPs
    OBVIOUS
  <1>3. PICK s \in B : \A t \in B : ~ (<<t, s>> \in StrictSubsetOrdering(LPs))
    <2> HIDE DEF B
    <2> QED
      BY <1>1, <1>2, WFMin
  <1>4. s \in SUBSET LPs /\ s \notin P /\ s # {}
    OBVIOUS
  <1>5. Rest(s) \in SUBSET LPs /\ Rest(s) \subseteq s /\ Rest(s) # s
    BY <1>4, SomeIsMember DEF Rest
  <1>6. <<Rest(s), s>> \in StrictSubsetOrdering(LPs)
    BY <1>4, <1>5 DEF StrictSubsetOrdering
  <1>7. Rest(s) \in P
    BY <1>3, <1>5, <1>6
  <1> QED
    BY <1>4, <1>7

\* g sums f over the sets of at most n LPs.
Small(n) == {s \in SUBSET LPs : Cardinality(s) <= n}
TalliesSmall(g, f, n) ==
  /\ g \in [Small(n) -> Int]
  /\ \A s \in Small(n) : g[s] = IF s = {} THEN 0 ELSE f[Some(s)] + g[Rest(s)]

LEMMA RestIsSmaller ==
  ASSUME NEW n \in Nat, NEW s \in Small(n + 1), s # {}
  PROVE  Rest(s) \in Small(n)
  <1>1. s \in SUBSET LPs /\ IsFiniteSet(s) /\ Some(s) \in s
    BY Providers, FS_Subset, SomeIsMember DEF Small
  <1>2. Cardinality(Rest(s)) = Cardinality(s) - 1 /\ Cardinality(s) \in Nat
    BY <1>1, FS_RemoveElement, FS_CardinalityType DEF Rest
  <1> QED
    BY <1>1, <1>2 DEF Small, Rest

LEMMA SmallTallies ==
  ASSUME NEW f \in [LPs -> Int]
  PROVE  \A n \in Nat : \E g : TalliesSmall(g, f, n)
  <1> DEFINE B == {n \in Nat : ~ \E g : TalliesSmall(g, f, n)}
  <1> SUFFICES ASSUME B # {} PROVE FALSE
    OBVIOUS
  <1>1. B \subseteq Nat
    OBVIOUS
  <1>2. PICK n \in B : \A k \in B : ~ (<<k, n>> \in OpToRel(<, Nat))
    <2> HIDE DEF B
    <2> QED
      BY <1>1, NatLessThanWellFounded, WFMin
  <1>3. n \in Nat /\ \A k \in B : ~ (k < n)
    BY <1>2 DEF OpToRel
  <1>4. ~ \E g : TalliesSmall(g, f, n)
    BY <1>2
  <1>5. CASE n = 0
    <2> DEFINE g == [s \in Small(0) |-> 0]
    <2>1. \A s \in Small(0) : s = {}
      BY Providers, FS_Subset, FS_CardinalityType, FS_EmptySet DEF Small
    <2>2. TalliesSmall(g, f, 0)
      BY <2>1 DEF TalliesSmall
    <2> QED
      BY <1>4, <1>5, <2>2
  <1>6. CASE n # 0
    <2> DEFINE k == n - 1
    <2>1. k \in Nat /\ k + 1 = n /\ k < n
      BY <1>3, <1>6
    <2>2. PICK h : TalliesSmall(h, f, k)
      BY <1>3, <2>1
    <2> HIDE DEF k
    <2> DEFINE g == [s \in Small(n) |-> IF s = {} THEN 0 ELSE f[Some(s)] + h[Rest(s)]]
    <2>3. \A s \in Small(n) : s # {} => Rest(s) \in Small(k) /\ Some(s) \in LPs
      BY <2>1, RestIsSmaller, SomeIsMember DEF Small
    <2>4. \A s \in Small(k) : s \in Small(n) /\ g[s] = h[s]
      <3>1. \A s \in Small(k) : Cardinality(s) \in Nat
        BY Providers, FS_Subset, FS_CardinalityType DEF Small
      <3>2. Small(k) \subseteq Small(n)
        BY <1>3, <2>1, <3>1 DEF Small
      <3> QED
        BY <2>2, <3>2 DEF TalliesSmall
    <2>5. g \in [Small(n) -> Int]
      BY <2>2, <2>3 DEF TalliesSmall
    <2>6. \A s \in Small(n) : g[s] = IF s = {} THEN 0 ELSE f[Some(s)] + g[Rest(s)]
      BY <2>3, <2>4
    <2> QED
      BY <1>4, <2>5, <2>6 DEF TalliesSmall
  <1> QED
    BY <1>5, <1>6

LEMMA TallyIs ==
  ASSUME NEW f \in [LPs -> Int]
  PROVE  Tallies(Tally(f), f)
  <1> DEFINE n == Cardinality(LPs)
  <1>1. n \in Nat
    BY Providers, FS_CardinalityType
  <1>2. Small(n) = SUBSET LPs
    BY Providers, FS_Subset DEF Small
  <1>3. PICK g : TalliesSmall(g, f, n)
    BY <1>1, SmallTallies
  <1> HIDE DEF n
  <1>4. Tallies(g, f)
    BY <1>2, <1>3 DEF TalliesSmall, Tallies
  <1> QED
    BY <1>4 DEF Tally

LEMMA TallyStep ==
  ASSUME NEW f \in [LPs -> Int], NEW s \in SUBSET LPs
  PROVE  Tally(f)[s] = IF s = {} THEN 0 ELSE f[Some(s)] + Tally(f)[Rest(s)]
  <1> DEFINE g == Tally(f)
  <1>1. g = [t \in SUBSET LPs |-> IF t = {} THEN 0 ELSE f[Some(t)] + g[Rest(t)]]
    BY TallyIs DEF Tallies
  <1> HIDE DEF g
  <1>2. g[s] = IF s = {} THEN 0 ELSE f[Some(s)] + g[Rest(s)]
    BY <1>1
  <1> QED
    BY <1>2 DEF g

LEMMA TallyOfNone ==
  ASSUME NEW f \in [LPs -> Int]
  PROVE  {} \in SUBSET LPs /\ Tally(f)[{}] = 0
  <1>1. {} \in SUBSET LPs
    OBVIOUS
  <1> QED
    BY <1>1, TallyStep

\* Sums of integers are integers, and sums of naturals naturals.
LEMMA TallyType ==
  ASSUME NEW f \in [LPs -> Int]
  PROVE  /\ \A s \in SUBSET LPs : Tally(f)[s] \in Int
         /\ f \in [LPs -> Nat] => \A s \in SUBSET LPs : Tally(f)[s] \in Nat
  <1>1. ASSUME NEW N \in {Int, Nat}, f \in [LPs -> N]
        PROVE  \A s \in SUBSET LPs : Tally(f)[s] \in N
    <2> DEFINE P == {s \in SUBSET LPs : Tally(f)[s] \in N}
    <2>1. {} \in P
      BY TallyOfNone
    <2>2. \A s \in SUBSET LPs : s # {} /\ Rest(s) \in P => s \in P
      <3> SUFFICES ASSUME NEW s \in SUBSET LPs, s # {}, Rest(s) \in P PROVE Tally(f)[s] \in N
        OBVIOUS
      <3>1. f[Some(s)] \in N /\ Tally(f)[Rest(s)] \in N
        BY <1>1, SomeIsMember
      <3>2. Tally(f)[s] = f[Some(s)] + Tally(f)[Rest(s)]
        BY TallyStep
      <3> QED
        BY <3>1, <3>2
    <2>3. \A s \in SUBSET LPs : s \in P
      <3> HIDE DEF P
      <3> QED
        BY <2>1, <2>2, SetInduction
    <2> QED
      BY <2>3
  <1> QED
    BY <1>1

LEMMA SumType ==
  ASSUME NEW f \in [LPs -> Int]
  PROVE  Sum(f) \in Int /\ (f \in [LPs -> Nat] => Sum(f) \in Nat)
  BY TallyType DEF Sum

\* Sums are linear.
LEMMA SumLinear ==
  ASSUME NEW f \in [LPs -> Int], NEW g \in [LPs -> Int], NEW h \in [LPs -> Int],
         NEW r \in Int, \A lp \in LPs : h[lp] = f[lp] + r * g[lp]
  PROVE  Sum(h) = Sum(f) + r * Sum(g)
  <1> DEFINE P == {s \in SUBSET LPs : Tally(h)[s] = Tally(f)[s] + r * Tally(g)[s]}
  <1>1. {} \in P
    BY TallyOfNone
  <1>2. \A s \in SUBSET LPs : s # {} /\ Rest(s) \in P => s \in P
    <2> SUFFICES ASSUME NEW s \in SUBSET LPs, s # {}, Rest(s) \in P PROVE s \in P
      OBVIOUS
    <2>1. PICK x \in LPs, t \in SUBSET LPs : x = Some(s) /\ t = Rest(s)
      BY SomeIsMember
    <2>2. PICK a, b \in Int : a = f[x] /\ b = g[x]
      OBVIOUS
    <2>3. PICK c, d \in Int : c = Tally(f)[t] /\ d = Tally(g)[t]
      BY TallyType
    <2>4. Tally(f)[s] = a + c /\ Tally(g)[s] = b + d /\ Tally(h)[s] = h[x] + Tally(h)[t]
      BY <2>1, <2>2, <2>3, TallyStep
    <2>5. h[x] = a + r * b /\ Tally(h)[t] = c + r * d
      BY <2>1, <2>2, <2>3
    <2>6. (a + r * b) + (c + r * d) = (a + c) + r * (b + d)
      BY SMT
    <2> QED
      BY <2>4, <2>5, <2>6
  <1>3. \A s \in SUBSET LPs : s \in P
    <2> HIDE DEF P
    <2> QED
      BY <1>1, <1>2, SetInduction
  <1> QED
    BY <1>3 DEF Sum

\* A function that is 0 but for one LP sums to its value there.
LEMMA SumOfOne ==
  ASSUME NEW f \in [LPs -> Int], NEW lp \in LPs, \A x \in LPs : x # lp => f[x] = 0
  PROVE  Sum(f) = f[lp]
  <1> DEFINE P == {s \in SUBSET LPs : Tally(f)[s] = IF lp \in s THEN f[lp] ELSE 0}
  <1>1. {} \in P
    BY TallyOfNone
  <1>2. \A s \in SUBSET LPs : s # {} /\ Rest(s) \in P => s \in P
    <2> SUFFICES ASSUME NEW s \in SUBSET LPs, s # {}, Rest(s) \in P PROVE s \in P
      OBVIOUS
    <2>1. PICK x \in LPs : x = Some(s) /\ x \in s /\ Rest(s) = s \ {x}
      BY SomeIsMember DEF Rest
    <2>2. Tally(f)[s] = f[x] + IF lp \in s \ {x} THEN f[lp] ELSE 0
      BY <2>1, TallyStep
    <2>3. f[x] \in Int /\ f[lp] \in Int
      OBVIOUS
    <2> QED
      BY <2>1, <2>2, <2>3
  <1>3. \A s \in SUBSET LPs : s \in P
    <2> HIDE DEF P
    <2> QED
      BY <1>1, <1>2, SetInduction
  <1> QED
    BY <1>3 DEF Sum

\* Changing the value of one LP changes the sum by as much.
LEMMA SumChange ==
  ASSUME NEW f \in [LPs -> Int], NEW h \in [LPs -> Int], NEW lp \in LPs,
         \A x \in LPs : x # lp => h[x] = f[x]
  PROVE  Sum(h) = Sum(f) + (h[lp] - f[lp])
  <1> DEFINE d == [x \in LPs |-> h[x] - f[x]]
  <1>1. d \in [LPs -> Int] /\ \A x \in LPs : d[x] = h[x] - f[x]
    OBVIOUS
  <1> HIDE DEF d
  <1>2. \A x \in LPs : x # lp => d[x] = 0
    BY <1>1
  <1>3. Sum(d) = h[lp] - f[lp]
    BY <1>1, <1>2, SumOfOne
  <1>4. \A x \in LPs : h[x] = f[x] + 1 * d[x]
    BY <1>1
  <1>5. Sum(h) = Sum(f) + 1 * Sum(d)
    BY <1>1, <1>4, SumLinear
  <1> QED
    BY <1>3, <1>5, SumType

LEMMA SumMonotone ==
  ASSUME NEW f \in [LPs -> Int], NEW h \in [LPs -> Int], \A x \in LPs : f[x] <= h[x]
  PROVE  Sum(f) <= Sum(h)
  <1> DEFINE d == [x \in LPs |-> h[x] - f[x]]
  <1>1. d \in [LPs -> Nat] /\ \A x \in LPs : d[x] = h[x] - f[x]
    OBVIOUS
  <1> HIDE DEF d
  <1>2. \A x \in LPs : h[x] = f[x] + 1 * d[x]
    BY <1>1
  <1>3. Sum(h) = Sum(f) + 1 * Sum(d)
    BY <1>1, <1>2, SumLinear
  <1> QED
    BY <1>1, <1>3, SumType

LEMMA SumOfNothing == Sum([lp \in LPs |-> 0]) = 0
  <1> DEFINE z == [lp \in LPs |-> 0]
  <1>1. z \in [LPs -> Int] /\ \A lp \in LPs : z[lp] = z[lp] + 1 * z[lp]
    OBVIOUS
  <1> HIDE DEF z
  <1>2. Sum(z) = Sum(z) + 1 * Sum(z)
    BY <1>1, SumLinear
  <1> QED
    BY <1>1, <1>2, SumType DEF z

LEMMA SumOfMultiple ==
  ASSUME NEW f \in [LPs -> Int], NEW h \in [LPs -> Int], NEW r \in Int,
         \A lp \in LPs : h[lp] = r * f[lp]
  PROVE  Sum(h) = r * Sum(f)
  <1> DEFINE z == [lp \in LPs |-> 0]
  <1>1. z \in [LPs -> Int] /\ \A lp \in LPs : z[lp] = 0
    OBVIOUS
  <1>2. \A lp \in LPs : h[lp] = z[lp] + r * f[lp]
    BY r \in Int
  <1>3. Sum(z) = 0
    BY SumOfNothing
  <1> HIDE DEF z
  <1>4. Sum(h) = Sum(z) + r * Sum(f)
    BY <1>1, <1>2, SumLinear
  <1> QED
    BY <1>3, <1>4, SumType

-----------------------------------------------------------------------------
(* The pot covers all dues.                                                  *)

\* What each LP's shares have earned since its mark, times the precision.
Earned(s, c, m) == [lp \in LPs |-> s[lp] * (c - m[lp])]

\* The total is the sum of the shares, and the pot covers what all of them have
\* earned since their marks.
FeesInv ==
  /\ total = Sum(shares)
  /\ Sum(Earned(shares, cum, mark)) <= Precision * pot

\* The dues, as MapThenSumSet adds them, are a sum of this kind.
LEMMA DuesAreASum ==
  ASSUME \A lp \in LPs : Due(lp) \in Int
  PROVE  MapThenSumSet(Due, LPs) = Sum([lp \in LPs |-> Due(lp)])
  <1> DEFINE Iterates(g) == g = [s \in SUBSET LPs |->
                                   IF s = {} THEN 0 ELSE Due(Some(s)) + g[Rest(s)]]
             due == [lp \in LPs |-> Due(lp)]
             it == CHOOSE g : Iterates(g)
  <1>1. MapThenSumSet(Due, LPs) = it[LPs]
    BY DEF MapThenSumSet, MapThenFoldSet, Some, Rest
  <1>2. due \in [LPs -> Int] /\ \A lp \in LPs : due[lp] = Due(lp)
    OBVIOUS
  <1>3. \A g : Iterates(g) <=> Tallies(g, due)
    <2> SUFFICES ASSUME NEW g PROVE Iterates(g) <=> Tallies(g, due)
      OBVIOUS
    <2> HIDE DEF due
    <2>1. \A s \in SUBSET LPs : s # {} => due[Some(s)] = Due(Some(s))
      BY <1>2, SomeIsMember
    <2> QED
      BY <2>1 DEF Tallies
  <1>4. Iterates(it)
    <2>1. Iterates(Tally(due))
      BY <1>2, <1>3, TallyIs
    <2> QED
      BY <2>1
  <1>5. Tallies(it, due)
    BY <1>3, <1>4
  <1> HIDE DEF it, due
  <1> DEFINE P == {s \in SUBSET LPs : it[s] = Tally(due)[s]}
  <1>6. \A s \in SUBSET LPs : it[s] = IF s = {} THEN 0 ELSE due[Some(s)] + it[Rest(s)]
    BY <1>5 DEF Tallies
  <1>7. {} \in P
    BY <1>2, <1>6, TallyOfNone
  <1>8. \A s \in SUBSET LPs : s # {} /\ Rest(s) \in P => s \in P
    BY <1>2, <1>6, TallyStep
  <1>9. \A s \in SUBSET LPs : s \in P
    <2> HIDE DEF P
    <2> QED
      BY <1>7, <1>8, SetInduction
  <1> QED
    BY <1>1, <1>9 DEF Sum, due

LEMMA EarnedIs ==
  ASSUME NEW s \in [LPs -> Nat], NEW c \in Nat, NEW m \in [LPs -> Nat]
  PROVE  /\ Earned(s, c, m) \in [LPs -> Int]
         /\ \A lp \in LPs : Earned(s, c, m)[lp] = s[lp] * (c - m[lp])
  <1>1. \A lp \in LPs : s[lp] * (c - m[lp]) \in Int
    OBVIOUS
  <1> QED
    BY <1>1 DEF Earned

\* Where marks are not ahead, shares that stay or leave, and marks that stay or
\* are brought up to cum, earn no more than before.
LEMMA EarnsLess ==
  ASSUME NEW s \in [LPs -> Nat], NEW t \in [LPs -> Nat], NEW c \in Nat,
         NEW m \in [LPs -> Nat], NEW n \in [LPs -> Nat],
         \A lp \in LPs : /\ m[lp] <= c
                         /\ n[lp] = c \/ (n[lp] = m[lp] /\ t[lp] <= s[lp])
  PROVE  Sum(Earned(t, c, n)) <= Sum(Earned(s, c, m))
  <1>1. ASSUME NEW lp \in LPs PROVE t[lp] * (c - n[lp]) <= s[lp] * (c - m[lp])
    <2>1. PICK x, y, d \in Nat : x = s[lp] /\ y = t[lp] /\ d = c - m[lp]
      OBVIOUS
    <2>2. CASE n[lp] = c
      <3>1. x * d \in Nat /\ y * (c - c) = 0
        BY <2>1
      <3> QED
        BY <2>1, <2>2, <3>1
    <2>3. CASE n[lp] = m[lp] /\ t[lp] <= s[lp]
      <3>1. y * d <= x * d
        BY <2>1, <2>3
      <3> QED
        BY <2>1, <2>3, <3>1
    <2> QED
      BY <2>2, <2>3
  <1> QED
    BY <1>1, EarnedIs, SumMonotone

\* What cum rises by is paid for by the fee: a share of a fee, rounded down and
\* taken by all shares, is no more than the fee.
LEMMA TradeKeepsPot ==
  ASSUME PositionsInv, FeesInv, NEW f \in LpFees, NEW c \in Allocations, Trade(f, c)
  PROVE  FeesInv'
  <1> DEFINE rise == IF total > 0 /\ f > 0 THEN PerShare(f) ELSE 0
  <1>t. /\ shares \in [LPs -> Nat] /\ mark \in [LPs -> Nat] /\ cum \in Nat /\ pot \in Nat
        /\ total \in Nat /\ f \in Nat /\ Precision \in Nat \ {0}
    BY PositionsAssumption DEF PositionsInv, TypeOK
  <1>1. rise \in Nat /\ rise * total <= Precision * f
    <2>1. CASE total > 0 /\ f > 0
      <3>1. f * Precision \in Nat /\ total \in Nat \ {0} /\ f * Precision = Precision * f
        BY <1>t, <2>1
      <3>2. PerShare(f) \in Nat /\ total * PerShare(f) <= f * Precision
        BY <3>1, DivisionFloors DEF PerShare, Portion
      <3> QED
        BY <1>t, <2>1, <3>1, <3>2
    <2>2. CASE ~ (total > 0 /\ f > 0)
      <3>1. Precision * f \in Nat /\ 0 * total = 0
        BY <1>t
      <3> QED
        BY <2>2, <3>1
    <2> QED
      BY <2>1, <2>2
  <1>2. cum' = cum + rise /\ pot' = pot + f /\ UNCHANGED <<shares, mark, total>>
    BY DEF Trade, positions
  <1> HIDE DEF rise
  <1>3. PICK s, m \in [LPs -> Nat], k \in Nat, r \in Nat, z \in Nat :
          s = shares /\ m = mark /\ k = cum /\ r = rise /\ z = total
    BY <1>t, <1>1
  <1>4. Earned(s, k, m) \in [LPs -> Int] /\ Earned(s, k + r, m) \in [LPs -> Int]
    BY EarnedIs
  <1>5. \A lp \in LPs : Earned(s, k + r, m)[lp] = Earned(s, k, m)[lp] + r * s[lp]
    <2> SUFFICES ASSUME NEW lp \in LPs
                 PROVE  s[lp] * (k + r - m[lp]) = s[lp] * (k - m[lp]) + r * s[lp]
      BY EarnedIs
    <2>1. s[lp] \in Nat /\ m[lp] \in Nat
      OBVIOUS
    <2> QED
      BY <2>1
  <1>6. Sum(Earned(s, k + r, m)) = Sum(Earned(s, k, m)) + r * Sum(s)
    BY <1>4, <1>5, SumLinear
  <1>7. Sum(s) = z /\ Sum(Earned(s, k, m)) <= Precision * pot
    BY <1>3 DEF FeesInv
  <1>8. Sum(Earned(s, k + r, m)) <= Precision * (pot + f)
    <2>1. Precision * (pot + f) = Precision * pot + Precision * f
          /\ Precision * pot \in Nat /\ Precision * f \in Nat
      BY <1>t
    <2>2. PICK e, p, g \in Int : e = Sum(Earned(s, k, m)) /\ p = Precision * pot /\ g = Precision * f
      BY <1>4, <2>1, SumType
    <2>3. r * z \in Int /\ r * z <= g
      BY <1>1, <1>3, <2>2
    <2> QED
      BY <1>6, <1>7, <2>1, <2>2, <2>3
  <1> QED
    BY <1>2, <1>3, <1>7, <1>8 DEF FeesInv

\* A claim takes from the pot what is due, and the earnings it stands for, which
\* are no less, with it.
LEMMA ClaimKeepsPot ==
  ASSUME PositionsInv, FeesInv, NEW lp \in LPs, ClaimLpFees(lp)
  PROVE  FeesInv'
  <1>t. /\ shares \in [LPs -> Nat] /\ mark \in [LPs -> Nat] /\ cum \in Nat /\ pot \in Nat
        /\ Precision \in Nat \ {0} /\ mark[lp] <= cum
    BY PositionsAssumption DEF PositionsInv, TypeOK
  <1>1. PICK due \in Nat : due = Due(lp) /\ Precision * due <= shares[lp] * (cum - mark[lp])
    BY DueBound
  <1>2. pot' = pot - due /\ mark' = [mark EXCEPT ![lp] = cum] /\ UNCHANGED <<shares, total, cum>>
        /\ due <= pot
    BY <1>1, <1>t DEF ClaimLpFees
  <1>3. PICK s, m, n \in [LPs -> Nat], k \in Nat : s = shares /\ m = mark /\ n = mark' /\ k = cum
    BY <1>t, <1>2
  <1>4. Earned(s, k, m) \in [LPs -> Int] /\ Earned(s, k, n) \in [LPs -> Int]
    BY EarnedIs
  <1>5. n[lp] = k /\ \A x \in LPs : x # lp => n[x] = m[x]
    BY <1>2, <1>3
  <1>6. PICK e \in Int : e = s[lp] * (k - m[lp]) /\ Precision * due <= e
    BY <1>1, <1>3
  <1>7. Earned(s, k, n)[lp] = 0 /\ Earned(s, k, m)[lp] = e
    <2>1. s[lp] * (k - k) = 0
      OBVIOUS
    <2> QED
      BY <1>5, <1>6, <2>1, EarnedIs
  <1>8. \A x \in LPs : x # lp => Earned(s, k, n)[x] = Earned(s, k, m)[x]
    BY <1>5, EarnedIs
  <1>9. Sum(Earned(s, k, n)) = Sum(Earned(s, k, m)) + (0 - e)
    BY <1>4, <1>7, <1>8, SumChange
  <1>10. Sum(s) = total /\ Sum(Earned(s, k, m)) <= Precision * pot
    BY <1>3 DEF FeesInv
  <1>11. Sum(Earned(s, k, n)) <= Precision * (pot - due)
    <2>1. Precision * (pot - due) = Precision * pot - Precision * due
      BY <1>t
    <2>2. PICK a, p, g \in Int : a = Sum(Earned(s, k, m)) /\ p = Precision * pot /\ g = Precision * due
      BY <1>4, <1>t, SumType
    <2> QED
      BY <1>6, <1>9, <1>10, <2>1, <2>2
  <1> QED
    BY <1>2, <1>3, <1>10, <1>11 DEF FeesInv

\* Deposits and exits bring marks up to cum or shares down, and the total moves
\* with the shares of the LP.
LEMMA MovesKeepPot ==
  ASSUME PositionsInv, FeesInv, PositionsInv', NEW lp \in LPs,
         UNCHANGED <<cum, pot>>,
         \A x \in LPs : x # lp => shares'[x] = shares[x],
         total' = total + (shares'[lp] - shares[lp]),
         \A x \in LPs : mark'[x] = cum \/ (mark'[x] = mark[x] /\ shares'[x] <= shares[x])
  PROVE  FeesInv'
  <1>t. /\ shares \in [LPs -> Nat] /\ mark \in [LPs -> Nat] /\ cum \in Nat
        /\ shares' \in [LPs -> Nat] /\ mark' \in [LPs -> Nat]
        /\ \A x \in LPs : mark[x] <= cum
        /\ pot \in Nat /\ Precision \in Nat
    BY PositionsAssumption DEF PositionsInv, TypeOK
  <1>1. PICK s, t, m, n \in [LPs -> Nat], k \in Nat :
          s = shares /\ t = shares' /\ m = mark /\ n = mark' /\ k = cum
    BY <1>t
  <1>2. Sum(t) = Sum(s) + (t[lp] - s[lp])
    <2>1. \A x \in LPs : x # lp => t[x] = s[x]
      BY <1>1
    <2>2. s \in [LPs -> Int] /\ t \in [LPs -> Int]
      OBVIOUS
    <2> QED
      BY <2>1, <2>2, SumChange
  <1>3. Sum(Earned(t, k, n)) <= Sum(Earned(s, k, m))
    BY <1>1, <1>t, EarnsLess
  <1>4. Sum(s) = total /\ Sum(Earned(s, k, m)) <= Precision * pot
    BY <1>1 DEF FeesInv
  <1>5. Sum(Earned(t, k, n)) <= Precision * pot
    <2>1. Sum(Earned(t, k, n)) \in Int /\ Sum(Earned(s, k, m)) \in Int /\ Precision * pot \in Int
      BY <1>t, EarnedIs, SumType
    <2> QED
      BY <1>3, <1>4, <2>1
  <1> QED
    BY <1>1, <1>2, <1>4, <1>5 DEF FeesInv

LEMMA FeesStep == PositionsInv /\ FeesInv /\ [Next]_vars => FeesInv'
  <1> SUFFICES ASSUME PositionsInv, FeesInv, [Next]_vars PROVE FeesInv'
    OBVIOUS
  <1>i. PositionsInv'
    BY InvStep
  <1>t. /\ {shares, mark, invested} \subseteq [LPs -> Nat] /\ {total, cum, pot} \subseteq Nat
        /\ {shares', mark', invested'} \subseteq [LPs -> Nat]
    BY <1>i DEF PositionsInv, TypeOK
  <1>1. ASSUME NEW lp \in LPs, NEW a \in Stakes, SeedPool(lp, a) PROVE FeesInv'
    <2>1. shares[lp] = 0 /\ total = 0
      BY <1>1 DEF SeedPool, PositionsInv
    <2>2. /\ shares' = [shares EXCEPT ![lp] = a] /\ total' = a
          /\ mark' = [mark EXCEPT ![lp] = cum] /\ UNCHANGED <<cum, pot>>
      BY <1>1, <2>1 DEF SeedPool, Marked, fees
    <2>3. /\ shares'[lp] = a /\ a \in Nat
          /\ \A x \in LPs : x # lp => shares'[x] = shares[x] /\ mark'[x] = mark[x]
          /\ mark'[lp] = cum
      BY <1>t, <2>2, PositionsAssumption
    <2>4. \A x \in LPs : /\ x # lp => shares'[x] = shares[x]
                         /\ mark'[x] = cum \/ (mark'[x] = mark[x] /\ shares'[x] <= shares[x])
      BY <1>t, <2>2, <2>3
    <2>5. total' = total + (shares'[lp] - shares[lp])
      BY <1>t, <2>1, <2>2, <2>3
    <2> QED
      BY <1>i, <2>2, <2>4, <2>5, MovesKeepPot
  <1>2. ASSUME NEW lp \in LPs, NEW a \in Stakes,
               NEW s \in Issues \cup {Monus(a, MinLiquidity)}, AddLiquidity(lp, a, s)
        PROVE  FeesInv'
    <2>1. s \in Nat
      BY PositionsAssumption DEF Monus
    <2>2. /\ shares' = [shares EXCEPT ![lp] = @ + s] /\ total' = total + s
          /\ mark' = [mark EXCEPT ![lp] = cum] /\ UNCHANGED <<cum, pot>>
      BY <1>2 DEF AddLiquidity, Marked, fees
    <2>3. /\ shares'[lp] = shares[lp] + s /\ shares[lp] \in Nat
          /\ \A x \in LPs : x # lp => shares'[x] = shares[x] /\ mark'[x] = mark[x]
          /\ mark'[lp] = cum
      BY <1>t, <2>2
    <2>4. \A x \in LPs : /\ x # lp => shares'[x] = shares[x]
                         /\ mark'[x] = cum \/ (mark'[x] = mark[x] /\ shares'[x] <= shares[x])
      BY <1>t, <2>2, <2>3
    <2>5. total' = total + (shares'[lp] - shares[lp])
      BY <1>t, <2>1, <2>2, <2>3
    <2> QED
      BY <1>i, <2>2, <2>4, <2>5, MovesKeepPot
  <1>3. ASSUME NEW lp \in LPs, NEW n \in 1 .. shares[lp], NEW v \in Proceeds,
               WithdrawLiquidity(lp, n, v)
        PROVE  FeesInv'
    <2>1. n \in Nat
      BY <1>t
    <2>2. /\ shares' = [shares EXCEPT ![lp] = @ - n] /\ total' = total - n
          /\ mark' = mark /\ UNCHANGED <<cum, pot>>
      BY <1>3 DEF WithdrawLiquidity, fees
    <2>3. /\ shares'[lp] = shares[lp] - n /\ shares[lp] \in Nat
          /\ \A x \in LPs : x # lp => shares'[x] = shares[x]
      BY <1>t, <2>2
    <2>4. \A x \in LPs : /\ x # lp => shares'[x] = shares[x]
                         /\ mark'[x] = cum \/ (mark'[x] = mark[x] /\ shares'[x] <= shares[x])
      BY <1>t, <2>2, <2>3
    <2>5. total' = total + (shares'[lp] - shares[lp])
      BY <1>t, <2>1, <2>2, <2>3
    <2> QED
      BY <1>i, <2>2, <2>4, <2>5, MovesKeepPot
  <1>4. ASSUME UNCHANGED <<shares, total, cum, mark, pot>> PROVE FeesInv'
    BY <1>4 DEF FeesInv
  <1>5. ASSUME NEW c \in Allocations,
               OtherMarketTrades(c) \/ OtherMarketCompensates(c) \/ Configure(c)
        PROVE  FeesInv'
    BY <1>4, <1>5 DEF OtherMarketTrades, OtherMarketCompensates, Configure, positions, fees
  <1>6. CASE UNCHANGED vars
    BY <1>4, <1>6 DEF vars, positions, fees
  <1> QED
    BY <1>1, <1>2, <1>3, <1>5, <1>6, TradeKeepsPot, ClaimKeepsPot DEF Next

\* The pot covers the dues of all LPs together, for any number of LPs, any
\* rounding and any order of trades, claims, deposits and exits.
THEOREM PotCoversDues == Spec => []FeesCovered
  <1>1. Init => FeesInv
    <2> SUFFICES ASSUME Init PROVE FeesInv
      OBVIOUS
    <2> DEFINE z == [lp \in LPs |-> 0]
    <2>1. shares = z /\ mark = z /\ cum = 0 /\ pot = 0 /\ total = 0
      BY DEF Init
    <2>2. Earned(z, 0, z) = z
      <3>1. \A lp \in LPs : z[lp] * (0 - z[lp]) = 0
        OBVIOUS
      <3> QED
        BY <3>1 DEF Earned
    <2>3. Sum(z) = 0
      BY SumOfNothing
    <2>4. Precision * 0 = 0
      BY PositionsAssumption
    <2> HIDE DEF z
    <2> QED
      BY <2>1, <2>2, <2>3, <2>4 DEF FeesInv
  <1>2. PositionsInv /\ FeesInv => FeesCovered
    <2> SUFFICES ASSUME PositionsInv, FeesInv PROVE FeesCovered
      OBVIOUS
    <2>t. /\ shares \in [LPs -> Nat] /\ mark \in [LPs -> Nat] /\ cum \in Nat
          /\ pot \in Nat /\ Precision \in Nat \ {0}
      BY PositionsAssumption DEF PositionsInv, TypeOK
    <2>1. \A lp \in LPs : Due(lp) \in Nat /\ Precision * Due(lp) <= shares[lp] * (cum - mark[lp])
      BY DueBound
    <2> DEFINE due == [lp \in LPs |-> Due(lp)]
               whole == [lp \in LPs |-> Precision * due[lp]]
               earned == Earned(shares, cum, mark)
    <2>2. due \in [LPs -> Int] /\ \A lp \in LPs : due[lp] = Due(lp)
      BY <2>1
    <2>3. MapThenSumSet(Due, LPs) = Sum(due)
      <3>1. \A lp \in LPs : Due(lp) \in Int
        BY <2>1
      <3> QED
        BY <3>1, DuesAreASum
    <2> HIDE DEF due
    <2>4. whole \in [LPs -> Int] /\ \A lp \in LPs : whole[lp] = Precision * due[lp]
      BY <2>t, <2>2
    <2> HIDE DEF whole
    <2>5. earned \in [LPs -> Int] /\ \A lp \in LPs : earned[lp] = shares[lp] * (cum - mark[lp])
      BY <2>t, EarnedIs
    <2> HIDE DEF earned
    <2>6. Sum(whole) = Precision * Sum(due)
      BY <2>t, <2>2, <2>4, SumOfMultiple
    <2>7. Sum(whole) <= Sum(earned)
      BY <2>1, <2>2, <2>4, <2>5, SumMonotone
    <2>8. Sum(earned) <= Precision * pot
      BY DEF FeesInv, earned
    <2>9. Precision * Sum(due) <= Precision * pot /\ Sum(due) \in Int
      <3>1. Sum(due) \in Int /\ Sum(whole) \in Int /\ Sum(earned) \in Int /\ Precision * pot \in Int
        BY <2>t, <2>2, <2>4, <2>5, SumType
      <3> QED
        BY <2>6, <2>7, <2>8, <3>1
    <2>10. Sum(due) <= pot
      BY <2>t, <2>9, DivisionBelow
    <2> QED
      BY <2>3, <2>10 DEF FeesCovered
  <1> QED
    BY <1>1, <1>2, InvInit, InvStep, FeesStep, PTL DEF Spec
=============================================================================
