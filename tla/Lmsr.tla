-------------------------------- MODULE Lmsr --------------------------------
(***************************************************************************)
(* The market maker's curve (math/lmsr.rs, math/calculator.rs,              *)
(* math/safe_cast.rs): what a position costs, what an exchange pays and how *)
(* many tokens a sum buys.  A position is a signed number per side.  Err    *)
(* stands for every error the functions return.                             *)
(***************************************************************************)
EXTENDS FixedPoint

CONSTANTS
    MAX_B_PARAM, MAX_POSITION,  \* the largest curve parameter and position
    MIN_COST_DIVISOR,           \* 100: prices below 1/100 are too small to divide by
    MAX_ITERATIONS,             \* of the binary search
    CONVERGENCE_THRESHOLD       \* the rest the binary search leaves to the pool

ASSUME CurveAssumption ==
    /\ {MAX_B_PARAM, MAX_POSITION, MAX_ITERATIONS, CONVERGENCE_THRESHOLD} \subseteq Nat
    /\ MIN_COST_DIVISOR \in Nat \ {0}

Sides == {"yes", "no"}
Other(s) == IF s = "yes" THEN "no" ELSE "yes"
Abs(x) == IF x < 0 THEN -x ELSE x
AtLeast(x, y) == IF x < y THEN y ELSE x
AtMost(x, y) == IF x < y THEN x ELSE y
Monus(x, y) == IF x < y THEN 0 ELSE x - y

InRange(b, q) == b \in 1..MAX_B_PARAM /\ \A s \in Sides : Abs(q[s]) <= MAX_POSITION

\* |q| / b, the sign is looked at elsewhere.
Ratio(b, q, s) == fp_div(from_u64(Abs(q[s])), from_u64(b))

\* ln(exp(a) + exp(-b)): as written, with a the positive position and b the size of
\* the negative one.
MixedLogSum(a, b) ==
    LET ln == Ln1Plus(ExpNeg(IF a >= b THEN a + b ELSE b - a))
    IN  IF ln = Err THEN Err
        ELSE IF a >= b THEN Fits(a + ln)
        ELSE AtLeast(ln - b, 0)

\* ln(exp(-a) + exp(-b)), a <= b: as written, never more than zero.
NegativeLogSum(a, b) ==
    LET ln == Ln1Plus(ExpNeg(b - a))
    IN  IF b - a >= FarApart * One THEN 0
        ELSE IF ln = Err THEN Err
        ELSE AtLeast(ln - b, 0)

LogSum(b, q) ==
    LET y == Ratio(b, q, "yes")
        n == Ratio(b, q, "no")
    IN  IF Err \in {y, n} THEN Err
        ELSE IF q["yes"] >= 0 /\ q["no"] >= 0 THEN fp_log_sum_exp(y, n)
        ELSE IF q["yes"] < 0 /\ q["no"] < 0 THEN NegativeLogSum(AtMost(y, n), AtLeast(y, n))
        ELSE IF q["yes"] >= 0 THEN MixedLogSum(y, n)
        ELSE MixedLogSum(n, y)

\* Errors pass through.
Times(b, x) == IF x = Err THEN Err ELSE fp_mul(from_u64(b), x)
Whole(x) == IF x = Err THEN Err ELSE to_u64(x)

\* C(q) = b ln(exp(q_yes / b) + exp(q_no / b)).
lmsr_cost(b, q) ==
    IF ~ InRange(b, q) THEN Err ELSE Whole(Times(b, LogSum(b, q)))

Exp(r) == IF r = Err THEN Err ELSE fp_exp(r)

\* exp(q / b) with its sign.
Signed(x, e) == IF e = Err \/ x >= 0 THEN e ELSE fp_div(One, e)
Weight(b, q, s) == Signed(q[s], Exp(Ratio(b, q, s)))

\* A price that forgets the other side.
lmsr_marginal_priceAlone(b, q) == Weight(b, q, "yes")

\* The price of a side; the program calls it for yes and takes the rest for no.
Odds(y, n) ==
    IF Err \in {y, n} \/ y + n \notin U128 THEN Err ELSE fp_div(y, y + n)

lmsr_marginal_price(b, q) ==
    IF InRange(b, q) THEN Odds(Weight(b, q, "yes"), Weight(b, q, "no")) ELSE Err

Moved(q, s, amount) == [q EXCEPT ![s] = @ + amount]

\* amount tokens at the price of the moment: at least one unit.  Without a price, a
\* hundredth of a USDC a token.
AtPrice(p, amount) ==
    IF p = Err THEN amount \div MIN_COST_DIVISOR
    ELSE IF fp_mul(from_u64(amount), p) = Err THEN amount \div 2
    ELSE to_u64(fp_mul(from_u64(amount), p))

AtMarginalPrice(b, q, amount) == AtLeast(1, AtPrice(lmsr_marginal_price(b, q), amount))

\* The cost rises from one position to the other; when the code's cost falls instead,
\* the price of the moment takes its place.  For both sides it is the price of yes.
Rise(before, after, price) ==
    IF Err \in {before, after} THEN Err
    ELSE IF after >= before THEN AtLeast(1, after - before)
    ELSE price

lmsr_buy_cost(b, q, s, amount) ==
    Rise(lmsr_cost(b, q), lmsr_cost(b, Moved(q, s, amount)), AtMarginalPrice(b, q, amount))
lmsr_sell_payout(b, q, s, amount) ==
    Rise(lmsr_cost(b, Moved(q, s, -amount)), lmsr_cost(b, q), AtMarginalPrice(b, q, amount))

\* The upper end of the search: one and a half times the tokens the price of the moment
\* would buy.
OneAndAHalf(e) ==
    IF e = Err \/ fp_mul(e, from_u64(15)) = Err THEN Err
    ELSE to_u64(fp_mul(e, from_u64(15)) \div 10)

BoundAt(p, usdc) ==
    IF p = Err THEN Err
    ELSE IF p < fp_div(from_u64(1), from_u64(MIN_COST_DIVISOR)) THEN 150 * usdc
    ELSE OneAndAHalf(fp_div(from_u64(usdc), p))

UpperBound(b, q, s, usdc) ==
    AtMost(BoundAt(lmsr_marginal_price(b, q), usdc), Monus(MAX_POSITION, Abs(q[s])))

\* The half of an interval the search goes on with; a single point when it is over.
Half(low, mid, high, cost, usdc) ==
    IF cost = Err THEN <<Err, Err>>
    ELSE IF cost > usdc THEN <<low, mid>>
    ELSE IF usdc - cost < CONVERGENCE_THRESHOLD THEN <<mid, mid>>
    ELSE <<mid + 1, high>>

\* The binary search for the tokens that usdc buys, and its answer when it stops early.
lmsr_tokens_for_usdc(b, q, s, usdc) ==
    LET Mid(r) == (r[1] + r[2]) \div 2
        Search[n \in 0..MAX_ITERATIONS] == [r \in Int \X Int |->
            IF r[1] >= r[2] \/ n = MAX_ITERATIONS
            THEN r[1]
            ELSE Search[n + 1][Half(r[1], Mid(r), r[2], lmsr_buy_cost(b, q, s, Mid(r)), usdc)]]
        Below(high) == <<AtMost(0, high), high>>
    IN  Search[0][Below(UpperBound(b, q, s, usdc))]

\* The guard of the calculator on a position it moves to.
validate_position_pair(q) ==
    \A s \in Sides : Abs(q[s]) <= MAX_POSITION

\* What the calculator pays for a sale: no price of the moment, an error instead.
Fall(before, after) == IF Err \in {before, after} \/ before < after THEN Err ELSE before - after

sell_proceeds(b, q, s, amount) ==
    IF validate_position_pair(q) /\ validate_position_pair(Moved(q, s, -amount))
    THEN Fall(lmsr_cost(b, q), lmsr_cost(b, Moved(q, s, -amount)))
    ELSE Err
=============================================================================
