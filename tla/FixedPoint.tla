----------------------------- MODULE FixedPoint -----------------------------
(***************************************************************************)
(* The unsigned fixed-point numbers the market maker computes with          *)
(* (math/fixed_point.rs): Q64.64 in a u128.  The width is a parameter: a    *)
(* number has W bits before and W bits after the point, so that Word is     *)
(* 2^64 in the program and 2^10 in a run.  An operation that returns an     *)
(* error, or that panics on overflow, yields Err.                           *)
(***************************************************************************)
EXTENDS Integers

CONSTANTS
    Bits,           \* W
    Word,           \* 2^W: the size of half a number, and the number one
    LN_2,           \* ln(2), rounded down
    MAX_EXP_INPUT,  \* the largest exponent fp_exp takes
    MIN_LN_INPUT,   \* the smallest number fp_ln takes
    TinyTerm,       \* the term at which the series of fp_exp stops
    FarApart        \* the distance, in units of one, at which exp(-d) is dropped

ASSUME WordAssumption == Word \in Nat /\ Word > 1
ASSUME SeriesAssumption ==
    /\ Bits \in Nat /\ Word = 2^Bits
    /\ LN_2 \in 1..(Word - 1)
    /\ MIN_LN_INPUT \in Nat \ {0}
    /\ {MAX_EXP_INPUT, TinyTerm, FarApart} \subseteq Nat

One == Word
Err == -1

Lo(x) == x % Word
Hi(x) == x \div Word
U128 == 0..(Word * Word - 1)
Fits(x) == IF x \in U128 THEN x ELSE Err

from_u64(x) == x * Word
to_u64(x) == x \div Word

\* Four half products; checked_shl looks at the shift alone, so that the high
\* half of the upper word is lost without an error.
fp_mul(a, b) ==
    LET mid  == Lo(a) * Hi(b) + Hi(a) * Lo(b)
        high == Hi(a) * Hi(b) + Hi(mid)
    IN  IF \/ 2 * a >= Word * Word /\ 2 * b >= Word * Word
           \/ mid \notin U128
        THEN Err
        ELSE Fits(Lo(high) * Word + Lo(mid) + Hi(Lo(a) * Lo(b)))

\* One digit of the long division, quotient and remainder.  The code finds
\* both bit by bit.
Digit(rem, extra, d) == <<(rem * Word + extra) \div d, (rem * Word + extra) % d>>

\* The remainder is doubled in a u128 bit after bit: with a divisor above half
\* of the word the doubling may overflow, and panics.
DoublingOverflows(rem, extra, d) ==
    /\ 2 * d > Word * Word
    /\ \E i \in 0..(Bits - 1) :
          2 * ((rem * 2^i + extra \div 2^(Bits - i)) % d) >= Word * Word

\* Three digits: the upper half of a, its lower half, the fraction.
fp_div(a, b) ==
    IF b = 0
    THEN Err
    ELSE LET q2 == Digit(0, Hi(a), b)
             q1 == Digit(q2[2], Lo(a), b)
             q0 == Digit(q1[2], 0, b)
         IN  IF \/ q2[1] > 0
                \/ DoublingOverflows(q2[2], Lo(a), b)
                \/ DoublingOverflows(q1[2], 0, b)
             THEN Err
             ELSE q1[1] * Word + q0[1]

\* The power of two that brings x into [1, 2).
Scaled(x, e) == IF e >= 0 THEN x \div 2^e ELSE x * 2^(-e)
Exponent(x) ==
    CHOOSE e \in (-Bits)..Bits : Scaled(x, e) >= One /\ Scaled(x, e) < 2 * One

\* y - y^2/2 + y^3/3 - ... to the tenth term.
LnSeries(y) ==
    LET term[i \in 1..10] == IF i = 1 THEN y ELSE fp_mul(term[i - 1], y)
        sum[i \in 1..10] ==
            IF i = 1 THEN y
            ELSE IF i % 2 = 0 THEN sum[i - 1] - term[i] \div i
            ELSE sum[i - 1] + term[i] \div i
    IN  sum[10]

\* An exponent below zero subtracts, and may leave a number below zero.
fp_ln(x) ==
    IF x < MIN_LN_INPUT
    THEN Err
    ELSE LET e == Exponent(x)
         IN  Fits(LnSeries(Scaled(x, e) - One) + e * LN_2)

\* 1 + r + r^2/2! + ..., up to the first term below TinyTerm.
ExpSeries(r) ==
    LET acc[i \in 0..15] ==
            IF i = 0
            THEN [sum |-> One, term |-> One, fact |-> 1, done |-> FALSE]
            ELSE LET a == acc[i - 1]
                     t == fp_mul(a.term, r)
                     f == a.fact * i
                 IN  IF a.done THEN a
                     ELSE [sum  |-> a.sum + t \div f, term |-> t, fact |-> f,
                           done |-> t \div f < TinyTerm]
    IN  acc[15].sum

\* x = n ln(2) + r, and the result is shifted by n: the bits that leave the
\* number are lost.
fp_exp(x) ==
    IF x > MAX_EXP_INPUT
    THEN Err
    ELSE (ExpSeries(x % LN_2) * 2^(x \div LN_2)) % (Word * Word)

\* exp(-d), nothing for a large d.
ExpNeg(d) ==
    IF d >= FarApart * One THEN 0
    ELSE IF fp_exp(d) = Err THEN Err
    ELSE fp_div(One, fp_exp(d))

Ln1Plus(x) == IF x = Err THEN Err ELSE fp_ln(One + x)

\* ln(exp(a) + exp(b)).
fp_log_sum_exp(a, b) ==
    LET larger == IF a > b THEN a ELSE b
        ln     == Ln1Plus(ExpNeg(IF a > b THEN a - b ELSE b - a))
    IN  IF (IF a > b THEN a - b ELSE b - a) >= FarApart * One THEN larger
        ELSE IF ln = Err THEN Err
        ELSE Fits(larger + ln)
=============================================================================
