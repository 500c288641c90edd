------------------------------- MODULE Float32 -------------------------------
(***************************************************************************)
(* Rust's f32 for numbers that are not negative: m * 2^e with 2^23 <= m <   *)
(* 2^24, or zero.  Every operation rounds its exact result to the nearest   *)
(* such number, to the even one of two that are equally near.  Subnormal    *)
(* and infinite values do not occur in the quantities this is used for.     *)
(***************************************************************************)
EXTENDS Naturals, Integers, Sequences, SequencesExt

Zero32 == [m |-> 0, e |-> 0]

MinMantissa == 2^23
LimMantissa == 2^24

\* q * 2^e and num / den of the next unit, rounded.
Rounded(q, num, den, e) ==
  LET up == 2 * num > den \/ (2 * num = den /\ q % 2 = 1)
      m == IF up THEN q + 1 ELSE q
  IN  IF q = 0 /\ ~up THEN Zero32
      ELSE IF m = LimMantissa THEN [m |-> MinMantissa, e |-> e + 1] ELSE [m |-> m, e |-> e]

\* Long division, six bits of the quotient q at a time; r is the remainder.
Divide(n, d) ==
  LET grow(acc, i) ==
        IF acc.q >= MinMantissa THEN acc
        ELSE [q |-> 64 * acc.q + (64 * acc.r) \div d, r |-> (64 * acc.r) % d, e |-> acc.e - 6]
  IN  FoldLeft(grow, [q |-> n \div d, r |-> n % d, e |-> 0], <<1, 2, 3, 4, 5, 6, 7, 8, 9>>)

\* A quotient of more than 24 bits loses the excess ones.
Normalised(grown, d) ==
  LET excess == CHOOSE k \in 0..40 : /\ grown.q \div 2^k < LimMantissa
                                     /\ k = 0 \/ grown.q \div 2^(k - 1) >= LimMantissa
      sticky == IF grown.r = 0 THEN 0 ELSE 1
  IN  IF excess = 0 THEN Rounded(grown.q, grown.r, d, grown.e)
      ELSE Rounded(grown.q \div 2^excess, 2 * (grown.q % 2^excess) + sticky, 2^(excess + 1),
                   grown.e + excess)

\* The f32 nearest to n / d, for d <= 2^24 and n / d zero or at least 2^-30
\* (and n < 2^30, so that TLC can compute it).
Ratio32(n, d) == IF n = 0 THEN Zero32 ELSE Normalised(Divide(n, d), d)

\* Multiplication by a power of two is exact.
Scale2(x, k) == IF x.m = 0 THEN x ELSE [x EXCEPT !.e = @ + k]

\* The 48 bits of the product are computed in two halves of 24.
Mul32(x, y) ==
  LET h == 2^12
      mid == (x.m \div h) * (y.m % h) + (x.m % h) * (y.m \div h)
      low == (x.m % h) * (y.m % h) + (mid % h) * h
      hi == (x.m \div h) * (y.m \div h) + mid \div h + low \div LimMantissa
      lo == low % LimMantissa
      e == x.e + y.e
  IN  IF x.m = 0 \/ y.m = 0 THEN Zero32
      ELSE IF hi >= MinMantissa THEN Rounded(hi, lo, LimMantissa, e + 24)
      ELSE Rounded(2 * hi + lo \div MinMantissa, lo % MinMantissa, MinMantissa, e + 23)

Div32(x, y) == Scale2(Ratio32(x.m, y.m), x.e - y.e)

\* x + y, for an x that is not smaller than y.
Add32(x, y) ==
  LET d == x.e - y.e
      q == x.m + y.m \div 2^d
      rest == y.m % 2^d
  IN  IF x.m = 0 THEN y
      ELSE IF y.m = 0 \/ d > 25 THEN x
      ELSE IF q < LimMantissa THEN Rounded(q, rest, 2^d, x.e)
      ELSE Rounded(q \div 2, (q % 2) * 2^d + rest, 2^(d + 1), x.e + 1)

Less32(x, y) ==
  IF x.m = 0 \/ y.m = 0 THEN x.m < y.m
  ELSE x.e < y.e \/ (x.e = y.e /\ x.m < y.m)

\* `as usize`, for numbers below 2^30.
Trunc32(x) == IF x.e >= 0 THEN x.m * 2^x.e ELSE IF x.e < -24 THEN 0 ELSE x.m \div 2^(-x.e)

Fract32(x) == CASE x.e >= 0 -> Zero32
                [] x.e < -24 -> x
                [] OTHER -> Scale2(Ratio32(x.m % 2^(-x.e), 1), x.e)

Floor32(x) == IF x.e >= 0 THEN x ELSE Ratio32(Trunc32(x), 1)

IsInteger32(x) == Fract32(x).m = 0

\* The least integer that is not below x, for results below 2^30.
Ceil32(x) == IF IsInteger32(x) THEN Trunc32(x) ELSE Trunc32(x) + 1
=============================================================================
