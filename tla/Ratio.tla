-------------------------------- MODULE Ratio --------------------------------
(***************************************************************************)
(* The arithmetic of the pure packages, without rounding: a float64 is a   *)
(* reduced fraction <<numerator, denominator>>.  NaN and the infinities    *)
(* are one value, the fraction with denominator 0: it swallows what it     *)
(* meets, and every comparison with it is false.  Logarithms are taken to  *)
(* base two, of powers of two.                                             *)
(***************************************************************************)
EXTENDS Integers, Sequences, SequencesExt

LOCAL gcd[a \in Nat, b \in Nat] == IF b = 0 THEN a ELSE gcd[b, a % b]
LOCAL Magnitude(n) == IF n < 0 THEN -n ELSE n

NaN == <<0, 0>>
Finite(x) == x[2] # 0

Frac(n, d) ==
  IF d = 0 THEN NaN
  ELSE LET g == gcd[Magnitude(n), Magnitude(d)]
           s == IF d < 0 THEN -1 ELSE 1
       IN <<(s * n) \div g, (s * d) \div g>>

Int2(n) == <<n, 1>>
Zero == Int2(0)
One == Int2(1)
Hundred == Int2(100)

x ++ y == Frac(x[1] * y[2] + y[1] * x[2], x[2] * y[2])
x -- y == Frac(x[1] * y[2] - y[1] * x[2], x[2] * y[2])
x ** y == Frac(x[1] * y[1], x[2] * y[2])
x // y == IF Finite(x) /\ Finite(y) THEN Frac(x[1] * y[2], x[2] * y[1]) ELSE NaN

x \prec y == Finite(x) /\ Finite(y) /\ x[1] * y[2] < y[1] * x[2]
x \preceq y == Finite(x) /\ Finite(y) /\ x[1] * y[2] <= y[1] * x[2]
Positive(x) == Zero \prec x
Lesser(x, y) == IF y \prec x THEN y ELSE x
Larger(x, y) == IF x \prec y THEN y ELSE x
Abs(x) == IF x \prec Zero THEN Zero -- x ELSE x

(* A square root is never taken: a figure that has one is kept as its      *)
(* square, with the sign it had.                                           *)
SignedSquare(x) == IF x \prec Zero THEN Zero -- (x ** x) ELSE x ** x

TotalOf(s) == FoldLeft(LAMBDA a, b : a ++ b, Zero, s)
Each(s, Of(_)) == [i \in 1..Len(s) |-> Of(s[i])]

Log2(x) ==
  IF ~Positive(x) THEN NaN
  ELSE Int2(CHOOSE k \in -12..12 : IF k < 0 THEN x = <<1, 2^(-k)>> ELSE x = <<2^k, 1>>)
=============================================================================
