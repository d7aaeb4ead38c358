----------------------------- MODULE BinaryFloat -----------------------------
(***************************************************************************)
(* IEEE-style binary floating point with a significand of Prec bits and    *)
(* round-to-nearest, ties-to-even after every operation: the arithmetic    *)
(* of the C++ doubles in this repository, at a precision TLC can explore.  *)
(* A float is [m, e], standing for m * 2^e with |m| < 2^Prec.              *)
(***************************************************************************)
EXTENDS Integers

CONSTANT Prec   \* significand bits of the modelled double

ASSUME Prec \in Nat \ {0, 1}

(***************************************************************************)
(* NaN is a value of its own; Zero is +0.                                  *)
(***************************************************************************)
NaN == [m |-> 0, e |-> -1000]
Zero == [m |-> 0, e |-> 0]
ExpRange == -4 * Prec - 8 .. 4 * Prec + 8
Abs(i) == IF i < 0 THEN -i ELSE i

\* num / den * 2^k as a fraction of integers.
Frac(num, den, k) == IF k >= 0 THEN <<num, den * 2^k>> ELSE <<num * 2^(-k), den>>

\* The float nearest to (num / den) * 2^e, ties to an even significand.
Round(num, den, e) ==
  IF num = 0 THEN Zero
  ELSE LET k == CHOOSE k \in ExpRange :
                  LET q == Frac(Abs(num), den, k)
                  IN 2^(Prec - 1) * q[2] <= q[1] /\ q[1] < 2^Prec * q[2]
           q == Frac(Abs(num), den, k)
           t == q[1] \div q[2]
           r == q[1] % q[2]
           m == IF 2 * r > q[2] \/ (2 * r = q[2] /\ t % 2 = 1) THEN t + 1 ELSE t
           s == IF num < 0 THEN -1 ELSE 1
       IN IF m = 2^Prec THEN [m |-> s * 2^(Prec - 1), e |-> e + k + 1]
                        ELSE [m |-> s * m, e |-> e + k]

MinE(x, y) == IF x.e < y.e THEN x.e ELSE y.e
FAdd(x, y) ==
  IF x = NaN \/ y = NaN THEN NaN
  ELSE Round(x.m * 2^(x.e - MinE(x, y)) + y.m * 2^(y.e - MinE(x, y)), 1, MinE(x, y))
FSub(x, y) == FAdd(x, IF y = NaN THEN NaN ELSE [m |-> -y.m, e |-> y.e])
FMul(x, y) == IF x = NaN \/ y = NaN THEN NaN ELSE Round(x.m * y.m, 1, x.e + y.e)
\* x / (double)i: 0/0 is NaN (and so is any finite x / 0 for our purposes).
FDivInt(x, i) == IF x = NaN \/ i = 0 THEN NaN ELSE Round(x.m, i, x.e)
\* sqrt, by the class of its result.
FSqrtClass(x) == IF x = NaN \/ x.m < 0 THEN "nan" ELSE IF x.m = 0 THEN "zero" ELSE "positive"

\* The float of an integer.
FloatOf(i) == Round(i, 1, 0)
====
