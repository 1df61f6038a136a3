-------------------------------- MODULE Dec --------------------------------
(***************************************************************************)
(* The fixed-point decimals of the cosmos SDK, for non-negative numbers:   *)
(* x stands for x / Precision.  The code's precision is 10^18; the models  *)
(* use a smaller one, so that the rounding shows up on small amounts.      *)
(***************************************************************************)
EXTENDS Integers

CONSTANT Precision

ASSUME PrecisionAssumption ==
    Precision \in Nat /\ Precision > 0 /\ Precision % 2 = 0

NewDecFromInt(n) == n * Precision

\* Divide by the precision and round half to even.
chopPrecisionAndRound(d) ==
    LET quo == d \div Precision
        rem == d % Precision
        half == Precision \div 2
    IN  IF rem < half \/ (rem = half /\ quo % 2 = 0) THEN quo ELSE quo + 1

Mul(d, e) == chopPrecisionAndRound(d * e)

Quo(d, e) == chopPrecisionAndRound((d * Precision * Precision) \div e)

TruncateInt(d) == d \div Precision

RoundInt(d) == chopPrecisionAndRound(d)
=============================================================================
