--------------------------- MODULE CommonDivisor ---------------------------
(***************************************************************************)
(* What the two GCD units of npc/src promise: a greatest common divisor,   *)
(* by its divisors rather than by Euclid's steps.                          *)
(***************************************************************************)
EXTENDS Integers

CONSTANT Max    \* the largest UInt(width.W)

ASSUME MaxAssumption == Max \in Nat

Value == 0 .. Max

Divides(d, n) == \E k \in 0 .. n : d * k = n

\* The common divisors of a and b are the divisors of g.
IsGcd(g, a, b) == \A d \in Value : Divides(d, g) <=> Divides(d, a) /\ Divides(d, b)

=============================================================================
