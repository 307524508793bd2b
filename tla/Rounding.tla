------------------------------ MODULE Rounding ------------------------------
(* Python's round(), on rationals: to the nearest integer, ties to the even. *)
EXTENDS Integers

(* round(num / den), den > 0.                                                *)
RoundHalfEven(num, den) ==
    LET q == num \div den
        r == num % den
    IN  IF 2 * r > den \/ (2 * r = den /\ q % 2 = 1) THEN q + 1 ELSE q
=============================================================================
