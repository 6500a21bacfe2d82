--------------------------------- MODULE Gcd ---------------------------------
(***************************************************************************)
(* The greatest common divisor, defined without an algorithm: what the     *)
(* GCD coprocessors of TP1 and TP2 are for.                                *)
(***************************************************************************)
EXTENDS Integers

Divides(d, n) == \E k \in 0 .. n : n = k * d

CommonDivisors(a, b) == {d \in 1 .. a : Divides(d, a) /\ Divides(d, b)}

IsGcd(g, a, b) == /\ g \in CommonDivisors(a, b)
                  /\ \A d \in CommonDivisors(a, b) : d =< g

=============================================================================
