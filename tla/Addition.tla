------------------------------ MODULE Addition ------------------------------
(* Sums of what has one number, and of what is no number and adds up to     *)
(* none: a set of one number, and the empty set for NaN.                    *)
EXTENDS Integers, Sequences

Plus(a, b) == {x + y : x \in a, y \in b}

(* The parts one after the other, from zero.                                *)
Total(parts) ==
    LET sum[n \in 0 .. Len(parts)] == IF n = 0 THEN {0} ELSE Plus(sum[n - 1], parts[n])
    IN  sum[Len(parts)]
=============================================================================
