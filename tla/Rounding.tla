------------------------------ MODULE Rounding -------------------------------
(***************************************************************************)
(* The arithmetic that the engine and the snapshots share.                 *)
(***************************************************************************)
EXTENDS Integers

(* Python's round(): to the nearest integer, halves to the even one.  The  *)
(* exact quotient n / d stands for a floating point product.               *)
Round(n, d) ==
    LET q == n \div d
        twice == 2 * (n % d)
    IN IF twice < d \/ (twice = d /\ q % 2 = 0) THEN q ELSE q + 1
=============================================================================
