------------------------------- MODULE Digits --------------------------------
(* Bytes as the digits of numbers, for bignum.c and crypto.c.               *)
EXTENDS Integers

CONSTANT Radix    \* the values of a byte

Byte == 0..(Radix - 1)

\* What a digit counts for that has n digits behind it.
Place[n \in Nat] == IF n = 0 THEN 1 ELSE Radix * Place[n - 1]
==============================================================================
