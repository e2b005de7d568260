------------------------------- MODULE Bignum --------------------------------
(***************************************************************************)
(* bignum.c: numbers as arrays of bytes, "note that bignums are little     *)
(* endian" (bignum.c:3).  An array is a function from 0 on.                *)
(***************************************************************************)
EXTENDS Digits, FiniteSetsExt

CONSTANT Repaired

\* mult_bounds: the loops of big_mult run over the operands' joint length
\*   and read both past their ends (bignum.c:10 to 16);
\* compare_order: big_compare starts with the least significant byte
\*   (bignum.c:32).
BignumStatements == {"mult_bounds", "compare_order"}

\* The numbers of a width.
Number(width) == [0..(width - 1) -> Byte]

\* What an array stands for.
Value(a) ==
    LET width == Max(DOMAIN a) + 1
        sum[n \in 0..width] ==
            IF n = 0 THEN 0 ELSE sum[n - 1] + a[n - 1] * Place[n - 1]
    IN  sum[width]

\* Byte i of an operand; past its end lies some byte.
At(a, i, past) == IF i \in DOMAIN a THEN a[i]
                  ELSE IF "mult_bounds" \in Repaired THEN 0 ELSE past

\* Fault: the sum is kept in a byte.
FaultyAccumulated(carry, digit, product) == (carry + digit + product) % Radix

\* n of big_mult, a uint16_t.
Accumulated(carry, digit, product) == (carry + digit + product) % (Radix * Radix)

\* A product is added at byte k of the result.
AddAt(p, k, product) ==
    LET n == Accumulated(p.carry, p.res[k], product)
    IN  [res |-> [p.res EXCEPT ![k] = n % Radix], carry |-> n \div Radix]

\* The inner loop for byte j of a.
AddRow(res, a, b, j, width, past) ==
    LET row[i \in 0..(width - j)] ==
            IF i = 0 THEN [res |-> res, carry |-> 0]
            ELSE AddAt(row[i - 1], i - 1 + j, At(a, j, past) * At(b, i - 1, past))
    IN  row[width - j].res

big_mult(a, a_bytes, b, b_bytes, past) ==
    LET w == a_bytes + b_bytes
        rows[j \in 0..w] == IF j = 0 THEN [i \in 0..(w - 1) |-> 0]
                            ELSE AddRow(rows[j - 1], a, b, j - 1, w, past)
    IN  rows[w]

\* The bytes that decide a comparison.
Differing(a, b, bytes) == {i \in 0..(bytes - 1) : a[i] # b[i]}

\* The first differing byte the loop meets decides.
big_compare(a, b, bytes) ==
    LET differing == Differing(a, b, bytes)
        decides   == IF "compare_order" \in Repaired THEN Max(differing)
                                                     ELSE Min(differing)
    IN  IF differing = {} THEN 0
        ELSE IF a[decides] < b[decides] THEN -1 ELSE 1

==============================================================================
