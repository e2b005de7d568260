-------------------------------- MODULE Bytes --------------------------------
(***************************************************************************)
(* The conversions between integers and bytes of util.c.  Memory is a      *)
(* function of addresses; a byte is a digit of radix Radix (256 in the     *)
(* code), so that the two widths, 4 bytes for a uint and 2 for a ushort,   *)
(* keep their meaning while counters wrap within reach.                    *)
(***************************************************************************)
EXTENDS Integers

CONSTANTS
    Radix,   \* the values of a byte
    Host     \* the byte order of the machine: "big" or "little"

ASSUME BytesConstants ==
    /\ Radix \in Nat \ {0, 1}
    /\ Host \in {"big", "little"}

\* What a byte counts for that is n bytes before the last: the shifts by 8,
\* 16 and 24 bits.
Place(n) == CASE n = 0 -> 1
              [] n = 1 -> Radix
              [] n = 2 -> Radix * Radix
              [] n = 3 -> Radix * Radix * Radix

Byte   == 0..(Radix - 1)
UInt   == 0..(Radix * Place(3) - 1)
UShort == 0..(Place(2) - 1)

\* The number that width bytes from address at on stand for, the first the
\* most significant: "All byte input and output are big-endian" (util.c:60).
\* A byte that is no number, such as one of a hash, counts for nothing.
BigEndian(mem, at, width) ==
    LET Digit(i) == IF mem[at + i] \in Byte
                    THEN mem[at + i] * Place(width - 1 - i) ELSE 0
    IN  IF width = 2 THEN Digit(0) + Digit(1)
        ELSE Digit(0) + Digit(1) + Digit(2) + Digit(3)

\* Digit i of a number of width bytes, the first the most significant.
Shifted(a, width, i) == (a \div Place(width - 1 - i)) % Radix

uitob(a) == <<Shifted(a, 4, 0), Shifted(a, 4, 1), Shifted(a, 4, 2), Shifted(a, 4, 3)>>
ustob(a) == <<Shifted(a, 2, 0), Shifted(a, 2, 1)>>

\* The bytes of a word in the reverse order, which is what the conversion
\* from network order does on a little-endian machine.
Reversed(a, width) ==
    IF width = 2 THEN Shifted(a, 2, 0) + Shifted(a, 2, 1) * Radix
    ELSE Shifted(a, 4, 0) + Shifted(a, 4, 1) * Radix
         + Shifted(a, 4, 2) * Place(2) + Shifted(a, 4, 3) * Place(3)

ntohl(a) == IF Host = "little" THEN Reversed(a, 4) ELSE a
ntohs(a) == IF Host = "little" THEN Reversed(a, 2) ELSE a

\* The shifts already give the number; ntohl and ntohs are applied to it
\* all the same.
btoui(mem, at) == ntohl(BigEndian(mem, at, 4))
btous(mem, at) == ntohs(BigEndian(mem, at, 2))

\* Memory with the sequence src of bytes written from address at on.  There is no
\* memory after the last address.
Written(mem, at, src) ==
    [i \in DOMAIN mem |->
        IF i - at + 1 \in DOMAIN src THEN src[i - at + 1] ELSE mem[i]]

==============================================================================
