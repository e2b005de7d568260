--------------------------------- MODULE Hex ---------------------------------
(***************************************************************************)
(* The hexadecimal conversions of util.c, with characters as their codes.  *)
(***************************************************************************)
EXTENDS Integers

CONSTANT Repaired

\* nibble_mask: the low nibble is passed with the high one still above it
\*   (util.c:42).
HexStatements == {"nibble_mask"}

hexc_to_nibble(c) ==
    CASE c \in 48..57  -> c - 48           \* '0' to '9'
      [] c \in 97..102 -> c - 97 + 10      \* 'a' to 'f'
      [] c \in 65..70  -> c - 65 + 10      \* 'A' to 'F'
      [] OTHER -> 255

\* The result is a char.
nibble_to_hexc(n) == IF n <= 9 THEN n + 48 ELSE (n + 97 - 10) % 256

bytes_to_hexstr(byte) ==
    <<nibble_to_hexc(byte \div 16),
      nibble_to_hexc(IF "nibble_mask" \in Repaired THEN byte % 16 ELSE byte)>>

\* The high nibble's upper bits are shifted out.  The two parts overlap only
\* where a character was no digit, and then every bit is set.
hexstr_to_bytes(string) ==
    LET high == hexc_to_nibble(string[1])
        low  == hexc_to_nibble(string[2])
    IN  IF low = 255 THEN 255 ELSE ((high * 16) % 256) + low

==============================================================================
